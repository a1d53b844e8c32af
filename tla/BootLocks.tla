------------------------------ MODULE BootLocks ------------------------------
(***************************************************************************)
(* Spin locks (lock.rs) against interrupts on the one hart: kinit() from   *)
(* trap::init on, then the scheduler, its idle loop and traps from user    *)
(* mode.  A handler taken in supervisor mode runs on top of the code it    *)
(* interrupted, so a lock that code holds is never released while the      *)
(* handler spins on it.  Code is a sequence of the steps that matter here. *)
(***************************************************************************)
EXTENDS Naturals, Sequences

CONSTANT Milestone       \* the tick timer_tick announces, 100

ASSUME BootAssumption == Milestone \in Nat \ {0}

VARIABLES
    phase,       \* "boot", "schedule", "idle", "user", "trap", "panic" or "halted"
    code,        \* what the phase has left to do
    irq,         \* what the running handler has left to do
    sie,         \* sstatus.SIE
    held,        \* locks held by the code below any handler
    irqHeld,     \* locks held by the handler
    ticks,       \* TICKS, up to one past the milestone
    noisy        \* history: a handler that takes a lock ran during boot

vars == <<phase, code, irq, sie, held, irqHeld, ticks, noisy>>

Locks == {"UART", "RX_BUF", "PROCS", "NCES", "ROOT", "BLK", "NET"}

Within(lock, body) ==
    <<[op |-> "lock", lock |-> lock]>> \o body \o <<[op |-> "unlock", lock |-> lock]>>
Takes(lock) == Within(lock, <<>>)
PrintLine == Takes("UART")
SieOn == <<[op |-> "sie_on", lock |-> "none"]>>
SieOff == <<[op |-> "sie_off", lock |-> "none"]>>

\* Mutant: the guard of enable_rx_interrupt lives to the end of the function.
TrapInitHoldsUart == Within("UART", SieOn \o PrintLine)

\* trap::init, which ends with interrupts on.
TrapInit == Takes("UART") \o SieOn \o PrintLine

\* The rest of kinit up to the call of schedule().
Kinit ==
    TrapInit
    \o Takes("BLK") \o PrintLine \o Takes("ROOT")     \* fs::mount_root
    \o Within("NCES", PrintLine)                      \* nce::init
    \o Takes("NET") \o PrintLine                      \* net::init, net::self_test
    \o Within("ROOT", Takes("BLK"))                \* spawn: load_program
    \o Takes("PROCS")                              \* spawn: the slot
    \o PrintLine

Init ==
    /\ phase = "boot" /\ code = Kinit
    /\ irq = <<>> /\ sie = FALSE
    /\ held = {} /\ irqHeld = {}
    /\ ticks = 0 /\ noisy = FALSE
-----------------------------------------------------------------------------
(* Interrupt handlers. *)

\* handle_interrupt and wake_console_reader.
UartHandler ==
    Within("UART", Takes("RX_BUF")) \o Within("PROCS", Takes("RX_BUF"))

NextTick == IF ticks > Milestone THEN ticks ELSE ticks + 1
TimerHandler == IF NextTick = Milestone THEN PrintLine ELSE <<>>

\* Entry into trap_handler: the hart masks interrupts until sret.
Interrupt(handler) ==
    /\ sie /\ irq = <<>>
    /\ irq' = Append(handler, [op |-> "sret", lock |-> "none"])
    /\ sie' = FALSE
    /\ noisy' = (noisy \/ (phase \in {"boot", "panic"} /\ handler # <<>>))
    /\ UNCHANGED <<phase, code, held, irqHeld>>

TimerInterrupt == Interrupt(TimerHandler) /\ ticks' = NextTick
UartInterrupt == Interrupt(UartHandler) /\ UNCHANGED ticks

HandlerStep ==
    /\ irq # <<>>
    /\ LET s == Head(irq)
       IN  /\ s.op = "lock" => s.lock \notin held \cup irqHeld
           /\ irqHeld' = CASE s.op = "lock" -> irqHeld \cup {s.lock}
                           [] s.op = "unlock" -> irqHeld \ {s.lock}
                           [] OTHER -> irqHeld
           /\ sie' = (s.op = "sret")
    /\ irq' = Tail(irq)
    /\ UNCHANGED <<phase, code, held, ticks, noisy>>
-----------------------------------------------------------------------------
(* The code below. *)

CodeStep ==
    /\ irq = <<>> /\ code # <<>>
    /\ LET s == Head(code)
       IN  /\ s.op = "lock" => s.lock \notin held
           /\ held' = CASE s.op = "lock" -> held \cup {s.lock}
                        [] s.op = "unlock" -> held \ {s.lock}
                        [] OTHER -> held
           /\ sie' = CASE s.op = "sie_on" -> TRUE
                       [] s.op = "sie_off" -> FALSE
                       [] OTHER -> sie
    /\ code' = Tail(code)
    /\ UNCHANGED <<phase, irq, irqHeld, ticks, noisy>>

\* The phase is over; the next one begins with the given code.
Enter(from, to, next) ==
    /\ irq = <<>> /\ code = <<>> /\ phase = from
    /\ phase' = to /\ code' = next
    /\ UNCHANGED <<irq, held, irqHeld, noisy>>

\* Mutant: schedule() looks for a process with interrupts on.
PickUnmasked == Takes("PROCS")

\* schedule(): mask, then pick_next.
Pick == SieOff \o Takes("PROCS")

StartScheduling == Enter("boot", "schedule", Pick) /\ UNCHANGED <<sie, ticks>>

\* kinit's expect on spawn: the panic handler prints and halts.
Panic ==
    /\ irq = <<>> /\ phase = "boot" /\ code = PrintLine
    /\ phase' = "panic"
    /\ UNCHANGED <<code, irq, sie, held, irqHeld, ticks, noisy>>
Halt == Enter("panic", "halted", <<>>) /\ UNCHANGED <<sie, ticks>>

\* Nobody runnable: interrupts on around wfi.
Idle == Enter("schedule", "idle", SieOn) /\ UNCHANGED <<sie, ticks>>
WakeFromWfi == Enter("idle", "schedule", Pick) /\ UNCHANGED <<sie, ticks>>

EnterUser == Enter("schedule", "user", <<>>) /\ UNCHANGED <<sie, ticks>>

\* What system calls hold: process and console calls, files, sockets.
Syscalls ==
    {Takes("PROCS"), PrintLine, Takes("RX_BUF") \o Takes("PROCS"),
     Takes("NCES"), Within("ROOT", Takes("BLK")), Takes("NET")}

\* usertrap: the hart masks interrupts; a call, a UART interrupt or a tick.
UserTrap ==
    \/ \E body \in Syscalls \cup {UartHandler} :
        Enter("user", "trap", body) /\ UNCHANGED <<sie, ticks>>
    \/ Enter("user", "trap", TimerHandler \o Takes("PROCS"))
        /\ ticks' = NextTick /\ UNCHANGED sie
Reenter == Enter("trap", "user", <<>>) /\ UNCHANGED <<sie, ticks>>
Reschedule == Enter("trap", "schedule", Pick) /\ UNCHANGED <<sie, ticks>>

Hart ==
    \/ HandlerStep \/ CodeStep \/ StartScheduling \/ Panic \/ Halt \/ Idle
    \/ WakeFromWfi \/ EnterUser \/ UserTrap \/ Reenter \/ Reschedule

Next == Hart \/ TimerInterrupt \/ UartInterrupt

\* The hart executes, and the code below a handler gets its turn however often
\* it is interrupted: ticks are 10 ms apart.
Spec ==
    /\ Init /\ [][Next]_vars
    /\ WF_vars(HandlerStep) /\ SF_vars(CodeStep) /\ SF_vars(StartScheduling)
    /\ SF_vars(Halt)
-----------------------------------------------------------------------------
(* Properties. *)

Spinning == irq # <<>> /\ Head(irq).op = "lock" /\ Head(irq).lock \in held

\* After boot no handler ever finds its lock taken by the code it interrupted,
\* and during boot none does as long as no handler that takes a lock has run.
\* The scheduler masks interrupts before it touches the table (schedule()).
NoSpinAfterQuietBoot ==
    phase \notin {"boot", "panic"} \/ ~noisy => ~Spinning

\* A boot that is never interrupted by a handler that takes a lock reaches the
\* scheduler or the panic handler's halt, however many ticks interrupt it.
BootCompletes == ([]~noisy) => <>(phase \notin {"boot", "panic"})

\* "so it cannot deadlock against the RX path": the receive handler never spins
\* on the UART lock held by the code it interrupted.
NoDeadlockAgainstRx ==
    ~(Spinning /\ Head(irq).lock = "UART")

\* "interrupts stay off at this point, so wfi never wakes into handler code".
HaltedQuietly == phase = "halted" => ~sie
=============================================================================
