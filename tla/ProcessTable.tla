---------------------------- MODULE ProcessTable ----------------------------
(***************************************************************************)
(* The process table, its scheduler and the two blocking system calls.     *)
(*                                                                         *)
(* One hart runs user processes.  Supervisor interrupts are masked from a  *)
(* trap out of user mode until the return to user mode, so every kernel    *)
(* entry is one atomic step.  The exception is the idle loop of schedule() *)
(* (sched/mod.rs), which opens an interrupt window around wfi; `pc' names  *)
(* the points of that loop:                                                *)
(*   "user"   a process runs in user mode, interrupts enabled              *)
(*   "sched"  top of the loop, interrupts disabled: only the loop can step *)
(*   "idle"   interrupts enabled, the wfi not yet executed                 *)
(*   "wfi"    the hart waits for an interrupt                              *)
(*   "halted" the kernel panicked or powered off                           *)
(*                                                                         *)
(* The console ring is represented by `rx', the number of bytes it holds   *)
(* (its head/tail arithmetic is the subject of module RxRing).             *)
(***************************************************************************)
EXTENDS Integers

CONSTANTS
    MaxProcs,      \* MAX_PROCS, slots of the table
    MaxPid,        \* bound: pids the model hands out
    ExitCodes,     \* codes passed to exit()
    Results,       \* results of the calls that neither block nor use the table
    WaitPtrs,      \* status pointers passed to wait4
    ReadPtrs,      \* buffer pointers passed to read(0)
    ReadLens,      \* lengths passed to read(0)
    RxCapacity,    \* bytes the console ring can hold (RX_BUF_SIZE - 1)
    TmpLen,        \* the 128-byte bounce buffer of a console read
    MaxBurst       \* bound: bytes one UART interrupt finds in the FIFO

\* The table has room for init; reads of length 0 never reach the console path.
ASSUME ConstantsAssumption ==
    /\ MaxProcs \in Nat \ {0}
    /\ MaxPid \in Nat \ {0}
    /\ ExitCodes \subseteq Int
    /\ Results \subseteq Int \ {-4096}
    /\ WaitPtrs \subseteq {"null", "mapped", "unmapped"}
    /\ ReadPtrs \subseteq {"mapped", "unmapped"}
    /\ ReadLens \subseteq Nat \ {0}
    /\ RxCapacity \in Nat \ {0}
    /\ TmpLen \in Nat \ {0}
    /\ MaxBurst \in Nat

VARIABLES
    slots,         \* ProcTable.slots
    next_pid,      \* ProcTable.next_pid
    last_run,      \* ProcTable.last_run
    current,       \* CURRENT
    a0,            \* register a0 in each slot's trap frame
    rx,            \* bytes buffered in RX_BUF
    pc             \* where the hart is

vars == <<slots, next_pid, last_run, current, a0, rx, pc>>
-----------------------------------------------------------------------------
Slots == 0 .. MaxProcs - 1

NO_PROC == MaxProcs

ECHILD == -10
EAGAIN == -11
ENOMEM == -12
EFAULT == -14

\* The frame still holds the argument of a call that has not completed.
NoResult == -4096

ProcState == {"Ready", "Running", "SleepChild", "SleepConsole", "Zombie"}

\* A user pointer is null, or translates to a writable user page, or does not.
UserPtr == {"null", "mapped", "unmapped"}

\* `wstatus' is the status word in the process's own memory; "None" is the
\* Option::None of a free slot.
Process ==
    [pid : Nat, state : ProcState \cup {"None"}, parent : Slots \cup {NO_PROC},
     exit_code : Int, wait_status_uva : UserPtr, read_buf_uva : UserPtr,
     read_len : Nat, wstatus : Int]

NoProcess ==
    [pid |-> 0, state |-> "None", parent |-> NO_PROC, exit_code |-> 0,
     wait_status_uva |-> "null", read_buf_uva |-> "null", read_len |-> 0,
     wstatus |-> 0]

NewProcess(pid, parent, wstatus) ==
    [pid |-> pid, state |-> "Ready", parent |-> parent, exit_code |-> 0,
     wait_status_uva |-> "null", read_buf_uva |-> "null", read_len |-> 0,
     wstatus |-> wstatus]

Occupied(s) == slots[s].state # "None"
Asleep(s) == slots[s].state \in {"SleepChild", "SleepConsole"}
IsChild(c, p) == Occupied(c) /\ slots[c].parent = p

\* Iterator::position: the lowest slot of a set.
IsFirst(s, S) == s \in S /\ \A t \in S : s <= t

Least(a, b) == IF a <= b THEN a ELSE b
-----------------------------------------------------------------------------
\* kinit spawns init into the empty table and jumps to the scheduler.
Init ==
    /\ slots = [s \in Slots |-> IF s = 0 THEN NewProcess(1, NO_PROC, 0)
                                         ELSE NoProcess]
    /\ next_pid = 2
    /\ last_run = 0
    /\ current = NO_PROC
    /\ a0 = [s \in Slots |-> 0]
    /\ rx = 0
    /\ pc = "sched"

InUser == pc = "user"

\* Every path that gives up the hart: clear CURRENT, jump to schedule().
GiveUpHart == current' = NO_PROC /\ pc' = "sched"

\* syscall::dispatch: store the result in the caller's frame and resume it.
Return(r) ==
    /\ a0' = [a0 EXCEPT ![current] = r]
    /\ UNCHANGED <<current, pc>>
-----------------------------------------------------------------------------
(* The scheduler. *)

\* Mutant: the scan restarts at slot 0 instead of behind last_run.
ScanFromZero(s) == s

\* The cyclic distance of slot s behind the slot that ran last.
ScanOrder(s) == (s - last_run - 1) % MaxProcs

ReadySlots == {s \in Slots : slots[s].state = "Ready"}

PickNext ==
    /\ pc = "sched"
    /\ \E s \in ReadySlots :
        /\ \A t \in ReadySlots : ScanOrder(s) <= ScanOrder(t)
        /\ slots' = [slots EXCEPT ![s].state = "Running"]
        /\ last_run' = s
        /\ current' = s
    /\ pc' = "user"
    /\ UNCHANGED <<next_pid, a0, rx>>

NothingRunnable ==
    /\ pc = "sched"
    /\ ReadySlots = {}
    /\ pc' = "idle"
    /\ UNCHANGED <<slots, next_pid, last_run, current, a0, rx>>

Wfi ==
    /\ pc = "idle"
    /\ pc' = "wfi"
    /\ UNCHANGED <<slots, next_pid, last_run, current, a0, rx>>

\* An interrupt taken in the idle window returns to where it was taken: before
\* the wfi, or after it and so to the top of the loop.
ReturnToIdle == pc' = IF pc = "wfi" THEN "sched" ELSE pc

\* Mutant: the preempted process is left Running.
PreemptLeavesRunning ==
    /\ InUser
    /\ GiveUpHart
    /\ UNCHANGED <<slots, next_pid, last_run, a0, rx>>

\* Timer tick in user mode: preemption.
TimerPreempt ==
    /\ InUser
    /\ slots' = [slots EXCEPT ![current].state =
                    IF @ = "Running" THEN "Ready" ELSE @]
    /\ GiveUpHart
    /\ UNCHANGED <<next_pid, last_run, a0, rx>>

\* Timer tick in the idle loop: only the tick count and the next deadline.
TimerIdle ==
    /\ pc \in {"idle", "wfi"}
    /\ ReturnToIdle
    /\ UNCHANGED <<slots, next_pid, last_run, current, a0, rx>>
-----------------------------------------------------------------------------
(* Process lifecycle. *)

FreeSlots == {s \in Slots : ~Occupied(s)}

ForkOk ==
    /\ InUser
    /\ next_pid <= MaxPid
    /\ \E s \in Slots :
        /\ IsFirst(s, FreeSlots)
        /\ slots' = [slots EXCEPT
                        ![s] = NewProcess(next_pid, current, slots[current].wstatus)]
        /\ a0' = [a0 EXCEPT ![s] = 0, ![current] = next_pid]
    /\ next_pid' = next_pid + 1
    /\ UNCHANGED <<last_run, current, rx, pc>>

\* EAGAIN with the table full, ENOMEM when the copy of the memory fails.
ForkFails ==
    /\ InUser
    /\ Return(IF FreeSlots = {} THEN EAGAIN ELSE ENOMEM)
    /\ UNCHANGED <<slots, next_pid, last_run, rx>>

\* The new image starts with fresh memory; descriptors and the rest stay.
ExecOk ==
    /\ InUser
    /\ slots' = [slots EXCEPT ![current].wstatus = 0]
    /\ Return(0)
    /\ UNCHANGED <<next_pid, last_run, rx>>

\* Calls that neither block nor touch the table, exec's failures included.
OtherSyscall ==
    /\ InUser
    /\ \E r \in Results : Return(r)
    /\ UNCHANGED <<slots, next_pid, last_run, rx>>

\* (code & 0xff) << 8
WaitStatus(code) == (code % 256) * 256

\* The process q whose wait4 ends with a child's exit code; a status address
\* that does not translate is ignored.
WaitDone(q, code) ==
    [q EXCEPT !.state = "Ready",
              !.wstatus = IF q.wait_status_uva = "mapped"
                          THEN WaitStatus(code) ELSE @]

\* Mutant: the pid is stored in the child's frame.
ReapIntoChildFrame(tbl, p, c) ==
    /\ slots' = [tbl EXCEPT ![p] = WaitDone(@, tbl[c].exit_code),
                            ![c] = NoProcess]
    /\ a0' = [a0 EXCEPT ![c] = tbl[c].pid]

\* In table tbl, parent p reaps zombie c.
complete_wait(tbl, p, c) ==
    /\ slots' = [tbl EXCEPT ![p] = WaitDone(@, tbl[c].exit_code),
                            ![c] = NoProcess]
    /\ a0' = [a0 EXCEPT ![p] = tbl[c].pid]

\* Slot of pid 1, NO_PROC when there is none.
IsInitSlot(i) ==
    \/ i \in Slots /\ slots[i].pid = 1
    \/ i = NO_PROC /\ \A s \in Slots : slots[s].pid # 1

ZombieOf(q, code) == [q EXCEPT !.state = "Zombie", !.exit_code = code]

\* Mutant: only live children are handed to init.
ExitedKeepsZombies(code, i) ==
    [s \in Slots |->
        IF s = current THEN ZombieOf(slots[s], code)
        ELSE IF IsChild(s, current) /\ slots[s].state # "Zombie"
        THEN [slots[s] EXCEPT !.parent = i]
        ELSE slots[s]]

\* The table after the exit of the current process, its orphans given to i.
Exited(code, i) ==
    [s \in Slots |->
        IF s = current
        THEN ZombieOf(slots[s], code)
        ELSE IF IsChild(s, current) THEN [slots[s] EXCEPT !.parent = i]
        ELSE slots[s]]

\* Mutant: the parent's pending wait4 is not completed.
ExitForgetsWaiter(code) ==
    /\ InUser
    /\ slots[current].pid # 1
    /\ \E i \in Slots \cup {NO_PROC} :
        IsInitSlot(i) /\ slots' = Exited(code, i)
    /\ GiveUpHart
    /\ UNCHANGED <<next_pid, last_run, a0, rx>>

\* exit(), and a fault in user mode with code -1.
exit_current(code) ==
    /\ InUser
    /\ slots[current].pid # 1
    /\ \E i \in Slots \cup {NO_PROC} :
        /\ IsInitSlot(i)
        /\ LET tbl == Exited(code, i)
               parent == slots[current].parent
           IN  IF parent # NO_PROC /\ tbl[parent].state = "SleepChild"
               THEN complete_wait(tbl, parent, current)
               ELSE slots' = tbl /\ UNCHANGED a0
    /\ GiveUpHart
    /\ UNCHANGED <<next_pid, last_run, rx>>

Exit == \E code \in ExitCodes : exit_current(code)

UserFault == exit_current(-1)

\* The exit of init panics the kernel before anything is changed.
InitExits ==
    /\ InUser
    /\ slots[current].pid = 1
    /\ pc' = "halted"
    /\ UNCHANGED <<slots, next_pid, last_run, current, a0, rx>>

\* reboot(): power off or reset, from any process.
Reboot ==
    /\ InUser
    /\ pc' = "halted"
    /\ UNCHANGED <<slots, next_pid, last_run, current, a0, rx>>

ZombieChildren(p) == {c \in Slots : IsChild(c, p) /\ slots[c].state = "Zombie"}

\* wait4: the caller gives up the hart on every path.
wait_current(uva) ==
    LET me == [slots[current] EXCEPT !.wait_status_uva = uva]
    IN  \/ \E c \in Slots :
            /\ IsFirst(c, ZombieChildren(current))
            /\ complete_wait([slots EXCEPT ![current] = me], current, c)
        \/ /\ ZombieChildren(current) = {}
           /\ \E c \in Slots : IsChild(c, current)
           /\ slots' = [slots EXCEPT ![current] = [me EXCEPT !.state = "SleepChild"]]
           /\ a0' = [a0 EXCEPT ![current] = NoResult]
        \/ /\ \A c \in Slots : ~IsChild(c, current)
           /\ slots' = [slots EXCEPT ![current] = [me EXCEPT !.state = "Ready"]]
           /\ a0' = [a0 EXCEPT ![current] = ECHILD]

Wait4 ==
    /\ InUser
    /\ \E uva \in WaitPtrs : wait_current(uva)
    /\ GiveUpHart
    /\ UNCHANGED <<next_pid, last_run, rx>>
-----------------------------------------------------------------------------
(* Console input. *)

\* Result of copying n bytes out to a user buffer.
CopyOut(uva, n) == IF uva = "mapped" THEN n ELSE EFAULT

\* read(0) with input buffered: take what fits.  The bytes are gone from the
\* ring even when the copy to the user buffer faults.
ReadBuffered ==
    /\ InUser
    /\ rx > 0
    /\ \E len \in ReadLens, uva \in ReadPtrs :
        LET n == Least(Least(len, TmpLen), rx)
        IN  rx' = rx - n /\ Return(CopyOut(uva, n))
    /\ UNCHANGED <<slots, next_pid, last_run>>

BlockedReader(q, uva, len) ==
    [q EXCEPT !.state = "SleepConsole", !.read_buf_uva = uva, !.read_len = len]

\* read(0) with the ring empty.
block_on_console ==
    /\ InUser
    /\ rx = 0
    /\ \E len \in ReadLens, uva \in ReadPtrs :
        slots' = [slots EXCEPT ![current] = BlockedReader(@, uva, len)]
    /\ a0' = [a0 EXCEPT ![current] = NoResult]
    /\ GiveUpHart
    /\ UNCHANGED <<next_pid, last_run, rx>>

\* Mutant: the reader is found by its request instead of its state.
ReadersByRequest == {s \in Slots : Occupied(s) /\ slots[s].read_len > 0}

ConsoleSleepers == {s \in Slots : slots[s].state = "SleepConsole"}

\* Mutant: a reader whose buffer faults is woken without a result.
WakeWithoutFault(m) ==
    \/ \E s \in Slots :
        /\ IsFirst(s, ConsoleSleepers)
        /\ rx' = m - Least(Least(slots[s].read_len, TmpLen), m)
        /\ a0' = IF slots[s].read_buf_uva = "mapped"
                 THEN [a0 EXCEPT ![s] = m - rx'] ELSE a0
        /\ slots' = [slots EXCEPT ![s].state = "Ready"]
    \/ ConsoleSleepers = {} /\ rx' = m /\ UNCHANGED <<slots, a0>>

\* Mutant: the bytes are copied but not taken from the ring.
WakePeeks(m) ==
    /\ rx' = m
    /\ \/ \E s \in Slots :
            /\ IsFirst(s, ConsoleSleepers)
            /\ a0' = [a0 EXCEPT ![s] = m]
            /\ slots' = [slots EXCEPT ![s].state = "Ready"]
       \/ ConsoleSleepers = {} /\ UNCHANGED <<slots, a0>>

\* Complete the read of the first sleeper from a ring holding m bytes.
wake_console_reader(m) ==
    \/ \E s \in Slots :
        /\ IsFirst(s, ConsoleSleepers)
        /\ LET n == Least(Least(slots[s].read_len, TmpLen), m)
           IN  IF n = 0
               THEN rx' = m /\ UNCHANGED <<slots, a0>>
               ELSE /\ rx' = m - n
                    /\ a0' = [a0 EXCEPT ![s] = CopyOut(slots[s].read_buf_uva, n)]
                    /\ slots' = [slots EXCEPT ![s].state = "Ready"]
    \/ ConsoleSleepers = {} /\ rx' = m /\ UNCHANGED <<slots, a0>>

\* Mutant: the full ring is not noticed.
StoreBeyondCapacity(burst) == wake_console_reader(rx + burst)

\* The UART interrupt drains `burst' bytes of the FIFO; what the ring cannot
\* hold is dropped, and a reader is woken only if a byte was stored.
handle_interrupt(burst) ==
    LET stored == Least(burst, RxCapacity - rx)
    IN  IF stored > 0 THEN wake_console_reader(rx + stored)
                      ELSE UNCHANGED <<slots, a0, rx>>

UartInterrupt ==
    /\ pc \in {"user", "idle", "wfi"}
    /\ \E burst \in 1 .. MaxBurst : handle_interrupt(burst)
    /\ ReturnToIdle
    /\ UNCHANGED <<next_pid, last_run, current>>
-----------------------------------------------------------------------------
\* halt(), after a panic or a power-off: the hart waits for ever.
Halted ==
    /\ pc = "halted"
    /\ UNCHANGED vars

Kernel == PickNext \/ NothingRunnable \/ Wfi

Timer == TimerPreempt \/ TimerIdle

User ==
    \/ ForkOk \/ ForkFails \/ ExecOk \/ OtherSyscall
    \/ Exit \/ UserFault \/ InitExits \/ Reboot \/ Wait4
    \/ ReadBuffered \/ block_on_console

Next == Kernel \/ Timer \/ User \/ UartInterrupt \/ Halted

Spec == Init /\ [][Next]_vars

\* The kernel always steps, and every tick re-arms the next one.
FairSpec == Spec /\ WF_vars(Kernel) /\ WF_vars(Timer)
-----------------------------------------------------------------------------
(* Properties. *)

\* Every variable has its type; in particular every result in a trap frame is
\* an integer and every parent index is a slot or NO_PROC.
TypeOK ==
    /\ slots \in [Slots -> Process]
    /\ next_pid \in Nat \ {0}
    /\ last_run \in Slots
    /\ current \in Slots \cup {NO_PROC}
    /\ a0 \in [Slots -> Int]
    /\ rx \in 0 .. RxCapacity
    /\ pc \in {"user", "sched", "idle", "wfi", "halted"}

\* The parent of a process is stored as a slot index, and slots are reused.
\* It never goes stale: the slot it names always holds an older process that
\* has not exited, whoever exits, reaps or forks in between, so the table is a
\* tree rooted at init (exit_current re-parents before it turns zombie; only
\* complete_wait frees a slot).
ParentAlive ==
    \A s \in Slots : Occupied(s) /\ slots[s].pid # 1 =>
        LET p == slots[s].parent
        IN  /\ p \in Slots
            /\ slots[p].state \notin {"None", "Zombie"}
            /\ slots[p].pid < slots[s].pid

\* CURRENT names the one Running process exactly while the hart is in user
\* mode; in the scheduler and the idle loop nobody is Running, so no blocking
\* path leaves its caller Running and no preemption runs two processes.
CurrentIsRunning ==
    pc # "halted" =>
        /\ InUser <=> current # NO_PROC
        /\ \A s \in Slots : slots[s].state = "Running" <=> s = current

\* A blocked call has no result yet and nobody else lacks one: whoever wakes a
\* sleeper has stored the call's result in its frame, and no sleeper's frame is
\* completed without waking it (complete_wait, wake_console_reader).
SleepersAwaitResult ==
    \A s \in Slots : Occupied(s) => (Asleep(s) <=> a0[s] = NoResult)

\* A process blocked in wait4 always has a child left that can end its wait,
\* although children are re-parented and reaped around it; and unless it is
\* init, none of them is a zombie it has missed (wait_current, exit_current).
WaiterHasChild ==
    \A s \in Slots : slots[s].state = "SleepChild" =>
        /\ \E c \in Slots : IsChild(c, s)
        /\ slots[s].pid # 1 => ZombieChildren(s) = {}

\* While a process is blocked in read(0) the ring is never full, so the next
\* byte is stored and handle_interrupt wakes a reader; a full ring would drop
\* the byte, leave got_input false and strand the reader for ever.
SleeperLeavesRoom ==
    \A s \in ConsoleSleepers : rx < RxCapacity /\ slots[s].read_len > 0

\* A slot is freed only by delivering its pid to the process in its parent slot,
\* which becomes runnable with the encoded exit code in its memory if it asked
\* for it: no exit is lost and none is reported twice (complete_wait).
ReapDelivers ==
    [][\A c \in Slots : Occupied(c) /\ ~Occupied(c)' =>
        LET p == slots[c].parent
        IN  /\ slots'[p].state = "Ready"
            /\ a0'[p] = slots[c].pid
            /\ slots'[p].wait_status_uva = "mapped" =>
                slots'[p].wstatus \in {WaitStatus(code) : code \in ExitCodes \cup {-1}}
            /\ slots[c].state = "Zombie" /\ slots'[p].wait_status_uva = "mapped" =>
                slots'[p].wstatus = WaitStatus(slots[c].exit_code)
      ]_vars

\* "A frame is only touched by its own trap path or by a syscall completing on
\* behalf of a sleeping process" (the comment on TRAPFRAMES); a free slot's
\* frame is prepared by fork.
FrameOwnership ==
    [][\A s \in Slots : a0'[s] # a0[s] =>
            s = current \/ Asleep(s) \/ ~Occupied(s)]_vars

\* Round robin starves nobody: a runnable process runs, whatever the others
\* do, including one made runnable by an interrupt between the scheduler's
\* check and its wfi.
ReadyRuns ==
    \A s \in Slots : slots[s].state = "Ready"
                        ~> (slots[s].state = "Running" \/ pc = "halted")

\* wait4 "reap[s] a zombie child now, or block[s] until one exits": nobody is
\* blocked in wait4 while it has a zombie child.
NoZombieWhileWaiting ==
    \A s \in Slots : slots[s].state = "SleepChild" => ZombieChildren(s) = {}

\* read(0) "returns as soon as at least one byte is available": nobody is
\* blocked in it while the ring holds a byte.
NoInputWhileBlocked ==
    ConsoleSleepers # {} => rx = 0
=============================================================================
