------------------------- MODULE ProcessTableProofs -------------------------
(***************************************************************************)
(* Proofs about ProcessTable for every table size, ring capacity, set of   *)
(* exit codes and set of read lengths, and that it implements ProcessTree. *)
(***************************************************************************)
EXTENDS ProcessTableRefinement, TLAPS

\* In user mode CURRENT names a slot.
HartInv == InUser => current \in Slots

\* A free slot has pid 0; the pids in the table are distinct, below next_pid,
\* and pid 1 is in slot 0 and has not exited.
PidInv ==
    /\ \A s \in Slots : IF Occupied(s) THEN slots[s].pid \in 1 .. next_pid - 1
                                       ELSE slots[s].pid = 0
    /\ \A s, t \in Slots : Occupied(s) /\ slots[s].pid = slots[t].pid => s = t
    /\ slots[0].pid = 1 /\ slots[0].state # "Zombie"

\* Inductive: the checked invariants, with the facts about pids that
\* re-parenting to "the slot of pid 1" relies on.
IInv ==
    /\ TypeOK /\ HartInv /\ PidInv
    /\ ParentAlive
    /\ CurrentIsRunning
    /\ SleepersAwaitResult
    /\ WaiterHasChild
    /\ SleeperLeavesRoom
-----------------------------------------------------------------------------
(* Facts about the records and helpers. *)

\* Slot 0 exists and NO_PROC is not a slot.
LEMMA SlotFacts == 0 \in Slots /\ NO_PROC \notin Slots /\ Slots \subseteq Nat
BY ConstantsAssumption DEF ConstantsAssumption, Slots, NO_PROC

\* The minimum of two naturals.
LEMMA LeastFacts ==
  ASSUME NEW a \in Int, NEW b \in Int
  PROVE  Least(a, b) \in {a, b} /\ Least(a, b) <= a /\ Least(a, b) <= b
BY DEF Least

\* The record of a free slot and that of a new process are well formed.
LEMMA NoProcessFacts ==
  NoProcess \in Process /\ NoProcess.pid = 0 /\ NoProcess.state = "None"
BY DEF NoProcess, Process, ProcState, UserPtr

\* The record fork_current and spawn create: its type and its fields.
LEMMA NewProcessFacts ==
  ASSUME NEW pid \in Nat, NEW parent \in Slots \cup {NO_PROC}, NEW w \in Int
  PROVE  LET q == NewProcess(pid, parent, w)
         IN  /\ q \in Process
             /\ q.pid = pid /\ q.state = "Ready" /\ q.parent = parent
BY DEF NewProcess, Process, ProcState, UserPtr

\* The record of a process parked by block_on_console.
LEMMA BlockedReaderFacts ==
  ASSUME NEW p \in Process, NEW len \in Nat, NEW uva \in UserPtr
  PROVE  LET q == BlockedReader(p, uva, len)
         IN  /\ q \in Process
             /\ q.pid = p.pid /\ q.parent = p.parent
             /\ q.state = "SleepConsole" /\ q.read_len = len
<1> DEFINE q1 == [p EXCEPT !.state = "SleepConsole"]
           q2 == [q1 EXCEPT !.read_buf_uva = uva]
           q3 == [q2 EXCEPT !.read_len = len]
<1>1. q1 \in Process /\ q1.pid = p.pid /\ q1.parent = p.parent /\ q1.state = "SleepConsole"
  BY DEF Process, ProcState
<1> HIDE DEF q1
<1>2. q2 \in Process /\ q2.pid = p.pid /\ q2.parent = p.parent /\ q2.state = "SleepConsole"
  BY <1>1 DEF Process
<1> HIDE DEF q2
<1>3. /\ q3 \in Process /\ q3.pid = p.pid /\ q3.parent = p.parent
      /\ q3.state = "SleepConsole" /\ q3.read_len = len
  BY <1>2 DEF Process
<1> QED
  BY <1>3 DEF q1, q2, BlockedReader

\* The record exit_current leaves of the exiting process.
LEMMA ZombieOfFacts ==
  ASSUME NEW p \in Process, NEW code \in Int
  PROVE  LET q == ZombieOf(p, code)
         IN  /\ q \in Process
             /\ q.pid = p.pid /\ q.parent = p.parent
             /\ q.state = "Zombie" /\ q.exit_code = code
<1> DEFINE q1 == [p EXCEPT !.state = "Zombie"]
           q2 == [q1 EXCEPT !.exit_code = code]
<1>1. q1 \in Process /\ q1.pid = p.pid /\ q1.parent = p.parent /\ q1.state = "Zombie"
  BY DEF Process, ProcState
<1> HIDE DEF q1
<1>2. /\ q2 \in Process /\ q2.pid = p.pid /\ q2.parent = p.parent
      /\ q2.state = "Zombie" /\ q2.exit_code = code
  BY <1>1 DEF Process
<1> QED
  BY <1>2 DEF q1, ZombieOf

\* The record of a parent whose wait4 complete_wait has ended.
LEMMA WaitDoneFacts ==
  ASSUME NEW p \in Process, NEW code \in Int
  PROVE  LET q == WaitDone(p, code)
         IN  /\ q \in Process
             /\ q.pid = p.pid /\ q.parent = p.parent
             /\ q.state = "Ready" /\ q.wait_status_uva = p.wait_status_uva
             /\ q.wstatus = IF p.wait_status_uva = "mapped"
                            THEN WaitStatus(code) ELSE p.wstatus
<1> DEFINE w == IF p.wait_status_uva = "mapped" THEN WaitStatus(code) ELSE p.wstatus
           q1 == [p EXCEPT !.state = "Ready"]
           q2 == [q1 EXCEPT !.wstatus = w]
<1>1. w \in Int
  BY DEF WaitStatus, Process
<1> HIDE DEF w
<1>2. /\ q1 \in Process /\ q1.pid = p.pid /\ q1.parent = p.parent /\ q1.state = "Ready"
      /\ q1.wait_status_uva = p.wait_status_uva
  BY DEF Process, ProcState
<1> HIDE DEF q1
<1>3. /\ q2 \in Process /\ q2.pid = p.pid /\ q2.parent = p.parent
      /\ q2.state = "Ready" /\ q2.wait_status_uva = p.wait_status_uva /\ q2.wstatus = w
  BY <1>1, <1>2 DEF Process
<1> QED
  BY <1>3 DEF q1, w, WaitDone
-----------------------------------------------------------------------------
(* One lemma per action: it preserves IInv. *)

\* Changing only the state of a process that has not exited, to one that is
\* neither an exit nor a wait4, keeps the tree and every waiter's child.
LEMMA Restated ==
  ASSUME IInv, NEW x \in Slots, NEW st \in {"Ready", "Running", "SleepConsole"},
         slots[x].state \notin {"None", "Zombie"},
         next_pid' = next_pid,
         \A s \in Slots :
            /\ slots'[s].pid = slots[s].pid /\ slots'[s].parent = slots[s].parent
            /\ slots'[s].state = IF s = x THEN st ELSE slots[s].state
  PROVE  PidInv' /\ ParentAlive' /\ WaiterHasChild'
<1>1. PidInv'
  BY SlotFacts DEF IInv, PidInv, Occupied
<1>2. ParentAlive'
  BY DEF IInv, ParentAlive, Occupied
<1>3. ASSUME NEW s \in Slots, slots'[s].state = "SleepChild"
      PROVE  /\ \E c \in Slots : IsChild(c, s)'
             /\ slots'[s].pid # 1 => ZombieChildren(s)' = {}
  <2>1. slots[s].state = "SleepChild" /\ slots'[s].pid = slots[s].pid
    BY <1>3
  <2>2. \A c \in Slots : IsChild(c, s)' <=> IsChild(c, s)
    BY DEF IsChild, Occupied
  <2>3. ZombieChildren(s)' \subseteq ZombieChildren(s)
    BY <2>2 DEF ZombieChildren
  <2> QED
    BY <2>1, <2>2, <2>3 DEF IInv, WaiterHasChild
<1> QED
  BY <1>1, <1>2, <1>3 DEF WaiterHasChild

\* pick_next keeps the invariant: the chosen process becomes the only Running one.
LEMMA PickNextInv == IInv /\ PickNext => IInv'
<1> SUFFICES ASSUME IInv, PickNext PROVE IInv'
  OBVIOUS
<1>1. PICK x \in ReadySlots : /\ slots' = [slots EXCEPT ![x].state = "Running"]
                              /\ last_run' = x /\ current' = x
  BY Zenon DEF PickNext
<1> x \in Slots /\ slots[x].state = "Ready"
  BY DEF ReadySlots
<1>2. /\ \A s \in Slots :
            /\ slots'[s].pid = slots[s].pid /\ slots'[s].parent = slots[s].parent
            /\ slots'[s].read_len = slots[s].read_len
            /\ slots'[s].state = IF s = x THEN "Running" ELSE slots[s].state
      /\ slots' \in [Slots -> Process]
  BY <1>1 DEF IInv, TypeOK, Process, ProcState
<1>3. PidInv' /\ ParentAlive' /\ WaiterHasChild'
  BY <1>1, <1>2, Restated DEF PickNext
<1>4. TypeOK' /\ HartInv'
  BY <1>1, <1>2 DEF IInv, TypeOK, HartInv, PickNext
<1>5. CurrentIsRunning'
  BY <1>1, <1>2, SlotFacts DEF IInv, CurrentIsRunning, PickNext, InUser
<1>6. SleepersAwaitResult'
  BY <1>1, <1>2 DEF IInv, SleepersAwaitResult, PickNext, Occupied, Asleep
<1>7. SleeperLeavesRoom'
  BY <1>1, <1>2 DEF IInv, SleeperLeavesRoom, ConsoleSleepers, PickNext
<1> QED
  BY <1>3, <1>4, <1>5, <1>6, <1>7 DEF IInv

\* yield_current keeps the invariant.
LEMMA TimerPreemptInv == IInv /\ TimerPreempt => IInv'
<1> SUFFICES ASSUME IInv, TimerPreempt PROVE IInv'
  OBVIOUS
<1>1. current \in Slots /\ slots[current].state = "Running"
  BY DEF IInv, HartInv, CurrentIsRunning, TimerPreempt, InUser
<1>2. /\ \A s \in Slots :
            /\ slots'[s].pid = slots[s].pid /\ slots'[s].parent = slots[s].parent
            /\ slots'[s].read_len = slots[s].read_len
            /\ slots'[s].state = IF s = current THEN "Ready" ELSE slots[s].state
      /\ slots' \in [Slots -> Process]
  BY <1>1 DEF IInv, TypeOK, Process, ProcState, TimerPreempt
<1>3. PidInv' /\ ParentAlive' /\ WaiterHasChild'
  BY <1>1, <1>2, Restated DEF TimerPreempt
<1>4. TypeOK' /\ HartInv'
  BY <1>1, <1>2 DEF IInv, TypeOK, HartInv, InUser, TimerPreempt, GiveUpHart
<1>5. CurrentIsRunning'
  BY <1>1, <1>2, SlotFacts DEF IInv, CurrentIsRunning, TimerPreempt, GiveUpHart, InUser
<1>6. SleepersAwaitResult'
  BY <1>1, <1>2 DEF IInv, SleepersAwaitResult, TimerPreempt, Occupied, Asleep
<1>7. SleeperLeavesRoom'
  BY <1>1, <1>2 DEF IInv, SleeperLeavesRoom, ConsoleSleepers, TimerPreempt
<1> QED
  BY <1>3, <1>4, <1>5, <1>6, <1>7 DEF IInv

\* Steps that leave the table alone.
LEMMA SameTable ==
  ASSUME IInv, UNCHANGED <<slots, next_pid>>
  PROVE  PidInv' /\ ParentAlive' /\ WaiterHasChild'
BY DEF IInv, PidInv, ParentAlive, WaiterHasChild, ZombieChildren, IsChild, Occupied

\* The steps of the idle loop, a halt and stuttering keep the invariant.
LEMMA IdleInv ==
  ASSUME IInv, NothingRunnable \/ Wfi \/ TimerIdle \/ InitExits \/ Reboot \/ Halted \/ UNCHANGED vars
  PROVE  IInv'
<1>1. /\ UNCHANGED <<slots, next_pid, last_run, current, a0, rx>>
      /\ pc' = pc \/ pc' = "halted" \/ (pc # "user" /\ pc' \in {"sched", "idle", "wfi"})
  BY DEF NothingRunnable, Wfi, TimerIdle, ReturnToIdle, InitExits, Reboot, Halted, vars
<1>2. PidInv' /\ ParentAlive' /\ WaiterHasChild'
  BY <1>1, SameTable
<1>3. TypeOK' /\ HartInv'
  BY <1>1 DEF IInv, TypeOK, HartInv, InUser
<1>4. pc = "halted" => pc' = "halted"
  BY DEF NothingRunnable, Wfi, TimerIdle, ReturnToIdle, InitExits, Reboot, Halted, vars, InUser
<1>5. CurrentIsRunning'
  BY <1>1, <1>4 DEF IInv, CurrentIsRunning, InUser
<1>6. SleepersAwaitResult' /\ SleeperLeavesRoom'
  BY <1>1 DEF IInv, SleepersAwaitResult, SleeperLeavesRoom, ConsoleSleepers, Occupied, Asleep
<1> QED
  BY <1>2, <1>3, <1>5, <1>6 DEF IInv

\* A call that returns r to its caller at once, the table and its tree as they were.
LEMMA ReturnInv ==
  ASSUME IInv, InUser, NEW r \in Int \ {NoResult}, Return(r),
         UNCHANGED <<slots, next_pid, last_run>>, rx' \in 0 .. rx
  PROVE  IInv'
<1>1. current \in Slots /\ slots[current].state = "Running"
  BY DEF IInv, HartInv, CurrentIsRunning, InUser
<1>2. PidInv' /\ ParentAlive' /\ WaiterHasChild'
  BY SameTable
<1>3. TypeOK' /\ HartInv'
  BY <1>1, ConstantsAssumption
  DEF ConstantsAssumption, IInv, TypeOK, HartInv, InUser, Return
<1>4. CurrentIsRunning'
  BY DEF IInv, CurrentIsRunning, InUser, Return
<1>5. SleepersAwaitResult'
  BY <1>1 DEF IInv, TypeOK, SleepersAwaitResult, Occupied, Asleep, Return
<1>6. SleeperLeavesRoom'
  BY ConstantsAssumption
  DEF ConstantsAssumption, IInv, TypeOK, SleeperLeavesRoom, ConsoleSleepers
<1> QED
  BY <1>2, <1>3, <1>4, <1>5, <1>6 DEF IInv

\* A fork that returns EAGAIN or ENOMEM keeps the invariant.
LEMMA ForkFailsInv == IInv /\ ForkFails => IInv'
<1> SUFFICES ASSUME IInv, ForkFails PROVE IInv'
  OBVIOUS
<1>1. PICK r \in {EAGAIN, ENOMEM} : Return(r)
  BY DEF ForkFails
<1>2. r \in Int \ {NoResult}
  BY DEF EAGAIN, ENOMEM, NoResult
<1>3. rx' \in 0 .. rx
  BY DEF ForkFails, IInv, TypeOK
<1> QED
  BY <1>1, <1>2, <1>3, ReturnInv DEF ForkFails

\* A call that only returns a result keeps the invariant.
LEMMA OtherSyscallInv == IInv /\ OtherSyscall => IInv'
<1> SUFFICES ASSUME IInv, OtherSyscall PROVE IInv'
  OBVIOUS
<1>1. PICK r \in Results : Return(r)
  BY DEF OtherSyscall
<1>2. r \in Int \ {NoResult}
  BY ConstantsAssumption DEF ConstantsAssumption, NoResult
<1>3. rx' \in 0 .. rx
  BY DEF OtherSyscall, IInv, TypeOK
<1> QED
  BY <1>1, <1>2, <1>3, ReturnInv DEF OtherSyscall

\* What a console read takes from a ring of m bytes, and the result it gives.
LEMMA ReadFacts ==
  ASSUME NEW len \in Nat \ {0}, NEW m \in Nat \ {0}, NEW uva
  PROVE  LET n == Least(Least(len, TmpLen), m)
         IN  n \in 1 .. m /\ CopyOut(uva, n) \in Int \ {NoResult}
BY ConstantsAssumption DEF ConstantsAssumption, Least, CopyOut, EFAULT, NoResult

\* read(0) served from the ring keeps the invariant.
LEMMA ReadBufferedInv == IInv /\ ReadBuffered => IInv'
<1> SUFFICES ASSUME IInv, ReadBuffered PROVE IInv'
  OBVIOUS
<1>1. PICK len \in ReadLens, uva \in ReadPtrs :
        /\ rx' = rx - Least(Least(len, TmpLen), rx)
        /\ Return(CopyOut(uva, Least(Least(len, TmpLen), rx)))
  BY DEF ReadBuffered
<1> DEFINE n == Least(Least(len, TmpLen), rx)
<1>2. rx \in Nat \ {0} /\ len \in Nat \ {0}
  BY ConstantsAssumption DEF ConstantsAssumption, IInv, TypeOK, ReadBuffered
<1>3. n \in 1 .. rx /\ CopyOut(uva, n) \in Int \ {NoResult}
  BY <1>2, ReadFacts
<1>4. rx' \in 0 .. rx
  BY <1>1, <1>2, <1>3
<1> QED
  BY <1>1, <1>3, <1>4, ReturnInv DEF ReadBuffered

\* exec_current keeps the invariant: the process keeps its slot, pid and parent.
LEMMA ExecOkInv == IInv /\ ExecOk => IInv'
<1> SUFFICES ASSUME IInv, ExecOk PROVE IInv'
  OBVIOUS
<1>1. current \in Slots /\ slots[current].state = "Running"
  BY DEF IInv, HartInv, CurrentIsRunning, ExecOk, InUser
<1>2. /\ \A s \in Slots :
            /\ slots'[s].pid = slots[s].pid /\ slots'[s].parent = slots[s].parent
            /\ slots'[s].read_len = slots[s].read_len
            /\ slots'[s].state = slots[s].state
      /\ slots' \in [Slots -> Process]
  BY <1>1 DEF IInv, TypeOK, Process, ExecOk
<1>3. PidInv' /\ ParentAlive' /\ WaiterHasChild'
  <2>1. \A s \in Slots : slots'[s].state = IF s = current THEN "Running" ELSE slots[s].state
    BY <1>1, <1>2
  <2> QED
    BY <1>1, <1>2, <2>1, Restated DEF ExecOk
<1>4. TypeOK' /\ HartInv'
  BY <1>1, <1>2 DEF IInv, TypeOK, HartInv, InUser, ExecOk, Return
<1>5. CurrentIsRunning'
  BY <1>1, <1>2 DEF IInv, CurrentIsRunning, ExecOk, Return, InUser
<1>6. SleepersAwaitResult'
  BY <1>1, <1>2
  DEF IInv, TypeOK, SleepersAwaitResult, ExecOk, Return, Occupied, Asleep, NoResult
<1>7. SleeperLeavesRoom'
  BY <1>1, <1>2 DEF IInv, SleeperLeavesRoom, ConsoleSleepers, ExecOk
<1> QED
  BY <1>3, <1>4, <1>5, <1>6, <1>7 DEF IInv

\* block_on_console keeps the invariant: the ring is empty when the reader sleeps.
LEMMA BlockOnConsoleInv == IInv /\ block_on_console => IInv'
<1> SUFFICES ASSUME IInv, block_on_console PROVE IInv'
  OBVIOUS
<1>1. current \in Slots /\ slots[current].state = "Running" /\ slots[current] \in Process
  BY DEF IInv, TypeOK, HartInv, CurrentIsRunning, block_on_console, InUser
<1>2. PICK len \in ReadLens, uva \in ReadPtrs :
        slots' = [slots EXCEPT ![current] = BlockedReader(slots[current], uva, len)]
  BY DEF block_on_console
<1>3. len \in Nat \ {0} /\ uva \in UserPtr
  BY ConstantsAssumption DEF ConstantsAssumption, UserPtr
<1> DEFINE q == BlockedReader(slots[current], uva, len)
<1>4. /\ q \in Process /\ q.pid = slots[current].pid /\ q.parent = slots[current].parent
      /\ q.state = "SleepConsole" /\ q.read_len = len
  BY <1>1, <1>3, BlockedReaderFacts
<1> HIDE DEF q
<1>5. /\ \A s \in Slots :
            /\ slots'[s].pid = slots[s].pid /\ slots'[s].parent = slots[s].parent
            /\ slots'[s].read_len = IF s = current THEN len ELSE slots[s].read_len
            /\ slots'[s].state = IF s = current THEN "SleepConsole" ELSE slots[s].state
      /\ slots' \in [Slots -> Process]
  BY <1>1, <1>2, <1>4 DEF IInv, TypeOK, q
<1>6. PidInv' /\ ParentAlive' /\ WaiterHasChild'
  BY <1>1, <1>5, Restated DEF block_on_console
<1>7. TypeOK' /\ HartInv'
  BY <1>1, <1>5 DEF IInv, TypeOK, HartInv, InUser, block_on_console, GiveUpHart, NoResult
<1>8. CurrentIsRunning'
  BY <1>1, <1>5, SlotFacts DEF IInv, CurrentIsRunning, block_on_console, GiveUpHart, InUser
<1>9. SleepersAwaitResult'
  BY <1>1, <1>5 DEF IInv, TypeOK, SleepersAwaitResult, block_on_console, Occupied, Asleep
<1>10. SleeperLeavesRoom'
  BY <1>1, <1>3, <1>5, ConstantsAssumption
  DEF ConstantsAssumption, IInv, SleeperLeavesRoom, ConsoleSleepers, block_on_console
<1> QED
  BY <1>6, <1>7, <1>8, <1>9, <1>10 DEF IInv

\* fork_current keeps the invariant: the child enters a free slot that is nobody's parent.
LEMMA ForkOkInv == IInv /\ ForkOk => IInv'
<1> SUFFICES ASSUME IInv, ForkOk PROVE IInv'
  OBVIOUS
<1>1. current \in Slots /\ slots[current].state = "Running" /\ slots[current] \in Process
  BY DEF IInv, TypeOK, HartInv, CurrentIsRunning, ForkOk, InUser
<1> DEFINE new == NewProcess(next_pid, current, slots[current].wstatus)
<1>2. PICK x \in FreeSlots : /\ slots' = [slots EXCEPT ![x] = new]
                             /\ a0' = [a0 EXCEPT ![x] = 0, ![current] = next_pid]
  BY Zenon DEF ForkOk, IsFirst
<1>3. x \in Slots /\ slots[x].state = "None" /\ x # current
  BY <1>1 DEF FreeSlots, Occupied
<1>4. /\ new \in Process /\ new.pid = next_pid /\ new.state = "Ready"
      /\ new.parent = current
  <2>1. next_pid \in Nat /\ current \in Slots \cup {NO_PROC} /\ slots[current].wstatus \in Int
    BY <1>1 DEF IInv, TypeOK, Process
  <2> QED
    BY <2>1, NewProcessFacts
<1> HIDE DEF new
<1>5. /\ \A s \in Slots : s # x => slots'[s] = slots[s]
      /\ slots'[x] = new
      /\ slots' \in [Slots -> Process]
  BY <1>2, <1>3, <1>4 DEF IInv, TypeOK
<1>6. next_pid' = next_pid + 1 /\ next_pid \in Nat \ {0}
  BY DEF ForkOk, IInv, TypeOK
<1>7. PidInv'
  BY <1>3, <1>4, <1>5, <1>6, SlotFacts DEF IInv, PidInv, Occupied
<1>8. ParentAlive'
  <2> SUFFICES ASSUME NEW s \in Slots, Occupied(s)', slots'[s].pid # 1
               PROVE  /\ slots'[s].parent \in Slots
                      /\ slots'[slots'[s].parent].state \notin {"None", "Zombie"}
                      /\ slots'[slots'[s].parent].pid < slots'[s].pid
    BY DEF ParentAlive
  <2>1. CASE s = x
    BY <1>1, <1>3, <1>4, <1>5, <1>6, <2>1 DEF IInv, PidInv, Occupied
  <2>2. CASE s # x
    BY <1>3, <1>5, <2>2 DEF IInv, ParentAlive, Occupied
  <2> QED
    BY <2>1, <2>2
<1>9. WaiterHasChild'
  <2>1. ASSUME NEW s \in Slots, slots'[s].state = "SleepChild"
        PROVE  /\ \E c \in Slots : IsChild(c, s)'
               /\ slots'[s].pid # 1 => ZombieChildren(s)' = {}
    <3>1. s # x /\ slots[s].state = "SleepChild" /\ slots'[s].pid = slots[s].pid
      BY <1>3, <1>4, <1>5, <2>1
    <3>2. \A c \in Slots : IsChild(c, s) => IsChild(c, s)'
      BY <1>3, <1>5 DEF IsChild, Occupied
    <3>3. ZombieChildren(s)' \subseteq ZombieChildren(s)
      BY <1>3, <1>4, <1>5 DEF ZombieChildren, IsChild, Occupied
    <3> QED
      BY <3>1, <3>2, <3>3 DEF IInv, WaiterHasChild
  <2> QED
    BY <2>1 DEF WaiterHasChild
<1>10. TypeOK' /\ HartInv'
  BY <1>1, <1>2, <1>3, <1>5, <1>6 DEF IInv, TypeOK, HartInv, InUser, ForkOk
<1>11. CurrentIsRunning'
  BY <1>1, <1>3, <1>4, <1>5 DEF IInv, CurrentIsRunning, ForkOk, InUser
<1>12. SleepersAwaitResult'
  BY <1>1, <1>2, <1>3, <1>4, <1>5, <1>6
  DEF IInv, TypeOK, SleepersAwaitResult, Occupied, Asleep, NoResult
<1>13. SleeperLeavesRoom'
  BY <1>3, <1>4, <1>5 DEF IInv, SleeperLeavesRoom, ConsoleSleepers, ForkOk
<1> QED
  BY <1>7, <1>8, <1>9, <1>10, <1>11, <1>12, <1>13 DEF IInv

\* The three outcomes of a UART interrupt: nothing stored, bytes stored with
\* nobody to wake, a reader woken.
LEMMA UartInterruptInv == IInv /\ UartInterrupt => IInv'
<1> SUFFICES ASSUME IInv, UartInterrupt PROVE IInv'
  OBVIOUS
<1>1. PICK burst \in 1 .. MaxBurst : handle_interrupt(burst)
  BY DEF UartInterrupt
<1> DEFINE stored == Least(burst, RxCapacity - rx)
           m == rx + stored
<1>2. /\ UNCHANGED <<next_pid, last_run, current>>
      /\ pc # "halted"
      /\ pc' \in {"user", "sched", "idle", "wfi"} /\ (pc' = "user" <=> pc = "user")
  BY DEF UartInterrupt, ReturnToIdle
<1>3. rx \in Nat /\ rx <= RxCapacity /\ stored \in Nat /\ m \in Nat /\ m <= RxCapacity
  BY ConstantsAssumption DEF ConstantsAssumption, IInv, TypeOK, Least
<1>4. CASE /\ UNCHANGED <<slots, a0>>
           /\ rx' \in 0 .. RxCapacity
           /\ ConsoleSleepers # {} => rx' = rx
  <2>1. PidInv' /\ ParentAlive' /\ WaiterHasChild'
    BY <1>2, <1>4, SameTable
  <2>2. TypeOK' /\ HartInv' /\ CurrentIsRunning'
    BY <1>2, <1>4 DEF IInv, TypeOK, HartInv, CurrentIsRunning, InUser
  <2>3. SleepersAwaitResult' /\ SleeperLeavesRoom'
    BY <1>4 DEF IInv, SleepersAwaitResult, SleeperLeavesRoom, ConsoleSleepers, Occupied, Asleep
  <2> QED
    BY <2>1, <2>2, <2>3 DEF IInv
<1>5. ASSUME NEW x \in Slots, slots[x].state = "SleepConsole",
             NEW n \in 1 .. m, NEW r \in Int \ {NoResult},
             rx' = m - n, a0' = [a0 EXCEPT ![x] = r],
             slots' = [slots EXCEPT ![x].state = "Ready"]
      PROVE  IInv'
  <2>1. /\ \A s \in Slots :
              /\ slots'[s].pid = slots[s].pid /\ slots'[s].parent = slots[s].parent
              /\ slots'[s].read_len = slots[s].read_len
              /\ slots'[s].state = IF s = x THEN "Ready" ELSE slots[s].state
        /\ slots' \in [Slots -> Process]
    BY <1>5 DEF IInv, TypeOK, Process, ProcState
  <2>2. PidInv' /\ ParentAlive' /\ WaiterHasChild'
    BY <1>2, <1>5, <2>1, Restated
  <2>3. TypeOK' /\ HartInv'
    BY <1>2, <1>3, <1>5, <2>1, ConstantsAssumption
    DEF ConstantsAssumption, IInv, TypeOK, HartInv, InUser
  <2>4. CurrentIsRunning'
    BY <1>2, <1>5, <2>1 DEF IInv, CurrentIsRunning, InUser
  <2>5. SleepersAwaitResult'
    BY <1>5, <2>1 DEF IInv, TypeOK, SleepersAwaitResult, Occupied, Asleep
  <2>6. SleeperLeavesRoom'
    BY <1>3, <1>5, <2>1, ConstantsAssumption
    DEF ConstantsAssumption, IInv, SleeperLeavesRoom, ConsoleSleepers
  <2> QED
    BY <2>2, <2>3, <2>4, <2>5, <2>6 DEF IInv
<1>6. CASE ~(stored > 0)
  <2>1. UNCHANGED <<slots, a0, rx>>
    BY <1>1, <1>6 DEF handle_interrupt
  <2> QED
    BY <1>3, <1>4, <2>1
<1>7. CASE stored > 0
  <2>1. wake_console_reader(m)
    BY <1>1, <1>7 DEF handle_interrupt
  <2>2. CASE ConsoleSleepers = {}
    <3>1. rx' = m /\ UNCHANGED <<slots, a0>>
      BY <2>1, <2>2 DEF wake_console_reader, IsFirst
    <3> QED
      BY <1>3, <1>4, <2>2, <3>1
  <2>3. CASE ConsoleSleepers # {}
    <3>1. PICK x \in ConsoleSleepers :
            LET n == Least(Least(slots[x].read_len, TmpLen), m)
            IN  IF n = 0
                THEN rx' = m /\ UNCHANGED <<slots, a0>>
                ELSE /\ rx' = m - n
                     /\ a0' = [a0 EXCEPT ![x] = CopyOut(slots[x].read_buf_uva, n)]
                     /\ slots' = [slots EXCEPT ![x].state = "Ready"]
      BY <2>1, <2>3, Zenon DEF wake_console_reader, IsFirst
    <3> DEFINE n == Least(Least(slots[x].read_len, TmpLen), m)
    <3>2. x \in Slots /\ slots[x].state = "SleepConsole" /\ slots[x].read_len \in Nat \ {0}
      BY DEF ConsoleSleepers, IInv, SleeperLeavesRoom, TypeOK, Process
    <3>3. m \in Nat \ {0}
      BY <1>3, <1>7
    <3>4. n \in 1 .. m /\ CopyOut(slots[x].read_buf_uva, n) \in Int \ {NoResult}
      BY <3>2, <3>3, ReadFacts
    <3>5. /\ rx' = m - n
          /\ a0' = [a0 EXCEPT ![x] = CopyOut(slots[x].read_buf_uva, n)]
          /\ slots' = [slots EXCEPT ![x].state = "Ready"]
      BY <3>1, <3>4
    <3> QED
      BY <1>5, <3>2, <3>4, <3>5
  <2> QED
    BY <2>2, <2>3
<1> QED
  BY <1>6, <1>7

\* wait4 that reaps zombie c at once.
LEMMA WaitReapsInv ==
  ASSUME IInv, InUser, NEW uva \in UserPtr, NEW c \in ZombieChildren(current),
         complete_wait([slots EXCEPT ![current] =
                            [slots[current] EXCEPT !.wait_status_uva = uva]],
                       current, c),
         GiveUpHart, UNCHANGED <<next_pid, last_run, rx>>
  PROVE  IInv'
<1>1. current \in Slots /\ slots[current].state = "Running" /\ slots[current] \in Process
  BY DEF IInv, TypeOK, HartInv, CurrentIsRunning, InUser
<1>2. /\ c \in Slots /\ slots[c].state = "Zombie" /\ slots[c].parent = current
      /\ c # current /\ slots[c] \in Process
  BY <1>1 DEF ZombieChildren, IsChild, IInv, TypeOK
<1> DEFINE me == [slots[current] EXCEPT !.wait_status_uva = uva]
           done == WaitDone(me, slots[c].exit_code)
<1>3. me \in Process /\ me.pid = slots[current].pid /\ me.parent = slots[current].parent
  BY <1>1 DEF Process
<1> HIDE DEF me
<1>4. /\ done \in Process /\ done.pid = slots[current].pid
      /\ done.parent = slots[current].parent /\ done.state = "Ready"
  <2>1. slots[c].exit_code \in Int
    BY <1>2 DEF Process
  <2> QED
    BY <1>3, <2>1, WaitDoneFacts
<1>5. /\ slots' = [[slots EXCEPT ![current] = me] EXCEPT
                        ![current] = done, ![c] = NoProcess]
      /\ a0' = [a0 EXCEPT ![current] = slots[c].pid]
  BY <1>1, <1>2 DEF complete_wait, me, IInv, TypeOK
<1> HIDE DEF done
<1>6. /\ slots'[c] = NoProcess /\ slots'[current] = done
      /\ \A s \in Slots : s # c /\ s # current => slots'[s] = slots[s]
      /\ slots' \in [Slots -> Process]
  BY <1>1, <1>2, <1>3, <1>4, <1>5, NoProcessFacts DEF IInv, TypeOK
<1>7. PidInv'
  BY <1>1, <1>2, <1>4, <1>6, NoProcessFacts, SlotFacts DEF IInv, PidInv, Occupied
<1>8. ParentAlive'
  BY <1>1, <1>2, <1>4, <1>6, NoProcessFacts DEF IInv, ParentAlive, Occupied
<1>9. WaiterHasChild'
  <2>1. ASSUME NEW s \in Slots, slots'[s].state = "SleepChild"
        PROVE  /\ \E d \in Slots : IsChild(d, s)'
               /\ slots'[s].pid # 1 => ZombieChildren(s)' = {}
    <3>1. s # c /\ s # current /\ slots[s].state = "SleepChild" /\ slots'[s].pid = slots[s].pid
      BY <1>4, <1>6, <2>1, NoProcessFacts
    <3>2. \A d \in Slots : IsChild(d, s) => IsChild(d, s)'
      BY <1>1, <1>2, <1>4, <1>6, <3>1 DEF IsChild, Occupied
    <3>3. ZombieChildren(s)' \subseteq ZombieChildren(s)
      BY <1>4, <1>6, NoProcessFacts DEF ZombieChildren, IsChild, Occupied
    <3> QED
      BY <3>1, <3>2, <3>3 DEF IInv, WaiterHasChild
  <2> QED
    BY <2>1 DEF WaiterHasChild
<1>10. slots[c].pid \in Int \ {NoResult}
  BY <1>2 DEF Process, NoResult
<1>11. TypeOK' /\ HartInv'
  BY <1>1, <1>5, <1>6, <1>10 DEF IInv, TypeOK, HartInv, InUser, GiveUpHart
<1>12. CurrentIsRunning'
  BY <1>1, <1>4, <1>6, NoProcessFacts, SlotFacts
  DEF IInv, CurrentIsRunning, GiveUpHart, InUser
<1>13. SleepersAwaitResult'
  BY <1>1, <1>4, <1>5, <1>6, <1>10, NoProcessFacts
  DEF IInv, TypeOK, SleepersAwaitResult, Occupied, Asleep
<1>14. SleeperLeavesRoom'
  BY <1>4, <1>6, NoProcessFacts DEF IInv, SleeperLeavesRoom, ConsoleSleepers
<1> QED
  BY <1>7, <1>8, <1>9, <1>11, <1>12, <1>13, <1>14 DEF IInv

\* wait4 that blocks, or fails for want of a child.
LEMMA WaitParksInv ==
  ASSUME IInv, InUser, NEW uva \in UserPtr,
         NEW st \in {"SleepChild", "Ready"}, NEW r \in Int,
         st = "Ready" <=> r # NoResult,
         st = "SleepChild" => /\ ZombieChildren(current) = {}
                              /\ \E c \in Slots : IsChild(c, current),
         slots' = [slots EXCEPT ![current] =
                    [[slots[current] EXCEPT !.wait_status_uva = uva] EXCEPT !.state = st]],
         a0' = [a0 EXCEPT ![current] = r],
         GiveUpHart, UNCHANGED <<next_pid, last_run, rx>>
  PROVE  IInv'
<1>1. current \in Slots /\ slots[current].state = "Running" /\ slots[current] \in Process
  BY DEF IInv, TypeOK, HartInv, CurrentIsRunning, InUser
<1> DEFINE me == [slots[current] EXCEPT !.wait_status_uva = uva]
           q == [me EXCEPT !.state = st]
<1>2. me \in Process /\ me.pid = slots[current].pid /\ me.parent = slots[current].parent
  BY <1>1 DEF Process
<1> HIDE DEF me
<1>3. q \in Process /\ q.pid = slots[current].pid /\ q.parent = slots[current].parent /\ q.state = st
  BY <1>2 DEF Process, ProcState
<1>4. slots' = [slots EXCEPT ![current] = q]
  BY DEF me
<1> HIDE DEF q
<1>5. /\ \A s \in Slots :
            /\ slots'[s].pid = slots[s].pid /\ slots'[s].parent = slots[s].parent
            /\ slots'[s].state = IF s = current THEN st ELSE slots[s].state
            /\ s # current => slots'[s] = slots[s]
      /\ slots' \in [Slots -> Process]
  BY <1>1, <1>3, <1>4 DEF IInv, TypeOK
<1>6. PidInv'
  BY <1>1, <1>5, SlotFacts DEF IInv, PidInv, Occupied
<1>7. ParentAlive'
  BY <1>1, <1>5 DEF IInv, ParentAlive, Occupied
<1>8. WaiterHasChild'
  <2>1. ASSUME NEW s \in Slots, slots'[s].state = "SleepChild"
        PROVE  /\ \E c \in Slots : IsChild(c, s)'
               /\ slots'[s].pid # 1 => ZombieChildren(s)' = {}
    <3>1. \A c \in Slots : IsChild(c, s)' <=> IsChild(c, s)
      BY <1>1, <1>5 DEF IsChild, Occupied
    <3>2. ZombieChildren(s)' \subseteq ZombieChildren(s)
      BY <1>5, <3>1 DEF ZombieChildren
    <3>3. CASE s = current
      BY <1>5, <2>1, <3>1, <3>2, <3>3
    <3>4. CASE s # current
      BY <1>5, <2>1, <3>1, <3>2, <3>4 DEF IInv, WaiterHasChild
    <3> QED
      BY <3>3, <3>4
  <2> QED
    BY <2>1 DEF WaiterHasChild
<1>9. TypeOK' /\ HartInv'
  BY <1>1, <1>5 DEF IInv, TypeOK, HartInv, InUser, GiveUpHart
<1>10. CurrentIsRunning'
  BY <1>1, <1>5, SlotFacts DEF IInv, CurrentIsRunning, GiveUpHart, InUser
<1>11. SleepersAwaitResult'
  BY <1>1, <1>5 DEF IInv, TypeOK, SleepersAwaitResult, Occupied, Asleep
<1>12. SleeperLeavesRoom'
  BY <1>1, <1>5 DEF IInv, SleeperLeavesRoom, ConsoleSleepers
<1> QED
  BY <1>6, <1>7, <1>8, <1>9, <1>10, <1>11, <1>12 DEF IInv

\* wait_current keeps the invariant on each of its three paths.
LEMMA Wait4Inv == IInv /\ Wait4 => IInv'
<1> SUFFICES ASSUME IInv, Wait4 PROVE IInv'
  OBVIOUS
<1>1. PICK uva \in WaitPtrs : wait_current(uva)
  BY DEF Wait4
<1>2. /\ uva \in UserPtr
      /\ InUser /\ GiveUpHart /\ UNCHANGED <<next_pid, last_run, rx>>
  BY ConstantsAssumption DEF ConstantsAssumption, UserPtr, Wait4
<1> DEFINE me == [slots[current] EXCEPT !.wait_status_uva = uva]
<1>3. CASE \E c \in Slots : /\ IsFirst(c, ZombieChildren(current))
                            /\ complete_wait([slots EXCEPT ![current] = me], current, c)
  <2>1. PICK c \in ZombieChildren(current) :
            complete_wait([slots EXCEPT ![current] = me], current, c)
    BY <1>3 DEF IsFirst
  <2> QED
    BY <1>2, <2>1, WaitReapsInv
<1>4. CASE /\ ZombieChildren(current) = {}
           /\ \E c \in Slots : IsChild(c, current)
           /\ slots' = [slots EXCEPT ![current] = [me EXCEPT !.state = "SleepChild"]]
           /\ a0' = [a0 EXCEPT ![current] = NoResult]
  <2>1. NoResult \in Int
    BY DEF NoResult
  <2> QED
    BY <1>2, <1>4, <2>1, WaitParksInv
<1>5. CASE /\ slots' = [slots EXCEPT ![current] = [me EXCEPT !.state = "Ready"]]
           /\ a0' = [a0 EXCEPT ![current] = ECHILD]
  <2>1. ECHILD \in Int /\ ECHILD # NoResult
    BY DEF NoResult, ECHILD
  <2> QED
    BY <1>2, <1>5, <2>1, WaitParksInv
<1> QED
  BY <1>1, <1>3, <1>4, <1>5 DEF wait_current

\* The exiting process and what exit_current makes of the table before it looks
\* at the parent: its children go to slot 0, which holds init.
LEMMA ExitedFacts ==
  ASSUME IInv, InUser, slots[current].pid # 1, NEW code \in Int,
         NEW i \in Slots \cup {NO_PROC}, IsInitSlot(i)
  PROVE  LET tbl == Exited(code, i)
         IN  /\ current \in Slots /\ slots[current].state = "Running" /\ current # 0
             /\ tbl \in [Slots -> Process]
             /\ tbl[current].state = "Zombie" /\ tbl[current].exit_code = code
             /\ tbl[current].pid = slots[current].pid
             /\ tbl[current].parent = slots[current].parent
             /\ \A s \in Slots : s # current =>
                    /\ tbl[s].pid = slots[s].pid /\ tbl[s].state = slots[s].state
                    /\ tbl[s].read_len = slots[s].read_len /\ tbl[s].exit_code = slots[s].exit_code
                    /\ tbl[s].wait_status_uva = slots[s].wait_status_uva
                    /\ tbl[s].parent = IF IsChild(s, current) THEN 0 ELSE slots[s].parent
<1>1. current \in Slots /\ slots[current].state = "Running" /\ slots[current] \in Process
  BY DEF IInv, TypeOK, HartInv, CurrentIsRunning, InUser
<1>2. i = 0 /\ current # 0
  BY <1>1, SlotFacts DEF IInv, PidInv, IsInitSlot, Occupied
<1>3. ASSUME NEW s \in Slots
      PROVE  LET q == [slots[s] EXCEPT !.parent = i]
             IN  /\ q \in Process
                 /\ q.pid = slots[s].pid /\ q.state = slots[s].state /\ q.parent = 0
                 /\ q.read_len = slots[s].read_len /\ q.exit_code = slots[s].exit_code
                 /\ q.wait_status_uva = slots[s].wait_status_uva
  BY <1>2, SlotFacts DEF IInv, TypeOK, Process
<1>4. /\ ZombieOf(slots[current], code) \in Process
      /\ ZombieOf(slots[current], code).state = "Zombie"
      /\ ZombieOf(slots[current], code).exit_code = code
      /\ ZombieOf(slots[current], code).pid = slots[current].pid
      /\ ZombieOf(slots[current], code).parent = slots[current].parent
  BY <1>1, ZombieOfFacts
<1> DEFINE tbl == Exited(code, i)
<1>5. \A s \in Slots : tbl[s] = IF s = current THEN ZombieOf(slots[s], code)
                                ELSE IF IsChild(s, current) THEN [slots[s] EXCEPT !.parent = i]
                                ELSE slots[s]
  BY Zenon DEF Exited
<1>6. \A s \in Slots : tbl[s] \in Process
  BY <1>3, <1>4, <1>5 DEF IInv, TypeOK
<1>7. tbl \in [Slots -> Process]
  BY <1>6 DEF Exited
<1>8. \A s \in Slots : s # current =>
                    /\ tbl[s].pid = slots[s].pid /\ tbl[s].state = slots[s].state
                    /\ tbl[s].read_len = slots[s].read_len /\ tbl[s].exit_code = slots[s].exit_code
                    /\ tbl[s].wait_status_uva = slots[s].wait_status_uva
                    /\ tbl[s].parent = IF IsChild(s, current) THEN 0 ELSE slots[s].parent
  BY <1>3, <1>5
<1> HIDE DEF tbl
<1> QED
  BY <1>1, <1>2, <1>4, <1>5, <1>7, <1>8 DEF tbl

\* exit(): the parent is waiting and reaps at once, or the zombie stays.
LEMMA ExitInv ==
  ASSUME IInv, NEW code \in Int, exit_current(code)
  PROVE  IInv'
<1>1. PICK i \in Slots \cup {NO_PROC} :
        /\ IsInitSlot(i)
        /\ LET tbl == Exited(code, i)
               parent == slots[current].parent
           IN  IF parent # NO_PROC /\ tbl[parent].state = "SleepChild"
               THEN complete_wait(tbl, parent, current)
               ELSE slots' = tbl /\ UNCHANGED a0
  BY DEF exit_current
<1> DEFINE tbl == Exited(code, i)
           p == slots[current].parent
<1>2. InUser /\ slots[current].pid # 1 /\ GiveUpHart /\ UNCHANGED <<next_pid, last_run, rx>>
  BY DEF exit_current
<1>3. /\ current \in Slots /\ slots[current].state = "Running" /\ current # 0
      /\ tbl \in [Slots -> Process]
      /\ tbl[current].state = "Zombie" /\ tbl[current].exit_code = code
      /\ tbl[current].pid = slots[current].pid
      /\ tbl[current].parent = p
      /\ \A s \in Slots : s # current =>
            /\ tbl[s].pid = slots[s].pid /\ tbl[s].state = slots[s].state
            /\ tbl[s].read_len = slots[s].read_len
            /\ tbl[s].parent = IF IsChild(s, current) THEN 0 ELSE slots[s].parent
  BY <1>1, <1>2, ExitedFacts
<1>4. p \in Slots /\ p # current /\ slots[p].state \notin {"None", "Zombie"}
      /\ slots[p].pid < slots[current].pid
  BY <1>2, <1>3 DEF IInv, ParentAlive, Occupied, TypeOK, Process
<1>5. IF tbl[p].state = "SleepChild"
      THEN complete_wait(tbl, p, current)
      ELSE slots' = tbl /\ UNCHANGED a0
  BY <1>1, <1>4, SlotFacts
<1> HIDE DEF tbl, p
\* the table is a tree with an orphan's parent 0, whether or not the exiting
\* process is still in it
<1>6. ASSUME NEW s \in Slots, s # current, slots[s].state # "None", slots[s].pid # 1
      PROVE  /\ tbl[s].parent \in Slots /\ tbl[s].parent # current
             /\ slots[tbl[s].parent].state \notin {"None", "Zombie"}
             /\ slots[tbl[s].parent].pid < slots[s].pid
  <2>1. CASE IsChild(s, current)
    <3>1. tbl[s].parent = 0 /\ slots[0].pid = 1 /\ slots[0].state \notin {"None", "Zombie"}
      BY <1>3, <1>6, <2>1, SlotFacts DEF IInv, PidInv, Occupied
    <3>2. slots[s].pid \in 1 .. next_pid - 1
      BY <1>6 DEF IInv, PidInv, Occupied
    <3> QED
      BY <1>3, <1>6, <3>1, <3>2, SlotFacts DEF IInv, TypeOK
  <2>2. CASE ~IsChild(s, current)
    BY <1>3, <1>6, <2>2 DEF IInv, ParentAlive, IsChild, Occupied
  <2> QED
    BY <2>1, <2>2
<1>7. CASE tbl[p].state # "SleepChild"
  <2>1. slots' = tbl /\ a0' = a0
    BY <1>5, <1>7
  <2>2. PidInv'
    BY <1>2, <1>3, <2>1, SlotFacts DEF IInv, PidInv, Occupied
  <2>3. ParentAlive'
    <3> SUFFICES ASSUME NEW s \in Slots, Occupied(s)', slots'[s].pid # 1
                 PROVE  /\ slots'[s].parent \in Slots
                        /\ slots'[slots'[s].parent].state \notin {"None", "Zombie"}
                        /\ slots'[slots'[s].parent].pid < slots'[s].pid
      BY DEF ParentAlive
    <3>1. CASE s = current
      BY <1>3, <1>4, <2>1, <3>1
    <3>2. CASE s # current
      <4>1. slots[s].state # "None" /\ slots[s].pid # 1
        BY <1>3, <2>1, <3>2 DEF Occupied
      <4> QED
        BY <1>3, <1>6, <2>1, <3>2, <4>1
    <3> QED
      BY <3>1, <3>2
  <2>4. WaiterHasChild'
    <3>1. ASSUME NEW s \in Slots, slots'[s].state = "SleepChild"
          PROVE  /\ \E c \in Slots : IsChild(c, s)'
                 /\ slots'[s].pid # 1 => ZombieChildren(s)' = {}
      <4>1. s # current /\ s # p /\ slots[s].state = "SleepChild" /\ slots'[s].pid = slots[s].pid
        BY <1>3, <1>7, <2>1, <3>1
      <4>2. \A c \in Slots : IsChild(c, s) => IsChild(c, s)'
        BY <1>3, <2>1, <4>1 DEF IsChild, Occupied, p
      <4>3. s # 0 => ZombieChildren(s)' \subseteq ZombieChildren(s)
        BY <1>3, <2>1, <4>1 DEF ZombieChildren, IsChild, Occupied
      <4>4. s = 0 => slots[s].pid = 1
        BY DEF IInv, PidInv
      <4> QED
        BY <4>1, <4>2, <4>3, <4>4 DEF IInv, WaiterHasChild
    <3> QED
      BY <3>1 DEF WaiterHasChild
  <2>5. TypeOK' /\ HartInv'
    BY <1>2, <1>3, <2>1 DEF IInv, TypeOK, HartInv, InUser, GiveUpHart
  <2>6. CurrentIsRunning'
    BY <1>2, <1>3, <2>1, SlotFacts DEF IInv, CurrentIsRunning, GiveUpHart, InUser
  <2>7. SleepersAwaitResult'
    BY <1>3, <2>1 DEF IInv, SleepersAwaitResult, Occupied, Asleep
  <2>8. SleeperLeavesRoom'
    BY <1>2, <1>3, <2>1 DEF IInv, SleeperLeavesRoom, ConsoleSleepers
  <2> QED
    BY <2>2, <2>3, <2>4, <2>5, <2>6, <2>7, <2>8 DEF IInv
<1>8. CASE tbl[p].state = "SleepChild"
  <2> DEFINE done == WaitDone(tbl[p], code)
  <2>1. /\ done \in Process /\ done.state = "Ready"
        /\ done.pid = tbl[p].pid /\ done.parent = tbl[p].parent
    <3>1. tbl[p] \in Process
      BY <1>3, <1>4
    <3> QED
      BY <3>1, WaitDoneFacts
  <2>2. /\ slots' = [tbl EXCEPT ![p] = done, ![current] = NoProcess]
        /\ a0' = [a0 EXCEPT ![p] = slots[current].pid]
    BY <1>3, <1>5, <1>8 DEF complete_wait
  <2> HIDE DEF done
  <2>3. /\ slots'[p] = done /\ slots'[current] = NoProcess
        /\ \A s \in Slots : s # p /\ s # current => slots'[s] = tbl[s]
        /\ slots' \in [Slots -> Process]
    BY <1>3, <1>4, <2>1, <2>2, NoProcessFacts
  <2>4. \A s \in Slots : s # current =>
            /\ slots'[s].pid = slots[s].pid
            /\ slots'[s].parent = tbl[s].parent
            /\ slots'[s].state = IF s = p THEN "Ready" ELSE slots[s].state
    BY <1>3, <1>4, <2>1, <2>3
  <2>5. slots[p].state = "SleepChild"
    BY <1>3, <1>4, <1>8
  <2>6. PidInv'
    BY <1>2, <1>3, <1>4, <2>3, <2>4, NoProcessFacts, SlotFacts DEF IInv, PidInv, Occupied
  <2>7. ParentAlive'
    <3> SUFFICES ASSUME NEW s \in Slots, Occupied(s)', slots'[s].pid # 1
                 PROVE  /\ slots'[s].parent \in Slots
                        /\ slots'[slots'[s].parent].state \notin {"None", "Zombie"}
                        /\ slots'[slots'[s].parent].pid < slots'[s].pid
      BY DEF ParentAlive
    <3>1. s # current /\ slots[s].state # "None" /\ slots[s].pid # 1
      BY <2>3, <2>4, <2>5, NoProcessFacts DEF Occupied
    <3> QED
      BY <1>6, <2>4, <3>1
  <2>8. WaiterHasChild'
    <3>1. ASSUME NEW s \in Slots, slots'[s].state = "SleepChild"
          PROVE  /\ \E c \in Slots : IsChild(c, s)'
                 /\ slots'[s].pid # 1 => ZombieChildren(s)' = {}
      <4>1. s # current /\ s # p /\ slots[s].state = "SleepChild" /\ slots'[s].pid = slots[s].pid
        BY <2>3, <2>4, <3>1, NoProcessFacts
      <4>2. \A c \in Slots : IsChild(c, s) => IsChild(c, s)'
        BY <1>3, <2>4, <2>5, <4>1 DEF IsChild, Occupied, p
      <4>3. s # 0 => ZombieChildren(s)' \subseteq ZombieChildren(s)
        BY <1>3, <2>3, <2>4, <4>1, NoProcessFacts DEF ZombieChildren, IsChild, Occupied
      <4>4. s = 0 => slots[s].pid = 1
        BY DEF IInv, PidInv
      <4> QED
        BY <4>1, <4>2, <4>3, <4>4 DEF IInv, WaiterHasChild
    <3> QED
      BY <3>1 DEF WaiterHasChild
  <2>9. slots[current].pid \in Int \ {NoResult}
    BY <1>3 DEF IInv, TypeOK, Process, NoResult
  <2>10. TypeOK' /\ HartInv'
    BY <1>2, <1>4, <2>2, <2>3, <2>9 DEF IInv, TypeOK, HartInv, InUser, GiveUpHart
  <2>11. CurrentIsRunning'
    BY <1>2, <1>3, <2>3, <2>4, NoProcessFacts, SlotFacts
    DEF IInv, CurrentIsRunning, GiveUpHart, InUser
  <2>12. SleepersAwaitResult'
    BY <1>3, <1>4, <2>2, <2>3, <2>4, <2>9, NoProcessFacts
    DEF IInv, TypeOK, SleepersAwaitResult, Occupied, Asleep
  <2>13. SleeperLeavesRoom'
    BY <1>2, <1>3, <2>1, <2>3, NoProcessFacts
    DEF IInv, SleeperLeavesRoom, ConsoleSleepers
  <2> QED
    BY <2>6, <2>7, <2>8, <2>10, <2>11, <2>12, <2>13 DEF IInv
<1> QED
  BY <1>7, <1>8
-----------------------------------------------------------------------------
\* kinit establishes the invariant.
LEMMA InitInv == Init => IInv
<1> SUFFICES ASSUME Init PROVE IInv
  OBVIOUS
<1> DEFINE init == NewProcess(1, NO_PROC, 0)
<1>1. init \in Process /\ init.pid = 1 /\ init.state = "Ready" /\ init.parent = NO_PROC
  BY NewProcessFacts
<1>2. /\ slots \in [Slots -> Process]
      /\ slots[0] = init /\ \A s \in Slots : s # 0 => slots[s] = NoProcess
  BY <1>1, SlotFacts, NoProcessFacts DEF Init
<1> HIDE DEF init
<1>3. TypeOK /\ HartInv
  BY <1>2, SlotFacts, ConstantsAssumption DEF ConstantsAssumption, Init, TypeOK, HartInv, InUser
<1>4. PidInv /\ ParentAlive
  BY <1>1, <1>2, SlotFacts, NoProcessFacts DEF Init, PidInv, ParentAlive, Occupied
<1>5. CurrentIsRunning
  BY <1>1, <1>2, SlotFacts, NoProcessFacts DEF Init, CurrentIsRunning, InUser
<1>6. SleepersAwaitResult
  BY <1>1, <1>2, NoProcessFacts DEF Init, SleepersAwaitResult, Occupied, Asleep, NoResult
<1>7. WaiterHasChild /\ SleeperLeavesRoom
  BY <1>1, <1>2, NoProcessFacts
  DEF WaiterHasChild, SleeperLeavesRoom, ConsoleSleepers
<1> QED
  BY <1>3, <1>4, <1>5, <1>6, <1>7 DEF IInv

\* Every step keeps the invariant, one case per action.
LEMMA StepInv == IInv /\ [Next]_vars => IInv'
<1> SUFFICES ASSUME IInv, [Next]_vars PROVE IInv'
  OBVIOUS
<1>1. CASE UNCHANGED vars
  BY <1>1, IdleInv
<1>2. CASE Kernel
  BY <1>2, PickNextInv, IdleInv DEF Kernel
<1>3. CASE Timer
  BY <1>3, TimerPreemptInv, IdleInv DEF Timer
<1>4. CASE Exit \/ UserFault
  <2>1. \E code \in Int : exit_current(code)
    BY <1>4, ConstantsAssumption DEF ConstantsAssumption, Exit, UserFault
  <2> QED
    BY <2>1, ExitInv
<1>5. CASE User /\ ~(Exit \/ UserFault)
  BY <1>5, ForkOkInv, ForkFailsInv, ExecOkInv, OtherSyscallInv, IdleInv, Wait4Inv,
     ReadBufferedInv, BlockOnConsoleInv
  DEF User
<1>6. CASE UartInterrupt
  BY <1>6, UartInterruptInv
<1>7. CASE Halted
  BY <1>7, IdleInv
<1> QED
  BY <1>1, <1>2, <1>3, <1>4, <1>5, <1>6, <1>7 DEF Next, User

\* The inductive invariant holds in every reachable state.
THEOREM Invariance == Spec => []IInv
BY InitInv, StepInv, PTL DEF Spec

\* Every variable keeps its type (ProcTable, CURRENT, TRAPFRAMES, RX_BUF).
THEOREM TypeCorrect == Spec => []TypeOK
<1>1. IInv => TypeOK
  BY DEF IInv
<1> QED
  BY Invariance, <1>1, PTL

\* Parent slot indices never go stale, for any table size (exit_current,
\* complete_wait, fork_current).
THEOREM ParentSafety == Spec => []ParentAlive
<1>1. IInv => ParentAlive
  BY DEF IInv
<1> QED
  BY Invariance, <1>1, PTL

\* CURRENT names the only Running process, exactly in user mode.
THEOREM OneRunning == Spec => []CurrentIsRunning
<1>1. IInv => CurrentIsRunning
  BY DEF IInv
<1> QED
  BY Invariance, <1>1, PTL

\* A blocked call has no result and every other process has one: wakers store
\* the result before they make the sleeper runnable.
THEOREM ResultBeforeWake == Spec => []SleepersAwaitResult
<1>1. IInv => SleepersAwaitResult
  BY DEF IInv
<1> QED
  BY Invariance, <1>1, PTL

\* A process blocked in wait4 has a child that can end its wait.
THEOREM WaitCanEnd == Spec => []WaiterHasChild
<1>1. IInv => WaiterHasChild
  BY DEF IInv
<1> QED
  BY Invariance, <1>1, PTL

\* A reader blocked in read(0) never faces a full ring, for any capacity, so
\* the next byte wakes somebody.
THEOREM ReaderWakeable == Spec => []SleeperLeavesRoom
<1>1. IInv => SleeperLeavesRoom
  BY DEF IInv
<1> QED
  BY Invariance, <1>1, PTL
-----------------------------------------------------------------------------
(* Action properties. *)

\* exit() writes the frame of a parent that sleeps in wait4, and no other.
LEMMA ExitFrames ==
  ASSUME IInv, NEW code \in Int, exit_current(code), NEW s \in Slots, a0'[s] # a0[s]
  PROVE  Asleep(s)
<1>1. PICK i \in Slots \cup {NO_PROC} :
        /\ IsInitSlot(i)
        /\ LET tbl == Exited(code, i)
               parent == slots[current].parent
           IN  IF parent # NO_PROC /\ tbl[parent].state = "SleepChild"
               THEN complete_wait(tbl, parent, current)
               ELSE slots' = tbl /\ UNCHANGED a0
  BY DEF exit_current
<1> DEFINE tbl == Exited(code, i)
           p == slots[current].parent
<1>2. /\ current \in Slots /\ tbl[current].state = "Zombie"
      /\ \A t \in Slots : t # current => tbl[t].state = slots[t].state
  BY <1>1, ExitedFacts DEF exit_current
<1>3. p \in Slots \cup {NO_PROC}
  BY <1>2 DEF IInv, TypeOK, Process
<1> HIDE DEF tbl
<1>4. /\ p # NO_PROC /\ tbl[p].state = "SleepChild"
      /\ a0' = [a0 EXCEPT ![p] = tbl[current].pid]
  BY <1>1 DEF complete_wait, tbl
<1>5. s = p
  BY <1>4 DEF IInv, TypeOK
<1> QED
  BY <1>2, <1>3, <1>4, <1>5 DEF Asleep

\* "A frame is only touched by its own trap path or by a syscall completing on
\* behalf of a sleeping process" (TRAPFRAMES), for any number of processes; fork
\* also prepares the frame of a free slot.
THEOREM FramesOwned == Spec => FrameOwnership
<1>1. ASSUME IInv, [Next]_vars, NEW s \in Slots, a0'[s] # a0[s]
      PROVE  s = current \/ Asleep(s) \/ ~Occupied(s)
  <2> USE <1>1
  <2>1. a0 \in [Slots -> Int] /\ current \in Slots \cup {NO_PROC}
    BY DEF IInv, TypeOK
  <2>2. CASE UNCHANGED vars \/ Kernel \/ Timer \/ Halted
    BY <2>2 DEF vars, Kernel, Timer, Halted, PickNext, NothingRunnable, Wfi, TimerPreempt, TimerIdle
  <2>3. CASE Exit \/ UserFault
    <3>1. \E code \in Int : exit_current(code)
      BY <2>3, ConstantsAssumption DEF ConstantsAssumption, Exit, UserFault
    <3> QED
      BY <3>1, ExitFrames
  <2>4. CASE ForkOk
    BY <2>1, <2>4 DEF ForkOk, IsFirst, FreeSlots
  <2>5. CASE ForkFails \/ ExecOk \/ OtherSyscall \/ ReadBuffered \/ block_on_console
    BY <2>1, <2>5 DEF ForkFails, ExecOk, OtherSyscall, ReadBuffered, block_on_console, Return
  <2>6. CASE InitExits \/ Reboot
    BY <2>6 DEF InitExits, Reboot
  <2>7. CASE Wait4
    BY <2>1, <2>7 DEF Wait4, wait_current, complete_wait
  <2>8. CASE UartInterrupt
    BY <2>1, <2>8 DEF UartInterrupt, handle_interrupt, wake_console_reader, IsFirst,
                      ConsoleSleepers, Asleep
  <2> QED
    BY <2>2, <2>3, <2>4, <2>5, <2>6, <2>7, <2>8 DEF Next, User
<1>2. IInv /\ [Next]_vars =>
        [\A s \in Slots : a0'[s] # a0[s] => s = current \/ Asleep(s) \/ ~Occupied(s)]_vars
  BY <1>1
<1> QED
  BY <1>2, Invariance, PTL DEF Spec, FrameOwnership

\* The codes processes exit with, -1 after a fault.
Codes == ExitCodes \cup {-1}

\* A zombie has exited with one of them.
CodeInv == \A s \in Slots : slots[s].state = "Zombie" => slots[s].exit_code \in Codes

\* wait4 frees the slot of a zombie child and returns its pid and code, or frees
\* nothing.
LEMMA WaitOutcome ==
  ASSUME IInv, Wait4
  PROVE  /\ current \in Slots
         /\ \/ \E c \in ZombieChildren(current) :
                /\ slots'[current].state = "Ready" /\ a0'[current] = slots[c].pid
                /\ slots'[current].wait_status_uva = "mapped"
                    => slots'[current].wstatus = WaitStatus(slots[c].exit_code)
                /\ \A s \in Slots \ {current} : slots'[s] = IF s = c THEN NoProcess ELSE slots[s]
            \/ /\ slots'[current].state \in {"SleepChild", "Ready"}
               /\ \A s \in Slots \ {current} : slots'[s] = slots[s]
<1>1. PICK uva \in UserPtr : wait_current(uva)
  BY ConstantsAssumption DEF ConstantsAssumption, UserPtr, Wait4
<1>2. /\ current \in Slots /\ slots \in [Slots -> Process] /\ a0 \in [Slots -> Int]
      /\ slots[current].state = "Running"
  BY DEF Wait4, IInv, TypeOK, HartInv, CurrentIsRunning, InUser
<1> DEFINE me == [slots[current] EXCEPT !.wait_status_uva = uva]
<1>3. me \in Process
  BY <1>2 DEF Process
<1>4. ASSUME NEW c \in ZombieChildren(current),
             complete_wait([slots EXCEPT ![current] = me], current, c)
      PROVE  /\ slots'[current].state = "Ready" /\ a0'[current] = slots[c].pid
             /\ slots'[current].wait_status_uva = "mapped"
                  => slots'[current].wstatus = WaitStatus(slots[c].exit_code)
             /\ \A s \in Slots \ {current} : slots'[s] = IF s = c THEN NoProcess ELSE slots[s]
  <2> DEFINE done == WaitDone(me, slots[c].exit_code)
  <2>1. c \in Slots /\ c # current /\ slots[c].exit_code \in Int
    BY <1>2 DEF ZombieChildren, Process
  <2>2. /\ done.state = "Ready" /\ done.wait_status_uva = me.wait_status_uva
        /\ done.wstatus = IF me.wait_status_uva = "mapped"
                          THEN WaitStatus(slots[c].exit_code) ELSE me.wstatus
    BY <1>3, <2>1, WaitDoneFacts
  <2> HIDE DEF me
  <2>3. /\ slots' = [[slots EXCEPT ![current] = me] EXCEPT ![current] = done, ![c] = NoProcess]
        /\ a0' = [a0 EXCEPT ![current] = slots[c].pid]
    BY <1>2, <1>4, <2>1 DEF complete_wait
  <2> HIDE DEF done
  <2> QED
    BY <1>2, <2>1, <2>2, <2>3
<1>5. ASSUME NEW st \in {"SleepChild", "Ready"},
             slots' = [slots EXCEPT ![current] = [me EXCEPT !.state = st]]
      PROVE  /\ slots'[current].state \in {"SleepChild", "Ready"}
             /\ \A s \in Slots \ {current} : slots'[s] = slots[s]
  <2>1. [me EXCEPT !.state = st].state = st
    BY <1>3 DEF Process
  <2> HIDE DEF me
  <2> QED
    BY <1>2, <1>5, <2>1
<1> HIDE DEF me
<1> QED
  BY <1>1, <1>2, <1>4, <1>5 DEF wait_current, IsFirst, me

\* exit() hands the slot to a parent that waits for it, with pid and code, or
\* leaves a zombie with that code.
LEMMA ExitOutcome ==
  ASSUME IInv, NEW code \in Int, exit_current(code)
  PROVE  LET p == slots[current].parent
         IN  /\ current \in Slots /\ slots[current].state = "Running"
             /\ \/ /\ p \in Slots \ {current}
                   /\ slots'[p].state = "Ready" /\ a0'[p] = slots[current].pid
                   /\ slots'[p].wait_status_uva = "mapped" => slots'[p].wstatus = WaitStatus(code)
                   /\ slots'[current] = NoProcess
                   /\ \A s \in Slots \ {p, current} :
                        slots'[s].state = slots[s].state /\ slots'[s].exit_code = slots[s].exit_code
                \/ /\ slots'[current].state = "Zombie" /\ slots'[current].exit_code = code
                   /\ \A s \in Slots \ {current} :
                        slots'[s].state = slots[s].state /\ slots'[s].exit_code = slots[s].exit_code
<1>1. PICK i \in Slots \cup {NO_PROC} :
        /\ IsInitSlot(i)
        /\ LET tbl == Exited(code, i)
               parent == slots[current].parent
           IN  IF parent # NO_PROC /\ tbl[parent].state = "SleepChild"
               THEN complete_wait(tbl, parent, current)
               ELSE slots' = tbl /\ UNCHANGED a0
  BY DEF exit_current
<1> DEFINE tbl == Exited(code, i)
           p == slots[current].parent
<1>2. /\ current \in Slots /\ slots[current].state = "Running" /\ tbl \in [Slots -> Process]
      /\ tbl[current].state = "Zombie" /\ tbl[current].exit_code = code
      /\ tbl[current].pid = slots[current].pid
      /\ \A s \in Slots : s # current =>
            tbl[s].state = slots[s].state /\ tbl[s].exit_code = slots[s].exit_code
  BY <1>1, ExitedFacts DEF exit_current
<1>3. p \in Slots \cup {NO_PROC} /\ a0 \in [Slots -> Int]
  BY <1>2 DEF IInv, TypeOK, Process
<1> HIDE DEF tbl
<1>4. CASE p # NO_PROC /\ tbl[p].state = "SleepChild"
  <2> DEFINE done == WaitDone(tbl[p], code)
  <2>1. p \in Slots \ {current}
    BY <1>2, <1>3, <1>4
  <2>2. /\ done.state = "Ready" /\ done.wait_status_uva = tbl[p].wait_status_uva
        /\ done.wstatus = IF tbl[p].wait_status_uva = "mapped"
                          THEN WaitStatus(code) ELSE tbl[p].wstatus
    BY <1>2, <2>1, WaitDoneFacts
  <2>3. /\ slots' = [tbl EXCEPT ![p] = done, ![current] = NoProcess]
        /\ a0' = [a0 EXCEPT ![p] = slots[current].pid]
    BY <1>1, <1>2, <1>4, <2>1 DEF complete_wait, tbl
  <2> HIDE DEF done
  <2> QED
    BY <1>2, <1>3, <2>1, <2>2, <2>3
<1>5. CASE ~(p # NO_PROC /\ tbl[p].state = "SleepChild")
  <2>1. slots' = tbl
    BY <1>1, <1>5 DEF tbl
  <2> QED
    BY <1>2, <2>1
<1> QED
  BY <1>4, <1>5

\* Every other step frees no slot, makes no zombie and keeps the codes of those
\* there are.
LEMMA OtherSteps ==
  ASSUME IInv, [Next]_vars, ~(Exit \/ UserFault \/ Wait4), NEW s \in Slots
  PROVE  /\ slots'[s].state = "Zombie" =>
                slots[s].state = "Zombie" /\ slots'[s].exit_code = slots[s].exit_code
         /\ Occupied(s) => Occupied(s)'
<1>1. slots \in [Slots -> Process] /\ current \in Slots \cup {NO_PROC}
  BY DEF IInv, TypeOK
<1>2. InUser => current \in Slots /\ slots[current].state = "Running"
  BY DEF IInv, HartInv, CurrentIsRunning, InUser
<1>3. CASE UNCHANGED slots
  BY <1>3 DEF Occupied
<1>4. CASE PickNext
  BY <1>1, <1>4 DEF PickNext, ReadySlots, Occupied
<1>5. CASE TimerPreempt
  BY <1>1, <1>2, <1>5 DEF TimerPreempt, Occupied
<1>6. CASE ForkOk
  BY <1>1, <1>6 DEF ForkOk, NewProcess, Occupied
<1>7. CASE ExecOk
  BY <1>1, <1>2, <1>7 DEF ExecOk, Occupied
<1>8. CASE block_on_console
  <2>1. PICK len \in ReadLens, uva \in ReadPtrs :
            slots' = [slots EXCEPT ![current] = BlockedReader(slots[current], uva, len)]
    BY <1>8 DEF block_on_console
  <2>2. len \in Nat /\ uva \in UserPtr /\ current \in Slots
    BY <1>2, <1>8, ConstantsAssumption DEF ConstantsAssumption, UserPtr, block_on_console
  <2>3. BlockedReader(slots[current], uva, len).state = "SleepConsole"
    BY <1>1, <2>2, BlockedReaderFacts
  <2> QED
    BY <1>1, <2>1, <2>2, <2>3 DEF Occupied
<1>9. CASE UartInterrupt
  <2>1. \/ UNCHANGED slots
        \/ \E x \in Slots : slots' = [slots EXCEPT ![x].state = "Ready"] /\ Asleep(x)
    BY <1>9 DEF UartInterrupt, handle_interrupt, wake_console_reader, IsFirst,
                ConsoleSleepers, Asleep
  <2>2. ASSUME NEW x \in Slots, slots' = [slots EXCEPT ![x].state = "Ready"], Asleep(x)
        PROVE  slots'[s].state = IF s = x THEN "Ready" ELSE slots[s].state
    BY <1>1, <2>2 DEF Process
  <2>3. ASSUME NEW x \in Slots, slots' = [slots EXCEPT ![x].state = "Ready"], Asleep(x), s # x
        PROVE  slots'[s] = slots[s]
    BY <1>1, <2>3
  <2> QED
    BY <1>3, <2>1, <2>2, <2>3 DEF Occupied
<1> QED
  BY <1>3, <1>4, <1>5, <1>6, <1>7, <1>8, <1>9
  DEF Next, User, Kernel, Timer, Halted, vars, NothingRunnable, Wfi, TimerIdle, ForkFails,
      OtherSyscall, InitExits, Reboot, ReadBuffered

\* exit() and the kill after a fault exit with a code of Codes.
LEMMA ExitCodeKnown ==
  ASSUME Exit \/ UserFault
  PROVE  \E code \in Codes : code \in Int /\ exit_current(code)
BY ConstantsAssumption DEF ConstantsAssumption, Exit, UserFault, Codes

\* A zombie's code is one some process exited with.
LEMMA CodeStep == IInv /\ CodeInv /\ [Next]_vars => CodeInv'
<1> SUFFICES ASSUME IInv, CodeInv, [Next]_vars PROVE CodeInv'
  OBVIOUS
<1>1. CASE Exit \/ UserFault
  <2>1. PICK code \in Codes : code \in Int /\ exit_current(code)
    BY <1>1, ExitCodeKnown
  <2> QED
    BY <2>1, ExitOutcome DEF CodeInv, NoProcess
<1>2. CASE Wait4
  BY <1>2, WaitOutcome DEF CodeInv, NoProcess
<1>3. CASE ~(Exit \/ UserFault \/ Wait4)
  BY <1>3, OtherSteps DEF CodeInv
<1> QED
  BY <1>1, <1>2, <1>3

\* No exit is lost and none is reported twice, for any table size: a slot is
\* freed only by handing its pid and code to the parent (complete_wait).
THEOREM ExitsDelivered == Spec => ReapDelivers
<1> DEFINE Delivered ==
      \A c \in Slots : Occupied(c) /\ ~Occupied(c)' =>
        LET p == slots[c].parent
        IN  /\ slots'[p].state = "Ready"
            /\ a0'[p] = slots[c].pid
            /\ slots'[p].wait_status_uva = "mapped" =>
                slots'[p].wstatus \in {WaitStatus(code) : code \in ExitCodes \cup {-1}}
            /\ slots[c].state = "Zombie" /\ slots'[p].wait_status_uva = "mapped" =>
                slots'[p].wstatus = WaitStatus(slots[c].exit_code)
<1>1. Init => CodeInv
  BY DEF Init, CodeInv, NewProcess, NoProcess
<1>2. IInv /\ CodeInv /\ [Next]_vars => [Delivered]_vars
  <2> SUFFICES ASSUME IInv, CodeInv, [Next]_vars, NEW c \in Slots, Occupied(c), ~Occupied(c)'
               PROVE  LET p == slots[c].parent
                      IN  /\ slots'[p].state = "Ready"
                          /\ a0'[p] = slots[c].pid
                          /\ slots'[p].wait_status_uva = "mapped" =>
                               slots'[p].wstatus \in {WaitStatus(code) : code \in Codes}
                          /\ slots[c].state = "Zombie" /\ slots'[p].wait_status_uva = "mapped" =>
                               slots'[p].wstatus = WaitStatus(slots[c].exit_code)
    BY DEF Codes
  <2>1. CASE Exit \/ UserFault
    <3>1. PICK code \in Codes : code \in Int /\ exit_current(code)
      BY <2>1, ExitCodeKnown
    <3>2. c = current /\ slots[c].state = "Running"
      BY <3>1, ExitOutcome DEF Occupied
    <3> QED
      BY <3>1, <3>2, ExitOutcome DEF Occupied
  <2>2. CASE Wait4
    <3>1. PICK z \in ZombieChildren(current) :
            /\ slots'[current].state = "Ready" /\ a0'[current] = slots[z].pid
            /\ slots'[current].wait_status_uva = "mapped"
                => slots'[current].wstatus = WaitStatus(slots[z].exit_code)
            /\ \A s \in Slots \ {current} : slots'[s] = IF s = z THEN NoProcess ELSE slots[s]
      BY <2>2, WaitOutcome DEF Occupied
    <3>2. c = z
      BY <2>2, <3>1, WaitOutcome DEF Occupied
    <3>3. slots[c].state = "Zombie" /\ slots[c].parent = current
      BY <3>2 DEF ZombieChildren, IsChild
    <3> QED
      BY <3>1, <3>2, <3>3 DEF CodeInv
  <2>3. CASE ~(Exit \/ UserFault \/ Wait4)
    BY <2>3, OtherSteps
  <2> QED
    BY <2>1, <2>2, <2>3
<1> QED
  BY <1>1, <1>2, CodeStep, Invariance, PTL DEF Spec, ReapDelivers
-----------------------------------------------------------------------------
(* The table implements the pid tree. *)

\* The model hands out pids up to MaxPid, and init has no parent.
TreeInv == next_pid <= MaxPid + 1 /\ slots[0].parent = NO_PROC

\* The tree as one reads it off the slots: an occupied slot is a live process or
\* a zombie whose parent is the process in its parent slot.
TreeReads ==
    /\ \A s \in Slots : Occupied(s) =>
        /\ slots[s].pid \in Pids
        /\ StatusOf(slots[s].pid) = IF slots[s].state = "Zombie" THEN "zombie" ELSE "live"
        /\ ParentOf(slots[s].pid) = IF slots[s].parent = NO_PROC THEN 0
                                    ELSE slots[slots[s].parent].pid
    /\ \A n \in Pids : (\A s \in Slots : Occupied(s) => slots[s].pid # n) =>
        /\ StatusOf(n) = IF n < next_pid THEN "reaped" ELSE "unborn"
        /\ ParentOf(n) = 0

\* It can be read off because no two slots share a pid.
LEMMA TreeIsRead == IInv /\ TreeInv => TreeReads
<1> SUFFICES ASSUME IInv, TreeInv PROVE TreeReads
  OBVIOUS
<1>1. PidInv /\ next_pid \in Nat /\ MaxPid \in Nat
  BY ConstantsAssumption DEF ConstantsAssumption, IInv, TypeOK
<1>2. ASSUME NEW s \in Slots, Occupied(s)
      PROVE  /\ slots[s].pid \in Pids
             /\ StatusOf(slots[s].pid) = IF slots[s].state = "Zombie" THEN "zombie" ELSE "live"
             /\ ParentOf(slots[s].pid) = IF slots[s].parent = NO_PROC THEN 0
                                         ELSE slots[slots[s].parent].pid
  <2>1. slots[s].pid \in 1 .. next_pid - 1
    BY <1>1, <1>2 DEF PidInv
  <2>2. slots[s].pid \in Pids
    BY <1>1, <2>1 DEF Pids, TreeInv
  <2>3. SlotOf(slots[s].pid) = {s}
    BY <1>1, <1>2 DEF SlotOf, PidInv
  <2>4. /\ {slots[t].state : t \in SlotOf(slots[s].pid)} = {slots[s].state}
        /\ {slots[t].parent : t \in SlotOf(slots[s].pid)} = {slots[s].parent}
    BY <2>3
  <2>5. StatusOf(slots[s].pid) = IF slots[s].state = "Zombie" THEN "zombie" ELSE "live"
    BY <2>4 DEF StatusOf
  <2>6. ParentOf(slots[s].pid) = IF slots[s].parent = NO_PROC THEN 0
                                 ELSE slots[slots[s].parent].pid
    <3> DEFINE parents == {slots[t].parent : t \in SlotOf(slots[s].pid)} \ {NO_PROC}
    <3>1. parents = IF slots[s].parent = NO_PROC THEN {} ELSE {slots[s].parent}
      BY <2>4
    <3>2. \A x : (CHOOSE p \in {x} : TRUE) = x
      OBVIOUS
    <3>3. ParentOf(slots[s].pid) = IF parents = {} THEN 0
                                   ELSE slots[CHOOSE p \in parents : TRUE].pid
      BY DEF ParentOf
    <3> HIDE DEF parents
    <3> QED
      BY <3>1, <3>2, <3>3
  <2> QED
    BY <2>2, <2>5, <2>6
<1>3. ASSUME NEW n \in Pids, \A s \in Slots : Occupied(s) => slots[s].pid # n
      PROVE  /\ StatusOf(n) = IF n < next_pid THEN "reaped" ELSE "unborn"
             /\ ParentOf(n) = 0
  <2>1. n # 0
    BY DEF Pids
  <2>2. SlotOf(n) = {}
    BY <1>1, <1>3, <2>1 DEF SlotOf, PidInv
  <2> QED
    BY <2>2 DEF StatusOf, ParentOf
<1> QED
  BY <1>2, <1>3 DEF TreeReads

\* A step that keeps pids, parents, zombies and next_pid keeps the tree.
LEMMA TreeSame ==
  ASSUME TreeReads, TreeReads', UNCHANGED next_pid,
         \A s \in Slots : /\ slots'[s].pid = slots[s].pid
                          /\ slots'[s].parent = slots[s].parent
                          /\ Occupied(s)' <=> Occupied(s)
                          /\ slots'[s].state = "Zombie" <=> slots[s].state = "Zombie",
         slots \in [Slots -> Process]
  PROVE  UNCHANGED <<[n \in Pids |-> StatusOf(n)], [n \in Pids |-> ParentOf(n)]>>
<1>1. ASSUME NEW n \in Pids
      PROVE  StatusOf(n)' = StatusOf(n) /\ ParentOf(n)' = ParentOf(n)
  <2>1. CASE \E s \in Slots : Occupied(s) /\ slots[s].pid = n
    <3>1. PICK s \in Slots : Occupied(s) /\ slots[s].pid = n
      BY <2>1
    <3>2. /\ StatusOf(n) = IF slots[s].state = "Zombie" THEN "zombie" ELSE "live"
          /\ ParentOf(n) = IF slots[s].parent = NO_PROC THEN 0 ELSE slots[slots[s].parent].pid
      BY <3>1 DEF TreeReads
    <3>3. /\ StatusOf(n)' = IF slots'[s].state = "Zombie" THEN "zombie" ELSE "live"
          /\ ParentOf(n)' = IF slots'[s].parent = NO_PROC THEN 0
                            ELSE slots'[slots'[s].parent].pid
      BY <3>1 DEF TreeReads
    <3>4. slots[s].parent \in Slots \/ slots[s].parent = NO_PROC
      BY DEF Process
    <3> QED
      BY <3>2, <3>3, <3>4
  <2>2. CASE \A s \in Slots : Occupied(s) => slots[s].pid # n
    BY <2>2 DEF TreeReads
  <2> QED
    BY <2>1, <2>2
<1> QED
  BY <1>1

\* All steps but fork, exit and wait4.
Steady ==
    \/ Kernel \/ Timer \/ ForkFails \/ ExecOk \/ OtherSyscall \/ InitExits \/ Reboot
    \/ ReadBuffered \/ block_on_console \/ UartInterrupt \/ Halted \/ UNCHANGED vars

\* They keep pids, parents, zombies and next_pid.
LEMMA TreeKept ==
  ASSUME IInv, Steady
  PROVE  /\ UNCHANGED next_pid
         /\ \A s \in Slots : /\ slots'[s].pid = slots[s].pid
                             /\ slots'[s].parent = slots[s].parent
                             /\ Occupied(s)' <=> Occupied(s)
                             /\ slots'[s].state = "Zombie" <=> slots[s].state = "Zombie"
<1> DEFINE Kept == \A s \in Slots : /\ slots'[s].pid = slots[s].pid
                                    /\ slots'[s].parent = slots[s].parent
                                    /\ Occupied(s)' <=> Occupied(s)
                                    /\ slots'[s].state = "Zombie" <=> slots[s].state = "Zombie"
<1>1. slots \in [Slots -> Process] /\ current \in Slots \cup {NO_PROC}
  BY DEF IInv, TypeOK
<1>2. InUser => current \in Slots /\ slots[current].state = "Running"
  BY DEF IInv, HartInv, CurrentIsRunning, InUser
<1>3. UNCHANGED next_pid
  BY DEF Steady, Kernel, Timer, Halted, vars, PickNext, NothingRunnable, Wfi, TimerPreempt,
         TimerIdle, ForkFails, ExecOk, OtherSyscall, InitExits, Reboot, ReadBuffered,
         block_on_console, UartInterrupt
<1> SUFFICES Kept
  BY <1>3
<1>4. CASE UNCHANGED slots
  BY <1>4 DEF Occupied
<1>5. ASSUME NEW x \in Slots, NEW st \in {"Ready", "Running"},
             slots' = [slots EXCEPT ![x].state = st],
             slots[x].state \notin {"None", "Zombie"}
      PROVE  Kept
  BY <1>1, <1>5 DEF Occupied, Process
<1>6. CASE PickNext
  BY <1>5, <1>6 DEF PickNext, ReadySlots
<1>7. CASE TimerPreempt
  <2>1. current \in Slots /\ slots[current].state = "Running"
    BY <1>2, <1>7 DEF TimerPreempt
  <2>2. slots' = [slots EXCEPT ![current].state = "Ready"]
    BY <1>1, <1>7, <2>1 DEF TimerPreempt
  <2> QED
    BY <1>5, <2>1, <2>2
<1>8. CASE ExecOk
  BY <1>1, <1>2, <1>8 DEF ExecOk, Occupied, Process
<1>9. CASE block_on_console
  <2>1. PICK len \in ReadLens, uva \in ReadPtrs :
            slots' = [slots EXCEPT ![current] = BlockedReader(slots[current], uva, len)]
    BY <1>9 DEF block_on_console
  <2>2. /\ len \in Nat /\ uva \in UserPtr
        /\ current \in Slots /\ slots[current].state = "Running"
    BY <1>2, <1>9, ConstantsAssumption DEF ConstantsAssumption, UserPtr, block_on_console
  <2> DEFINE q == BlockedReader(slots[current], uva, len)
  <2>3. /\ q.state = "SleepConsole"
        /\ q.pid = slots[current].pid /\ q.parent = slots[current].parent
    BY <1>1, <2>2, BlockedReaderFacts
  <2>4. slots' = [slots EXCEPT ![current] = q]
    BY <2>1
  <2> HIDE DEF q
  <2> QED
    BY <1>1, <2>2, <2>3, <2>4 DEF Occupied
<1>10. CASE UartInterrupt
  <2>1. \/ UNCHANGED slots
        \/ \E x \in Slots : slots' = [slots EXCEPT ![x].state = "Ready"] /\ Asleep(x)
    BY <1>10 DEF UartInterrupt, handle_interrupt, wake_console_reader, IsFirst,
                 ConsoleSleepers, Asleep
  <2> QED
    BY <1>4, <1>5, <2>1 DEF Asleep
<1> QED
  BY <1>4, <1>6, <1>7, <1>8, <1>9, <1>10
  DEF Steady, Kernel, Timer, Halted, vars, NothingRunnable, Wfi, TimerIdle, ForkFails,
      OtherSyscall, InitExits, Reboot, ReadBuffered

\* exit() in the table: orphans go to slot 0; the slot becomes a zombie or is
\* freed; pids, other parents and other zombies stay.
LEMMA ExitSlots ==
  ASSUME IInv, NEW code \in Int, exit_current(code)
  PROVE  /\ current \in Slots /\ slots[current].state = "Running" /\ slots[current].pid # 1
         /\ \/ slots'[current] = NoProcess
            \/ /\ slots'[current].state = "Zombie" /\ slots'[current].pid = slots[current].pid
               /\ slots'[current].parent = slots[current].parent
         /\ \A s \in Slots \ {current} :
                /\ slots'[s].pid = slots[s].pid
                /\ slots'[s].parent = IF IsChild(s, current) THEN 0 ELSE slots[s].parent
                /\ Occupied(s)' <=> Occupied(s)
                /\ slots'[s].state = "Zombie" <=> slots[s].state = "Zombie"
         /\ UNCHANGED next_pid
<1>1. PICK i \in Slots \cup {NO_PROC} :
        /\ IsInitSlot(i)
        /\ LET tbl == Exited(code, i)
               parent == slots[current].parent
           IN  IF parent # NO_PROC /\ tbl[parent].state = "SleepChild"
               THEN complete_wait(tbl, parent, current)
               ELSE slots' = tbl /\ UNCHANGED a0
  BY DEF exit_current
<1> DEFINE tbl == Exited(code, i)
           p == slots[current].parent
<1>0. InUser /\ slots[current].pid # 1 /\ UNCHANGED next_pid /\ IsInitSlot(i)
  BY <1>1 DEF exit_current
<1>2. /\ current \in Slots /\ slots[current].state = "Running" /\ tbl \in [Slots -> Process]
      /\ tbl[current].state = "Zombie" /\ tbl[current].exit_code = code
      /\ tbl[current].pid = slots[current].pid /\ tbl[current].parent = slots[current].parent
      /\ \A s \in Slots : s # current =>
            /\ tbl[s].pid = slots[s].pid /\ tbl[s].state = slots[s].state
            /\ tbl[s].parent = IF IsChild(s, current) THEN 0 ELSE slots[s].parent
  BY <1>0, ExitedFacts
<1>3. p \in Slots \cup {NO_PROC}
  BY <1>2 DEF IInv, TypeOK, Process
<1> HIDE DEF tbl
<1>4. CASE p # NO_PROC /\ tbl[p].state = "SleepChild"
  <2> DEFINE done == WaitDone(tbl[p], code)
  <2>1. p \in Slots \ {current}
    BY <1>2, <1>3, <1>4
  <2>2. done.state = "Ready" /\ done.pid = tbl[p].pid /\ done.parent = tbl[p].parent
    BY <1>2, <2>1, WaitDoneFacts
  <2>3. slots' = [tbl EXCEPT ![p] = done, ![current] = NoProcess]
    BY <1>1, <1>2, <1>4, <2>1 DEF complete_wait, tbl
  <2> HIDE DEF done
  <2>4. /\ slots'[current] = NoProcess /\ slots'[p] = done
        /\ \A s \in Slots \ {p, current} : slots'[s] = tbl[s]
    BY <1>2, <2>1, <2>3
  <2>5. \A s \in Slots \ {current} :
            /\ slots'[s].pid = tbl[s].pid /\ slots'[s].parent = tbl[s].parent
            /\ slots'[s].state = IF s = p THEN "Ready" ELSE tbl[s].state
    BY <2>2, <2>4
  <2> QED
    BY <1>0, <1>2, <1>4, <2>1, <2>4, <2>5 DEF Occupied
<1>5. CASE ~(p # NO_PROC /\ tbl[p].state = "SleepChild")
  <2>1. slots' = tbl
    BY <1>1, <1>5 DEF tbl
  <2> QED
    BY <1>0, <1>2, <2>1 DEF Occupied
<1> QED
  BY <1>4, <1>5

\* fork adds the leaf next_pid below the caller.
LEMMA ForkInTree ==
  ASSUME IInv, TreeInv, TreeReads, TreeReads', ForkOk
  PROVE  Tree!Next
<1> DEFINE status == [n \in Pids |-> StatusOf(n)]
           parent == [n \in Pids |-> ParentOf(n)]
           new == NewProcess(next_pid, current, slots[current].wstatus)
<1>1. /\ current \in Slots /\ slots[current].state = "Running" /\ slots[current] \in Process
      /\ slots \in [Slots -> Process] /\ PidInv /\ next_pid \in Nat \ {0}
  BY DEF IInv, TypeOK, HartInv, CurrentIsRunning, ForkOk, InUser
<1>2. PICK x \in FreeSlots : slots' = [slots EXCEPT ![x] = new]
  BY Zenon DEF ForkOk, IsFirst
<1>3. x \in Slots /\ slots[x].state = "None" /\ x # current
  BY <1>1 DEF FreeSlots, Occupied
<1>4. new.pid = next_pid /\ new.state = "Ready" /\ new.parent = current
  BY DEF NewProcess
<1>5. next_pid' = next_pid + 1 /\ next_pid \in Pids /\ current # NO_PROC
  BY <1>1, SlotFacts, ConstantsAssumption DEF ConstantsAssumption, ForkOk, Pids
<1>c. PICK c \in Pids : c = next_pid
  BY <1>5
<1>p. PICK p : p = slots[current].pid
  OBVIOUS
<1> HIDE DEF new
<1>6. slots'[x] = new /\ \A s \in Slots \ {x} : slots'[s] = slots[s]
  BY <1>1, <1>2, <1>3
<1>7. \A s \in Slots : Occupied(s) => slots[s].pid # next_pid /\ s # x
  BY <1>1, <1>3 DEF PidInv, Occupied
<1>8. StatusOf(c) = "unborn"
  BY <1>1, <1>c, <1>7 DEF TreeReads
<1>9. \A d \in Pids : d < c => StatusOf(d) # "unborn"
  BY <1>c DEF TreeReads
<1>10. p \in Pids /\ StatusOf(p) = "live"
  BY <1>1, <1>p DEF TreeReads, Occupied
<1>11. StatusOf(c)' = "live" /\ ParentOf(c)' = p
  <2>1. /\ Occupied(x)' /\ slots'[x].pid = c /\ slots'[x].state # "Zombie"
        /\ slots'[x].parent = current
    BY <1>4, <1>6, <1>c DEF Occupied
  <2>2. slots'[current].pid = p
    BY <1>1, <1>3, <1>6, <1>p
  <2> QED
    BY <1>3, <1>5, <2>1, <2>2 DEF TreeReads
<1>12. ASSUME NEW n \in Pids, n # c
       PROVE  StatusOf(n)' = StatusOf(n) /\ ParentOf(n)' = ParentOf(n)
  <2>1. CASE \E s \in Slots : Occupied(s) /\ slots[s].pid = n
    <3>1. PICK s \in Slots : Occupied(s) /\ slots[s].pid = n
      BY <2>1
    <3>2. slots'[s] = slots[s] /\ Occupied(s)'
      BY <1>6, <1>7, <3>1 DEF Occupied
    <3>3. /\ StatusOf(n) = IF slots[s].state = "Zombie" THEN "zombie" ELSE "live"
          /\ ParentOf(n) = IF slots[s].parent = NO_PROC THEN 0 ELSE slots[slots[s].parent].pid
      BY <3>1 DEF TreeReads
    <3>4. /\ StatusOf(n)' = IF slots'[s].state = "Zombie" THEN "zombie" ELSE "live"
          /\ ParentOf(n)' = IF slots'[s].parent = NO_PROC THEN 0
                            ELSE slots'[slots'[s].parent].pid
      BY <3>1, <3>2 DEF TreeReads
    <3>5. slots[s].parent # NO_PROC => slots'[slots[s].parent] = slots[slots[s].parent]
      <4>1. slots[s].pid # 1 => slots[s].parent \in Slots /\ Occupied(slots[s].parent)
        BY <3>1 DEF IInv, ParentAlive, Occupied
      <4>2. slots[s].pid = 1 => slots[s].parent = NO_PROC
        BY <1>1, <3>1, SlotFacts DEF PidInv, TreeInv
      <4> QED
        BY <1>6, <1>7, <4>1, <4>2
    <3> QED
      BY <3>2, <3>3, <3>4, <3>5
  <2>2. CASE \A s \in Slots : Occupied(s) => slots[s].pid # n
    <3>1. \A s \in Slots : Occupied(s)' => slots'[s].pid # n
      BY <1>4, <1>6, <1>12, <1>c, <2>2 DEF Occupied
    <3>2. n < next_pid <=> n < next_pid'
      BY <1>1, <1>5, <1>12, <1>c DEF Pids
    <3> QED
      BY <2>2, <3>1, <3>2 DEF TreeReads
  <2> QED
    BY <2>1, <2>2
<1>13. status' = [status EXCEPT ![c] = "live"]
  BY <1>11, <1>12
<1>14. parent' = [parent EXCEPT ![c] = p]
  BY <1>11, <1>12
<1>15. Tree!Fork(c)
  BY <1>8, <1>9, <1>10, <1>13, <1>14 DEF Tree!Fork
<1> QED
  BY <1>15 DEF Tree!Next

\* exit() gives the children to init; the process stays as a zombie or is reaped.
LEMMA ExitInTree ==
  ASSUME IInv, TreeInv, TreeReads, TreeReads', NEW code \in Int, exit_current(code)
  PROVE  Tree!Next
<1> DEFINE status == [n \in Pids |-> StatusOf(n)]
           parent == [n \in Pids |-> ParentOf(n)]
<1>1. /\ current \in Slots /\ slots[current].state = "Running" /\ slots[current].pid # 1
      /\ \/ slots'[current] = NoProcess
         \/ /\ slots'[current].state = "Zombie" /\ slots'[current].pid = slots[current].pid
            /\ slots'[current].parent = slots[current].parent
      /\ \A s \in Slots \ {current} :
            /\ slots'[s].pid = slots[s].pid
            /\ slots'[s].parent = IF IsChild(s, current) THEN 0 ELSE slots[s].parent
            /\ Occupied(s)' <=> Occupied(s)
            /\ slots'[s].state = "Zombie" <=> slots[s].state = "Zombie"
      /\ UNCHANGED next_pid
  BY ExitSlots
<1>2. /\ slots \in [Slots -> Process] /\ PidInv /\ ParentAlive /\ next_pid \in Nat
      /\ 0 \in Slots /\ NO_PROC \notin Slots /\ slots[0].pid = 1
  BY SlotFacts DEF IInv, TypeOK, PidInv
<1>3. PICK c \in Slots : c = current
  BY <1>1
<1>4. PICK e \in Pids : e = slots[c].pid
  BY <1>1, <1>3 DEF TreeReads, Occupied
<1>5. e # 1 /\ e < next_pid /\ e # 0 /\ StatusOf(e) = "live" /\ Occupied(c) /\ c # 0
  <2>1. Occupied(c) /\ slots[c].state # "Zombie" /\ e # 1 /\ c # 0
    BY <1>1, <1>2, <1>3, <1>4 DEF Occupied
  <2>2. e < next_pid /\ e # 0
    BY <1>2, <1>4, <2>1 DEF PidInv
  <2>3. StatusOf(e) = "live"
    BY <1>4, <2>1 DEF TreeReads
  <2> QED
    BY <2>1, <2>2, <2>3
<1>6. \A s \in Slots : slots[s].pid = e => s = c
  BY <1>2, <1>4, <1>5 DEF PidInv
<1>7. ASSUME NEW n \in Pids, n # e
      PROVE  /\ StatusOf(n)' = StatusOf(n)
             /\ ParentOf(n)' = IF ParentOf(n) = e THEN 1 ELSE ParentOf(n)
  <2>1. ASSUME NEW s \in Slots, Occupied(s), slots[s].pid = n
        PROVE  /\ StatusOf(n)' = StatusOf(n)
               /\ ParentOf(n)' = IF ParentOf(n) = e THEN 1 ELSE ParentOf(n)
    <3>1. s # c
      BY <1>4, <1>7, <2>1
    <3>2. /\ StatusOf(n) = IF slots[s].state = "Zombie" THEN "zombie" ELSE "live"
          /\ ParentOf(n) = IF slots[s].parent = NO_PROC THEN 0 ELSE slots[slots[s].parent].pid
      BY <2>1 DEF TreeReads
    <3>3. /\ StatusOf(n)' = IF slots'[s].state = "Zombie" THEN "zombie" ELSE "live"
          /\ ParentOf(n)' = IF slots'[s].parent = NO_PROC THEN 0
                            ELSE slots'[slots'[s].parent].pid
      <4>1. Occupied(s)' /\ slots'[s].pid = n
        BY <1>1, <1>3, <2>1, <3>1
      <4> QED
        BY <4>1 DEF TreeReads
    <3>4. StatusOf(n)' = StatusOf(n)
      BY <1>1, <1>3, <3>1, <3>2, <3>3
    <3>5. CASE slots[s].parent = c
      <4>1. ParentOf(n) = e
        BY <1>2, <1>4, <3>2, <3>5
      <4>2. slots'[s].parent = 0 /\ slots'[0].pid = 1
        BY <1>1, <1>2, <1>3, <1>5, <2>1, <3>1, <3>5 DEF IsChild
      <4> QED
        BY <1>2, <3>3, <3>4, <4>1, <4>2
    <3>6. CASE slots[s].parent # c
      <4>1. slots'[s].parent = slots[s].parent
        BY <1>1, <1>3, <3>1, <3>6 DEF IsChild
      <4>2. slots[s].parent \in Slots \cup {NO_PROC}
        BY <1>2 DEF Process
      <4>3. slots[s].parent # NO_PROC =>
                /\ slots'[slots[s].parent].pid = slots[slots[s].parent].pid
                /\ slots[slots[s].parent].pid # e
        BY <1>1, <1>3, <1>6, <3>6, <4>2
      <4> QED
        BY <1>5, <3>2, <3>3, <3>4, <4>1, <4>3
    <3> QED
      BY <3>5, <3>6
  <2>2. CASE \A s \in Slots : Occupied(s) => slots[s].pid # n
    <3>1. \A s \in Slots : Occupied(s)' => slots'[s].pid # n
      BY <1>1, <1>3, <1>4, <1>7, <2>2, NoProcessFacts DEF Occupied
    <3>2. UNCHANGED next_pid /\ e # 0
      BY <1>1, <1>5
    <3> QED
      BY <2>2, <3>1, <3>2 DEF TreeReads
  <2> QED
    BY <2>1, <2>2
<1>8. /\ slots[c].parent \in Slots /\ slots[c].parent # NO_PROC /\ slots[c].parent # c
      /\ ParentOf(e) = slots[slots[c].parent].pid /\ ParentOf(e) # e
      /\ slots'[slots[c].parent].pid = slots[slots[c].parent].pid
  <2>1. slots[c].parent \in Slots /\ slots[slots[c].parent].pid < slots[c].pid
    BY <1>2, <1>4, <1>5 DEF ParentAlive
  <2>2. slots[c].parent # c /\ slots[slots[c].parent].pid # e /\ slots[c].parent # NO_PROC
    BY <1>2, <1>4, <2>1 DEF Pids
  <2>3. ParentOf(e) = slots[slots[c].parent].pid
    BY <1>4, <1>5, <2>2 DEF TreeReads
  <2> QED
    BY <1>1, <1>3, <2>1, <2>2, <2>3
<1>9. CASE slots'[c] = NoProcess
  <2>1. \A s \in Slots : Occupied(s)' => slots'[s].pid # e
    BY <1>1, <1>3, <1>6, <1>9, NoProcessFacts DEF Occupied
  <2>2. StatusOf(e)' = "reaped" /\ ParentOf(e)' = 0
    BY <1>1, <1>5, <2>1 DEF TreeReads
  <2>3. status' = [status EXCEPT ![e] = "reaped"]
    BY <1>7, <2>2
  <2>4. parent' = [n \in Pids |-> IF parent[n] = e THEN 1
                                  ELSE IF n = e /\ "reaped" = "reaped" THEN 0
                                  ELSE parent[n]]
    BY <1>7, <1>8, <2>2
  <2>5. Tree!Exit(e)
    BY <1>5, <2>3, <2>4 DEF Tree!Exit
  <2> QED
    BY <2>5 DEF Tree!Next
<1>10. CASE /\ slots'[c].state = "Zombie" /\ slots'[c].pid = e
            /\ slots'[c].parent = slots[c].parent
  <2>1. StatusOf(e)' = "zombie" /\ ParentOf(e)' = slots'[slots[c].parent].pid
    BY <1>8, <1>10 DEF TreeReads, Occupied
  <2>2. ParentOf(e)' = ParentOf(e)
    BY <1>8, <2>1
  <2>3. status' = [status EXCEPT ![e] = "zombie"]
    BY <1>7, <2>1
  <2>4. parent' = [n \in Pids |-> IF parent[n] = e THEN 1
                                  ELSE IF n = e /\ "zombie" = "reaped" THEN 0
                                  ELSE parent[n]]
    BY <1>7, <1>8, <2>2
  <2>5. Tree!Exit(e)
    BY <1>5, <2>3, <2>4 DEF Tree!Exit
  <2> QED
    BY <2>5 DEF Tree!Next
<1> QED
  BY <1>1, <1>3, <1>4, <1>9, <1>10

\* wait4 keeps the caller's pid and parent.
LEMMA WaiterKeepsPid ==
  ASSUME IInv, Wait4
  PROVE  /\ slots'[current].pid = slots[current].pid
         /\ slots'[current].parent = slots[current].parent
         /\ slots[current].state = "Running" /\ UNCHANGED next_pid
<1>1. PICK uva \in UserPtr : wait_current(uva)
  BY ConstantsAssumption DEF ConstantsAssumption, UserPtr, Wait4
<1>2. /\ current \in Slots /\ slots \in [Slots -> Process]
      /\ slots[current].state = "Running" /\ UNCHANGED next_pid
  BY DEF Wait4, IInv, TypeOK, HartInv, CurrentIsRunning, InUser
<1> DEFINE me == [slots[current] EXCEPT !.wait_status_uva = uva]
<1>3. me \in Process /\ me.pid = slots[current].pid /\ me.parent = slots[current].parent
  BY <1>2 DEF Process
<1>4. ASSUME NEW c \in ZombieChildren(current),
             complete_wait([slots EXCEPT ![current] = me], current, c)
      PROVE  /\ slots'[current].pid = slots[current].pid
             /\ slots'[current].parent = slots[current].parent
  <2> DEFINE done == WaitDone(me, slots[c].exit_code)
  <2>1. c \in Slots /\ c # current /\ slots[c].exit_code \in Int
    BY <1>2 DEF ZombieChildren, Process
  <2>2. done.pid = me.pid /\ done.parent = me.parent
    BY <1>3, <2>1, WaitDoneFacts
  <2> HIDE DEF me
  <2>3. slots' = [[slots EXCEPT ![current] = me] EXCEPT ![current] = done, ![c] = NoProcess]
    BY <1>2, <1>4, <2>1 DEF complete_wait
  <2> HIDE DEF done
  <2> QED
    BY <1>2, <1>3, <2>1, <2>2, <2>3
<1>5. ASSUME NEW st \in {"SleepChild", "Ready"},
             slots' = [slots EXCEPT ![current] = [me EXCEPT !.state = st]]
      PROVE  /\ slots'[current].pid = slots[current].pid
             /\ slots'[current].parent = slots[current].parent
  <2>1. [me EXCEPT !.state = st].pid = me.pid /\ [me EXCEPT !.state = st].parent = me.parent
    BY <1>3 DEF Process
  <2> HIDE DEF me
  <2> QED
    BY <1>2, <1>3, <1>5, <2>1
<1> HIDE DEF me
<1> QED
  BY <1>1, <1>2, <1>4, <1>5 DEF wait_current, IsFirst, me

\* wait4 reaps a zombie child of the caller or leaves the tree alone.
LEMMA WaitInTree ==
  ASSUME IInv, TreeInv, TreeReads, TreeReads', Wait4
  PROVE  \/ Tree!Next
         \/ UNCHANGED <<[n \in Pids |-> StatusOf(n)], [n \in Pids |-> ParentOf(n)]>>
<1> DEFINE status == [n \in Pids |-> StatusOf(n)]
           parent == [n \in Pids |-> ParentOf(n)]
<1>1. /\ slots'[current].pid = slots[current].pid
      /\ slots'[current].parent = slots[current].parent
      /\ slots[current].state = "Running" /\ UNCHANGED next_pid
      /\ current \in Slots
  BY WaiterKeepsPid, WaitOutcome
<1>2. /\ slots \in [Slots -> Process] /\ PidInv /\ ParentAlive /\ next_pid \in Nat
      /\ 0 \in Slots /\ NO_PROC \notin Slots
  BY SlotFacts DEF IInv, TypeOK
<1>3. CASE /\ slots'[current].state \in {"SleepChild", "Ready"}
           /\ \A s \in Slots \ {current} : slots'[s] = slots[s]
  <2>1. \A s \in Slots : /\ slots'[s].pid = slots[s].pid
                         /\ slots'[s].parent = slots[s].parent
                         /\ Occupied(s)' <=> Occupied(s)
                         /\ slots'[s].state = "Zombie" <=> slots[s].state = "Zombie"
    BY <1>1, <1>3 DEF Occupied
  <2> QED
    BY <1>1, <1>2, <2>1, TreeSame
<1>4. ASSUME NEW c \in ZombieChildren(current),
             slots'[current].state = "Ready",
             \A s \in Slots \ {current} : slots'[s] = IF s = c THEN NoProcess ELSE slots[s]
      PROVE  Tree!Next
  <2>1. /\ c \in Slots /\ slots[c].state = "Zombie" /\ slots[c].parent = current
        /\ c # current /\ Occupied(c)
    BY <1>1, <1>4 DEF ZombieChildren, IsChild
  <2>2. PICK e \in Pids : e = slots[c].pid
    BY <2>1 DEF TreeReads
  <2>3. \A s \in Slots : slots[s].pid = e => s = c
    BY <1>2, <2>1, <2>2 DEF PidInv
  <2>4. slots'[c] = NoProcess /\ e < next_pid
    BY <1>2, <1>4, <2>1, <2>2 DEF PidInv
  <2>5. /\ StatusOf(e) = "zombie" /\ ParentOf(e) = slots[current].pid
        /\ ParentOf(e) \in Pids /\ StatusOf(ParentOf(e)) = "live"
    BY <1>1, <1>2, <2>1, <2>2 DEF TreeReads, Occupied
  <2>6. StatusOf(e)' = "reaped" /\ ParentOf(e)' = 0
    <3>1. \A s \in Slots : Occupied(s)' => slots'[s].pid # e
      BY <1>1, <1>4, <2>1, <2>3, <2>4, NoProcessFacts DEF Occupied
    <3> QED
      BY <1>1, <2>4, <3>1 DEF TreeReads
  <2>7. ASSUME NEW n \in Pids, n # e
        PROVE  StatusOf(n)' = StatusOf(n) /\ ParentOf(n)' = ParentOf(n)
    <3>1. ASSUME NEW s \in Slots, Occupied(s), slots[s].pid = n
          PROVE  StatusOf(n)' = StatusOf(n) /\ ParentOf(n)' = ParentOf(n)
      <4>1. s # c
        BY <2>2, <2>7, <3>1
      <4>2. /\ slots'[s].pid = n /\ slots'[s].parent = slots[s].parent /\ Occupied(s)'
            /\ slots'[s].state = "Zombie" <=> slots[s].state = "Zombie"
        BY <1>1, <1>4, <3>1, <4>1 DEF Occupied
      <4>3. /\ StatusOf(n) = IF slots[s].state = "Zombie" THEN "zombie" ELSE "live"
            /\ ParentOf(n) = IF slots[s].parent = NO_PROC THEN 0
                             ELSE slots[slots[s].parent].pid
        BY <3>1 DEF TreeReads
      <4>4. /\ StatusOf(n)' = IF slots'[s].state = "Zombie" THEN "zombie" ELSE "live"
            /\ ParentOf(n)' = IF slots'[s].parent = NO_PROC THEN 0
                              ELSE slots'[slots'[s].parent].pid
        BY <4>2 DEF TreeReads
      <4>5. slots[s].parent # NO_PROC =>
                slots'[slots[s].parent].pid = slots[slots[s].parent].pid
        <5>1. slots[s].pid = 1 => slots[s].parent = NO_PROC
          BY <1>2, <3>1 DEF PidInv, TreeInv
        <5>2. slots[s].pid # 1 => slots[s].parent \in Slots /\ slots[s].parent # c
          BY <1>2, <2>1, <3>1 DEF ParentAlive
        <5> QED
          BY <1>1, <1>4, <5>1, <5>2
      <4> QED
        BY <4>2, <4>3, <4>4, <4>5
    <3>2. CASE \A s \in Slots : Occupied(s) => slots[s].pid # n
      <4>1. \A s \in Slots : Occupied(s)' => slots'[s].pid # n
        BY <1>1, <1>4, <3>2, NoProcessFacts DEF Occupied
      <4>2. /\ StatusOf(n) = IF n < next_pid THEN "reaped" ELSE "unborn"
            /\ ParentOf(n) = 0
        BY <3>2 DEF TreeReads
      <4>3. /\ StatusOf(n)' = IF n < next_pid' THEN "reaped" ELSE "unborn"
            /\ ParentOf(n)' = 0
        BY <4>1 DEF TreeReads
      <4> QED
        BY <1>1, <4>2, <4>3
    <3> QED
      BY <3>1, <3>2
  <2>8. status' = [status EXCEPT ![e] = "reaped"] /\ parent' = [parent EXCEPT ![e] = 0]
    BY <2>6, <2>7
  <2>9. Tree!Reap(e)
    BY <2>5, <2>8 DEF Tree!Reap
  <2> QED
    BY <2>9 DEF Tree!Next
<1> QED
  BY <1>3, <1>4, WaitOutcome

\* Every step is a step of the tree, or none of it shows.
LEMMA TreeStep ==
  IInv /\ TreeInv /\ TreeReads /\ TreeReads' /\ [Next]_vars
    => [Tree!Next]_<<[n \in Pids |-> StatusOf(n)], [n \in Pids |-> ParentOf(n)]>>
<1> SUFFICES ASSUME IInv, TreeInv, TreeReads, TreeReads', [Next]_vars
             PROVE  [Tree!Next]_<<[n \in Pids |-> StatusOf(n)], [n \in Pids |-> ParentOf(n)]>>
  OBVIOUS
<1>1. CASE ForkOk
  BY <1>1, ForkInTree
<1>2. CASE Exit \/ UserFault
  BY <1>2, ExitCodeKnown, ExitInTree
<1>3. CASE Wait4
  BY <1>3, WaitInTree
<1>4. CASE Steady
  BY <1>4, TreeKept, TreeSame DEF IInv, TypeOK
<1> QED
  BY <1>1, <1>2, <1>3, <1>4 DEF Next, User, Steady

\* Pids stay within the bound, and nobody becomes the parent of init.
LEMMA TreeInvStep == IInv /\ TreeInv /\ [Next]_vars => TreeInv'
<1> SUFFICES ASSUME IInv, TreeInv, [Next]_vars PROVE TreeInv'
  OBVIOUS
<1>1. 0 \in Slots /\ NO_PROC \notin Slots /\ PidInv /\ next_pid \in Nat /\ MaxPid \in Nat
      /\ slots \in [Slots -> Process]
  BY SlotFacts, ConstantsAssumption DEF ConstantsAssumption, IInv, TypeOK
<1>2. CASE ForkOk
  <2>1. PICK x \in FreeSlots :
            slots' = [slots EXCEPT ![x] = NewProcess(next_pid, current, slots[current].wstatus)]
    BY <1>2, Zenon DEF ForkOk, IsFirst
  <2>2. x # 0
    BY <1>1 DEF FreeSlots, PidInv
  <2>3. slots'[0] = slots[0]
    BY <1>1, <2>1, <2>2
  <2> QED
    BY <1>1, <1>2, <2>3 DEF ForkOk, TreeInv
<1>3. CASE Exit \/ UserFault
  <2>1. PICK code \in Int : exit_current(code)
    BY <1>3, ExitCodeKnown
  <2>2. /\ current \in Slots /\ slots[current].pid # 1 /\ UNCHANGED next_pid
        /\ \A s \in Slots \ {current} :
                slots'[s].parent = IF IsChild(s, current) THEN 0 ELSE slots[s].parent
    BY <2>1, ExitSlots
  <2> QED
    BY <1>1, <2>2 DEF TreeInv, PidInv, IsChild
<1>4. CASE Wait4
  <2>1. /\ slots'[current].parent = slots[current].parent /\ UNCHANGED next_pid
    BY <1>4, WaiterKeepsPid
  <2>2. 0 # current => slots'[0] = slots[0]
    BY <1>1, <1>4, WaitOutcome DEF ZombieChildren, PidInv
  <2> QED
    BY <2>1, <2>2 DEF TreeInv
<1>5. CASE Steady
  BY <1>1, <1>5, TreeKept DEF TreeInv
<1> QED
  BY <1>2, <1>3, <1>4, <1>5 DEF Next, User, Steady

\* The tree starts with init alone.
LEMMA TreeInit == Init => TreeInv /\ (IInv /\ TreeReads => Tree!Init)
<1>1. Init => TreeInv
  BY SlotFacts, ConstantsAssumption DEF ConstantsAssumption, Init, TreeInv, NewProcess
<1>2. Init /\ IInv /\ TreeReads => Tree!Init
  <2> SUFFICES ASSUME Init, IInv, TreeReads PROVE Tree!Init
    OBVIOUS
  <2>1. /\ 0 \in Slots /\ Occupied(0) /\ slots[0].pid = 1
        /\ slots[0].state = "Ready" /\ slots[0].parent = NO_PROC
        /\ \A s \in Slots : Occupied(s) => s = 0
    BY SlotFacts DEF Init, NewProcess, NoProcess, Occupied
  <2>2. 1 \in Pids /\ StatusOf(1) = "live" /\ ParentOf(1) = 0
    BY <2>1 DEF TreeReads
  <2>3. \A n \in Pids : n # 1 => StatusOf(n) = "unborn" /\ ParentOf(n) = 0
    BY <2>1, ConstantsAssumption DEF ConstantsAssumption, TreeReads, Init, Pids
  <2> QED
    BY <2>2, <2>3 DEF Tree!Init
<1> QED
  BY <1>1, <1>2

\* The table, with its slots, their reuse, the scheduler and the sleeping, is an
\* implementation of the pid tree, for every table size: fork, exit and wait4 do
\* to the processes what the tree says and nothing else does anything to them.
THEOREM TableImplementsTree == Spec => ImplementsTree
BY TreeInit, TreeInvStep, TreeIsRead, TreeStep, Invariance, PTL
DEF Spec, ImplementsTree, Tree!Spec, Tree!treeVars
=============================================================================
