------------------------- MODULE ProcessMemoryProofs -------------------------
(***************************************************************************)
(* Proofs about ProcessMemory for every set of frames, address space size, *)
(* image, stack and table size: fork, exec and mmap build address spaces   *)
(* as FrameAccounting describes; exit, reaping, exec and munmap empty      *)
(* places and free what they held.                                         *)
(***************************************************************************)
EXTENDS FrameAccounting, ProcessTableProofs, FiniteSetTheorems

\* Inductive: the types; frames owned once, and all of them accounted for until
\* a call fails for memory; a slot has a root table while it is occupied, nothing
\* when it is free, and nothing but the root table when it is a zombie's.
MemType ==
    /\ space \in [Slots -> Space]
    /\ next_mmap \in [Slots -> Nat]
    /\ failed \in BOOLEAN

SpaceInv ==
    \A s \in Slots :
        /\ Occupied(s) => space[s].root # NoFrame
        /\ ~Occupied(s) => space[s] = NoSpace
        /\ slots[s].state = "Zombie" =>
            \A q \in Places \ {RootPlace} : Cells(space[s])[q] = NoFrame

\* In user mode satp is the root of the current process.  It is that of an
\* occupied slot wherever the hart may stay: not at the top of the scheduler's
\* loop when a process is ready, where the next step replaces it.
SatpInv ==
    /\ InUser => satp = space[current].root
    /\ pc # "sched" \/ ReadySlots = {} =>
        \E s \in Slots : Occupied(s) /\ satp = space[s].root

FrameInv ==
    /\ MemType
    /\ Owned(TableOf(space), free)
    /\ ~failed => Full(TableOf(space), free)
    /\ SpaceInv

\* All of this as long as no munmap has left the user window.
MemInv == FrameInv /\ SatpInv
-----------------------------------------------------------------------------
(* One lemma per action: it keeps the frames accounted for. *)

\* The places of all slots.
LEMMA TableFacts ==
  ASSUME NEW sps \in [Slots -> Space]
  PROVE  TableOf(sps) \in Tables /\ \A s \in Slots : TableOf(sps)[s] = Cells(sps[s])
BY CellsType DEF TableOf, Tables

\* A new space in one slot changes the places of that slot.
LEMMA TableUpdate ==
  ASSUME NEW sps \in [Slots -> Space], NEW s \in Slots, NEW new \in Space
  PROVE  TableOf([sps EXCEPT ![s] = new]) = [TableOf(sps) EXCEPT ![s] = Cells(new)]
BY DEF TableOf

\* In user mode the current slot is occupied by a running process.
LEMMA CallerFacts ==
  ASSUME IInv, InUser
  PROVE  /\ current \in Slots /\ slots[current].state = "Running" /\ Occupied(current)
BY DEF IInv, HartInv, CurrentIsRunning, InUser, Occupied

\* Steps that touch neither memory nor who is there.
LEMMA SameFrames ==
  ASSUME FrameInv, UNCHANGED <<free, space, next_mmap, failed>>,
         \A s \in Slots : /\ Occupied(s)' <=> Occupied(s)
                          /\ slots'[s].state = "Zombie" <=> slots[s].state = "Zombie"
  PROVE  FrameInv'
<1>1. MemType'
  BY DEF FrameInv, MemType
<1>2. Owned(TableOf(space), free)' /\ (~failed => Full(TableOf(space), free))'
  BY DEF FrameInv
<1>3. SpaceInv'
  BY DEF FrameInv, SpaceInv
<1> QED
  BY <1>1, <1>2, <1>3 DEF FrameInv

\* A call that fails for memory: frames may be lost, none is freed.
LEMMA FramesLost ==
  ASSUME FrameInv, UNCHANGED <<slots, space, next_mmap>>, failed' = TRUE,
         free' \subseteq free
  PROVE  FrameInv'
<1>1. MemType'
  BY DEF FrameInv, MemType
<1>2. Owned(TableOf(space), free)'
  <2>1. Owned(TableOf(space), free')
    BY DEF FrameInv, Owned
  <2> QED
    BY <2>1
<1>3. SpaceInv'
  BY DEF FrameInv, SpaceInv, Occupied
<1> QED
  BY <1>1, <1>2, <1>3 DEF FrameInv

\* An attempt that starts from an empty space takes its frames from the free ones.
LEMMA FreshAttempt ==
  ASSUME NEW F0 \in SUBSET Frames, NEW t \in Sound(NoCells, F0)
  PROVE  /\ t.sp \in Space
         /\ \E H \in SUBSET F0 :
            /\ Account(NoCells, F0, Cells(t.sp), t.free, H)
            /\ t.ok => H = {} /\ t.sp.root # NoFrame
            /\ \A x, y \in H : x = y
            /\ t.free \cup AllFrames(t.sp) = F0 \ H
<1>1. t.sp \in Space
  BY DEF Sound, Attempts
<1>2. PICK H \in SUBSET Frames :
        /\ Account(NoCells, F0, Cells(t.sp), t.free, H)
        /\ t.ok => H = {} /\ t.sp.root # NoFrame
        /\ \A x, y \in H : x = y
  BY DEF Sound
<1>3. \A q \in Places : NoCells[q] = NoFrame
  BY DEF NoCells
<1>4. \A f : f \in AllFrames(t.sp) <=> f # NoFrame /\ \E q \in Places : Cells(t.sp)[q] = f
  BY <1>1, UserFramesAre
<1>5. NoFrame \notin F0
  BY NoFrameFacts
<1>6. \A f \in t.free \cup AllFrames(t.sp) : f \in F0 \ H
  BY <1>2, <1>3, <1>4 DEF Account
<1>7. \A f \in F0 \ H : f \in t.free \cup AllFrames(t.sp)
  BY <1>2, <1>4, <1>5 DEF Account
<1>8. H \in SUBSET F0
  BY <1>2 DEF Account
<1> QED
  BY <1>1, <1>2, <1>6, <1>7, <1>8

\* fork that succeeds: the child gets the copy, the parent keeps its own.
LEMMA ForkOkFrames ==
  ASSUME IInv, FrameInv, ForkOkM
  PROVE  FrameInv'
<1> DEFINE t == clone_user_space(free, space[current])
<1>1. /\ ForkOk /\ t.ok /\ free' = t.free /\ UNCHANGED failed
  BY DEF ForkOkM
<1>2. PICK s \in Slots : /\ IsFirst(s, FreeSlots)
                         /\ space' = [space EXCEPT ![s] = t.sp]
                         /\ next_mmap' = [next_mmap EXCEPT ![s] = next_mmap[current]]
  BY DEF ForkOkM
<1>3. /\ space \in [Slots -> Space] /\ free \in SUBSET Frames
      /\ next_mmap \in [Slots -> Nat] /\ failed \in BOOLEAN
  BY DEF FrameInv, MemType, Owned
<1>4. t \in Sound(NoCells, free)
  BY <1>3, CloneSound
<1> HIDE DEF t
<1>5. t.sp \in Space /\ t.sp.root # NoFrame /\ Account(NoCells, free, Cells(t.sp), t.free, {})
  <2>1. /\ t.sp \in Space
        /\ \E H \in SUBSET free : /\ Account(NoCells, free, Cells(t.sp), t.free, H)
                                  /\ t.ok => H = {} /\ t.sp.root # NoFrame
    BY <1>3, <1>4, FreshAttempt
  <2> QED
    BY <1>1, <2>1
<1>6. ~Occupied(s) /\ current \in Slots /\ InUser
  BY <1>1, <1>2, CallerFacts DEF IsFirst, FreeSlots, ForkOk
<1>7. TableOf(space)[s] = NoCells
  <2>1. space[s] = NoSpace
    BY <1>6 DEF FrameInv, SpaceInv
  <2> QED
    BY <1>3, <2>1, TableFacts, NoSpaceFacts
<1>8. MemType'
  BY <1>1, <1>2, <1>3, <1>5, <1>6 DEF MemType
<1>9. TableOf(space') = [TableOf(space) EXCEPT ![s] = Cells(t.sp)]
  <2>1. TableOf([space EXCEPT ![s] = t.sp]) = [TableOf(space) EXCEPT ![s] = Cells(t.sp)]
    BY <1>3, <1>5, TableUpdate
  <2> QED
    BY <1>2, <2>1
<1>10. Owned(TableOf(space'), free') /\ (~failed => Full(TableOf(space'), free'))
  <2>1. TableOf(space) \in Tables /\ Owned(TableOf(space), free)
    BY <1>3, TableFacts DEF FrameInv
  <2> DEFINE C == TableOf(space)
  <2>2. Account(C[s], free, Cells(t.sp), t.free, {})
    BY <1>5, <1>7
  <2>3. ~failed => Full(C, free)
    BY DEF FrameInv
  <2> HIDE DEF C
  <2>4. /\ Owned([C EXCEPT ![s] = Cells(t.sp)], t.free)
        /\ Full(C, free) => Full([C EXCEPT ![s] = Cells(t.sp)], t.free)
    BY <2>1, <2>2, ReplaceOwned DEF C
  <2> QED
    BY <1>1, <1>9, <2>3, <2>4 DEF C
<1>11. SpaceInv'
  <2>1. PICK x \in Slots : /\ IsFirst(x, FreeSlots)
                           /\ slots' = [slots EXCEPT ![x] = NewProcess(next_pid, current, slots[current].wstatus)]
    BY <1>1 DEF ForkOk
  <2>2. x = s
    BY <1>2, <2>1, SlotFacts DEF IsFirst
  <2>3. slots'[s].state = "Ready" /\ \A r \in Slots : r # s => slots'[r] = slots[r]
    BY <2>1, <2>2 DEF NewProcess, IInv, TypeOK
  <2>4. space'[s] = t.sp /\ \A r \in Slots : r # s => space'[r] = space[r]
    BY <1>2, <1>3
  <2> QED
    BY <1>5, <2>3, <2>4 DEF FrameInv, SpaceInv, Occupied
<1> QED
  BY <1>1, <1>8, <1>10, <1>11 DEF FrameInv

\* fork that fails: the table full, or all but the frame of the failure undone.
LEMMA ForkFailsFrames ==
  ASSUME IInv, FrameInv, ForkFailsM
  PROVE  FrameInv'
<1> DEFINE t == clone_user_space(free, space[current])
<1>1. /\ ForkFails /\ UNCHANGED <<space, next_mmap>>
      /\ free' = IF FreeSlots = {} THEN free ELSE t.free \cup AllFrames(t.sp)
      /\ failed' = (failed \/ FreeSlots # {})
  BY DEF ForkFailsM
<1>2. free \in SUBSET Frames /\ failed \in BOOLEAN /\ UNCHANGED slots
  BY <1>1 DEF FrameInv, MemType, Owned, ForkFails
<1>3. t \in Sound(NoCells, free)
  BY <1>2, CloneSound
<1> HIDE DEF t
<1>4. t.free \cup AllFrames(t.sp) \subseteq free
  BY <1>2, <1>3, FreshAttempt
<1>5. CASE FreeSlots = {}
  BY <1>1, <1>2, <1>5, SameFrames DEF Occupied
<1>6. CASE FreeSlots # {}
  BY <1>1, <1>2, <1>4, <1>6, FramesLost
<1> QED
  BY <1>5, <1>6

\* Frames that are neither free nor in a place may be added to both sides.
LEMMA AccountMore ==
  ASSUME NEW F0 \in SUBSET Frames, NEW c, NEW fr, Account(NoCells, F0, c, fr, {}),
         NEW X \in SUBSET Frames, X \cap F0 = {}
  PROVE  Account(NoCells, F0 \cup X, c, fr \cup X, {})
<1>1. \A q \in Places : NoCells[q] = NoFrame
  BY DEF NoCells
<1>2. \A q \in Places : c[q] = NoFrame \/ c[q] \in F0
  BY <1>1 DEF Account
<1>3. \A q \in Places : c[q] \notin X
  BY <1>2, NoFrameFacts
<1> QED
  BY <1>1, <1>2, <1>3 DEF Account

\* exec that succeeds: the new space is built from free frames only, and every
\* frame of the old one becomes free.
LEMMA ExecOkFrames ==
  ASSUME IInv, FrameInv, ExecOkM
  PROVE  FrameInv' /\ current \in Slots /\ space' = [space EXCEPT ![current] = build_address_space(free).sp]
         /\ build_address_space(free).sp \in Space
<1> DEFINE t == build_address_space(free)
           C == TableOf(space)
           X == AllFrames(space[current])
           C1 == [C EXCEPT ![current] = NoCells]
<1>1. /\ ExecOk /\ t.ok /\ UNCHANGED failed
      /\ space' = [space EXCEPT ![current] = t.sp]
      /\ free' = t.free \cup X
      /\ next_mmap' = [next_mmap EXCEPT ![current] = MMAP_BASE]
  BY DEF ExecOkM
<1>2. /\ space \in [Slots -> Space] /\ free \in SUBSET Frames
      /\ next_mmap \in [Slots -> Nat] /\ failed \in BOOLEAN
      /\ Owned(C, free) /\ (~failed => Full(C, free))
  BY DEF FrameInv, MemType, Owned
<1>3. t \in Sound(NoCells, free)
  BY <1>2, BuildSound
<1>4. current \in Slots /\ slots[current].state = "Running" /\ InUser
  BY <1>1, CallerFacts DEF ExecOk
<1>5. C \in Tables /\ \A s \in Slots : C[s] = Cells(space[s])
  BY <1>2, TableFacts
<1> HIDE DEF t
<1>6. t.sp \in Space /\ t.sp.root # NoFrame /\ Account(NoCells, free, Cells(t.sp), t.free, {})
  <2>1. /\ t.sp \in Space
        /\ \E H \in SUBSET free : /\ Account(NoCells, free, Cells(t.sp), t.free, H)
                                  /\ t.ok => H = {} /\ t.sp.root # NoFrame
    BY <1>2, <1>3, FreshAttempt
  <2> QED
    BY <1>1, <2>1
<1>7. MemType'
  <2>1. MMAP_BASE \in Nat
    BY MemoryAssumption DEF MemoryAssumption
  <2> QED
    BY <1>1, <1>2, <1>4, <1>6, <2>1 DEF MemType
<1>8. TableOf(space') = [C EXCEPT ![current] = Cells(t.sp)]
  <2>1. TableOf([space EXCEPT ![current] = t.sp]) = [TableOf(space) EXCEPT ![current] = Cells(t.sp)]
    BY <1>2, <1>4, <1>6, TableUpdate
  <2> QED
    BY <1>1, <2>1
<1> HIDE DEF C
<1>9. \A f : f \in X <=> f # NoFrame /\ \E q \in Places : C[current][q] = f
  <2>1. space[current] \in Space /\ C[current] = Cells(space[current])
    BY <1>2, <1>4, <1>5
  <2> QED
    BY <2>1, UserFramesAre
<1> HIDE DEF X
<1>10. X \in SUBSET Frames /\ X \cap free = {}
  BY <1>2, <1>4, <1>5, <1>9 DEF Owned, Tables, FrameOrNone
<1>11. C1 \in Tables /\ C1[current] = NoCells /\ \A s \in Slots : s # current => C1[s] = C[s]
  BY <1>4, <1>5 DEF Tables, NoCells, FrameOrNone
<1>12. [C1 EXCEPT ![current] = Cells(t.sp)] = [C EXCEPT ![current] = Cells(t.sp)]
  BY <1>4, <1>5 DEF Tables
<1> HIDE DEF C1
<1>13. Given(C, C1) = X
  <2>1. \A q \in Places : C1[current][q] = NoFrame
    BY <1>11 DEF NoCells
  <2> QED
    BY <1>4, <1>9, <1>10, <1>11, <2>1, NoFrameFacts DEF Given
<1>14. Owned(C1, free \cup X) /\ (Full(C, free) => Full(C1, free \cup X))
  <2>1. \A s \in Slots, q \in Places : C1[s][q] = C[s][q] \/ C1[s][q] = NoFrame
    BY <1>11 DEF NoCells
  <2> QED
    BY <1>2, <1>5, <1>11, <1>13, <2>1, ReleaseOwned
<1>15. Account(C1[current], free \cup X, Cells(t.sp), t.free \cup X, {})
  BY <1>2, <1>6, <1>10, <1>11, AccountMore
<1>16. /\ Owned([C1 EXCEPT ![current] = Cells(t.sp)], t.free \cup X)
       /\ Full(C1, free \cup X) => Full([C1 EXCEPT ![current] = Cells(t.sp)], t.free \cup X)
  BY <1>4, <1>11, <1>14, <1>15, ReplaceOwned
<1>17. Owned(TableOf(space'), free') /\ (~failed' => Full(TableOf(space'), free'))
  BY <1>1, <1>2, <1>8, <1>12, <1>14, <1>16
<1>18. SpaceInv'
  <2>1. \A s \in Slots : /\ Occupied(s)' <=> Occupied(s)
                         /\ slots'[s].state = "Zombie" <=> slots[s].state = "Zombie"
    BY <1>1, TreeKept DEF Steady
  <2>2. space'[current] = t.sp /\ \A s \in Slots : s # current => space'[s] = space[s]
    BY <1>1, <1>2, <1>4
  <2> QED
    BY <1>4, <1>6, <2>1, <2>2 DEF FrameInv, SpaceInv, Occupied
<1> QED
  BY <1>1, <1>4, <1>6, <1>7, <1>17, <1>18 DEF FrameInv, t

\* exec that fails loses the frames of its attempt.
LEMMA ExecFailsFrames ==
  ASSUME FrameInv, ExecFailsM \/ ExecBadImage
  PROVE  FrameInv'
<1>1. free \in SUBSET Frames
  BY DEF FrameInv, Owned
<1>2. ASSUME NEW t \in Sound(NoCells, free) PROVE t.free \subseteq free
  BY <1>1, <1>2, FreshAttempt
<1>3. ExecFailsM => free' \subseteq free
  BY <1>1, <1>2, BuildSound DEF ExecFailsM
<1>4. ExecBadImage => free' \subseteq free
  <2> SUFFICES ASSUME NEW n \in 0 .. Len(Image),
                      free' = MapNewPages(new_user_root(free), SubSeq(Image, 1, n)).free
               PROVE  free' \subseteq free
    BY DEF ExecBadImage
  <2> QED
    BY <1>1, <1>2, PartSound
<1>5. free' \subseteq free
  BY <1>3, <1>4
<1> QED
  BY <1>5, FramesLost DEF ExecFailsM, ExecBadImage

\* What mmap and munmap do to the frames: the space of the caller changes, its
\* root table does not.
LEMMA CallerSpace ==
  ASSUME IInv, FrameInv, InUser, UNCHANGED slots, NEW new \in Space,
         new.root = space[current].root,
         space' = [space EXCEPT ![current] = new]
  PROVE  SpaceInv' /\ space' \in [Slots -> Space]
<1>1. current \in Slots /\ slots[current].state = "Running" /\ space \in [Slots -> Space]
  BY CallerFacts DEF FrameInv, MemType
<1>2. space'[current] = new /\ \A s \in Slots : s # current => space'[s] = space[s]
  BY <1>1
<1> QED
  BY <1>1, <1>2 DEF FrameInv, SpaceInv, Occupied

\* mmap: the pages mapped come from free frames; a failure loses at most one.
LEMMA MmapFrames ==
  ASSUME IInv, FrameInv, Mmap
  PROVE  FrameInv' /\ space'[current].root = space[current].root
<1>1. PICK n \in MmapPages :
        LET va == next_mmap[current]
            t == MapNewPages(Attempt(free, space[current]), [i \in 1 .. n |-> va + i - 1])
        IN  /\ va + n - 1 <= MaxVa
            /\ next_mmap' = [next_mmap EXCEPT ![current] = va + n]
            /\ free' = t.free
            /\ space' = [space EXCEPT ![current] = t.sp]
            /\ failed' = (failed \/ ~t.ok)
  BY DEF Mmap
<1> DEFINE va == next_mmap[current]
           vas == [i \in 1 .. n |-> va + i - 1]
           a == Attempt(free, space[current])
           t == MapNewPages(a, vas)
           C == TableOf(space)
           P == Sound(C[current], free)
<1>2. /\ space \in [Slots -> Space] /\ free \in SUBSET Frames
      /\ next_mmap \in [Slots -> Nat] /\ failed \in BOOLEAN
      /\ Owned(C, free) /\ (~failed => Full(C, free))
  BY DEF FrameInv, MemType, Owned
<1>3. /\ current \in Slots /\ InUser /\ UNCHANGED slots
      /\ space[current] \in Space /\ space[current].root # NoFrame
  BY <1>2, CallerFacts DEF Mmap, FrameInv, SpaceInv
<1>4. C \in Tables /\ C[current] = Cells(space[current])
  BY <1>2, <1>3, TableFacts
<1>5. vas \in Seq(Pages)
  <2>1. n \in Nat /\ va \in Nat /\ MaxVa \in Nat
    BY <1>2, <1>3, MemoryAssumption DEF MemoryAssumption
  <2>2. \A i \in 1 .. n : va + i - 1 \in Pages
    BY <1>1, <2>1 DEF Pages
  <2> QED
    BY <2>1, <2>2
<1>6. a \in P
  <2>1. a \in Attempts /\ a.free = free /\ a.sp = space[current] /\ a.ok
    BY <1>2, <1>3 DEF Attempt, Attempts
  <2>2. Account(C[current], free, C[current], free, {})
    <3>1. C[current] \in [Places -> FrameOrNone]
      BY <1>3, <1>4 DEF Tables
    <3>2. /\ \A q \in Places : C[current][q] \notin free
          /\ \A p, q \in Places : C[current][p] # NoFrame /\ C[current][p] = C[current][q] => p = q
      BY <1>2, <1>3 DEF Owned
    <3> HIDE DEF C
    <3> QED
      BY <1>2, <3>1, <3>2, StartAccount
  <2>3. {} \in SUBSET Frames /\ \A x, y \in {} : x = y
    OBVIOUS
  <2> HIDE DEF a, C
  <2> QED
    BY <1>3, <1>4, <2>1, <2>2, <2>3 DEF Sound
<1>7. t \in P
  <2>1. \A b \in P, v \in Pages : MapNewPage(b, v) \in P
    BY <1>2, MapNewPageKeeps
  <2> HIDE DEF P, a, vas
  <2> QED
    BY <1>5, <1>6, <2>1, MapNewPagesKeeps
<1>8. /\ va + n - 1 <= MaxVa /\ next_mmap' = [next_mmap EXCEPT ![current] = va + n]
      /\ free' = t.free /\ space' = [space EXCEPT ![current] = t.sp]
      /\ failed' = (failed \/ ~t.ok)
  BY <1>1
<1> HIDE DEF t, C
<1>9. t.sp \in Space /\ \E H : Account(C[current], free, Cells(t.sp), t.free, H) /\ (t.ok => H = {})
  BY <1>7 DEF Sound, Attempts
<1>10. PICK H : Account(C[current], free, Cells(t.sp), t.free, H) /\ (t.ok => H = {})
  BY <1>9
<1>11. t.sp.root = space[current].root
  <2>1. C[current][RootPlace] = space[current].root /\ Cells(t.sp)[RootPlace] = t.sp.root
    BY <1>3, <1>4, <1>9, CellsType
  <2> QED
    BY <1>3, <1>10, <2>1, PlaceFacts DEF Account
<1>12. SpaceInv' /\ space' \in [Slots -> Space]
  BY <1>3, <1>8, <1>9, <1>11, CallerSpace
<1>13. MemType'
  <2>1. va + n \in Nat
    BY <1>2, <1>3, MemoryAssumption DEF MemoryAssumption
  <2> HIDE DEF va
  <2> QED
    BY <1>2, <1>8, <1>12, <2>1 DEF MemType
<1>14. TableOf(space') = [C EXCEPT ![current] = Cells(t.sp)]
  <2>1. TableOf([space EXCEPT ![current] = t.sp]) = [TableOf(space) EXCEPT ![current] = Cells(t.sp)]
    BY <1>2, <1>3, <1>9, TableUpdate
  <2> QED
    BY <1>8, <2>1 DEF C
<1>15. /\ Owned([C EXCEPT ![current] = Cells(t.sp)], t.free)
       /\ Full(C, free) /\ H = {} => Full([C EXCEPT ![current] = Cells(t.sp)], t.free)
  BY <1>2, <1>3, <1>4, <1>10, ReplaceOwned
<1>16. Owned(TableOf(space'), free') /\ (~failed' => Full(TableOf(space'), free'))
  BY <1>2, <1>8, <1>10, <1>14, <1>15
<1>17. space'[current] = t.sp
  BY <1>2, <1>3, <1>8
<1> QED
  BY <1>11, <1>12, <1>13, <1>16, <1>17 DEF FrameInv

\* munmap that stays off the kernel's map: the frames of the pages unmapped
\* become free.
LEMMA MunmapFrames ==
  ASSUME IInv, FrameInv, Munmap, ~strayed'
  PROVE  FrameInv' /\ space'[current].root = space[current].root
<1>1. PICK va \in UnmapVas, n \in MmapPages : unmap_range(va .. va + n - 1)
  BY DEF Munmap
<1> DEFINE range == va .. va + n - 1
           vas == range \cap Pages
           old == space[current]
           new == [old EXCEPT !.pte = [v \in Pages |-> IF v \in vas THEN NoFrame ELSE old.pte[v]]]
           C == TableOf(space)
           D == TableOf(space')
<1>2. /\ space \in [Slots -> Space] /\ free \in SUBSET Frames
      /\ Owned(C, free) /\ (~failed => Full(C, free))
      /\ UNCHANGED <<next_mmap, failed, slots>>
  BY DEF FrameInv, MemType, Owned, Munmap
<1>3. current \in Slots /\ InUser /\ old \in Space
  BY <1>2, CallerFacts DEF Munmap
<1>4. vas \subseteq Pages
  OBVIOUS
<1>5. /\ free' = free \cup ({old.pte[v] : v \in vas} \ {NoFrame})
      /\ space' = [space EXCEPT ![current] = new]
  <2>1. \A f \in Frames : MaxVa + f \notin range
    <3>1. range \cap KernelPages = {}
      BY <1>1 DEF unmap_range
    <3> QED
      BY <3>1, MemoryAssumption DEF MemoryAssumption
  <2> HIDE DEF range
  <2>2. /\ free' = free \cup ({old.pte[v] : v \in vas} \ {NoFrame})
                       \cup {f \in Frames : MaxVa + f \in range}
        /\ space' = [space EXCEPT ![current].pte =
                        [v \in Pages |-> IF v \in range THEN NoFrame ELSE old.pte[v]]]
    BY <1>1 DEF unmap_range, range
  <2>3. [v \in Pages |-> IF v \in range THEN NoFrame ELSE old.pte[v]]
          = [v \in Pages |-> IF v \in vas THEN NoFrame ELSE old.pte[v]]
    OBVIOUS
  <2>4. free' = free \cup ({old.pte[v] : v \in vas} \ {NoFrame})
    BY <2>1, <2>2
  <2> QED
    BY <1>2, <1>3, <2>2, <2>3, <2>4
<1> HIDE DEF vas, old, range
<1>6. /\ new \in Space /\ new.root = old.root /\ new.l1 = old.l1 /\ new.l0 = old.l0
      /\ \A v \in Pages : new.pte[v] = IF v \in vas THEN NoFrame ELSE old.pte[v]
  BY <1>3 DEF Space, FrameOrNone
<1> HIDE DEF new
<1>7. SpaceInv' /\ space' \in [Slots -> Space]
  BY <1>2, <1>3, <1>5, <1>6, CallerSpace DEF old
<1>8. MemType'
  BY <1>2, <1>7 DEF MemType, FrameInv
<1>9. /\ C \in Tables /\ D \in Tables
      /\ \A s \in Slots : C[s] = Cells(space[s]) /\ D[s] = Cells(space'[s])
  BY <1>2, <1>7, TableFacts
<1>10. /\ C[current] = Cells(old) /\ D[current] = Cells(new)
       /\ \A s \in Slots : s # current => D[s] = C[s]
  BY <1>2, <1>3, <1>5, <1>9 DEF old
<1> HIDE DEF C, D
<1>11. \A q \in Places : \/ Cells(new)[q] = Cells(old)[q]
                         \/ /\ Cells(new)[q] = NoFrame
                            /\ \E v \in vas : Cells(old)[q] = old.pte[v]
  <2> DEFINE S == {q \in Places : \/ Cells(new)[q] = Cells(old)[q]
                                  \/ /\ Cells(new)[q] = NoFrame
                                     /\ \E v \in vas : Cells(old)[q] = old.pte[v]}
  <2>1. RootPlace \in S /\ <<"l1", 0>> \in S
    BY <1>6, CellValues, PlaceFacts
  <2>2. ASSUME NEW r \in Regions PROVE <<"l0", r>> \in S
    <3>1. /\ <<"l0", r>> \in Places
          /\ Cells(new)[<<"l0", r>>] = new.l0[r] /\ Cells(old)[<<"l0", r>>] = old.l0[r]
      BY CellValues, PlaceFacts
    <3> QED
      BY <1>6, <3>1
  <2>3. ASSUME NEW v \in Pages PROVE <<"pte", v>> \in S
    <3>1. /\ <<"pte", v>> \in Places
          /\ Cells(new)[<<"pte", v>>] = new.pte[v] /\ Cells(old)[<<"pte", v>>] = old.pte[v]
      BY CellValues, PlaceFacts
    <3> QED
      BY <1>6, <3>1
  <2>4. S \in SUBSET Places
    OBVIOUS
  <2> HIDE DEF S
  <2>5. S = Places
    BY <2>1, <2>2, <2>3, <2>4, ByKind
  <2> QED
    BY <2>5 DEF S
<1>12. \A v \in vas : /\ <<"pte", v>> \in Places
                      /\ C[current][<<"pte", v>>] = old.pte[v]
                      /\ D[current][<<"pte", v>>] = NoFrame
  <2> SUFFICES ASSUME NEW v \in vas
               PROVE  /\ <<"pte", v>> \in Places
                      /\ C[current][<<"pte", v>>] = old.pte[v]
                      /\ D[current][<<"pte", v>>] = NoFrame
    OBVIOUS
  <2>1. v \in Pages
    BY <1>4
  <2>2. /\ <<"pte", v>> \in Places
        /\ Cells(new)[<<"pte", v>>] = new.pte[v] /\ Cells(old)[<<"pte", v>>] = old.pte[v]
    BY <2>1, CellValues, PlaceFacts
  <2> QED
    BY <1>6, <1>10, <2>1, <2>2
<1>13. free' = free \cup Given(C, D)
  <2>1. ASSUME NEW v \in vas, old.pte[v] # NoFrame PROVE old.pte[v] \in Given(C, D)
    <3>1. old.pte[v] \in Frames
      BY <1>3, <1>4, <2>1 DEF Space, FrameOrNone
    <3> QED
      <4>1. /\ <<"pte", v>> \in Places /\ C[current][<<"pte", v>>] = old.pte[v]
            /\ D[current][<<"pte", v>>] # old.pte[v]
        BY <1>12, <2>1
      <4> QED
        BY <1>3, <3>1, <4>1 DEF Given
  <2>2. ASSUME NEW f \in Given(C, D) PROVE f # NoFrame /\ \E v \in vas : f = old.pte[v]
    <3>1. PICK s \in Slots, q \in Places : C[s][q] = f /\ D[s][q] # f
      BY DEF Given
    <3>2. s = current
      BY <1>10, <3>1
    <3> QED
      BY <1>10, <1>11, <3>1, <3>2, NoFrameFacts DEF Given
  <2> QED
    BY <1>5, <2>1, <2>2
<1>14. \A s \in Slots, q \in Places : D[s][q] = C[s][q] \/ D[s][q] = NoFrame
  BY <1>10, <1>11
<1>15. Owned(D, free') /\ (Full(C, free) => Full(D, free'))
  BY <1>2, <1>9, <1>13, <1>14, ReleaseOwned
<1>16. space'[current] = new
  BY <1>2, <1>3, <1>5
<1> QED
  BY <1>2, <1>6, <1>7, <1>8, <1>15, <1>16 DEF FrameInv, D, old

\* What exit and reaping free is what leaves the places: all of an exiting
\* process but its root table, and the root table of the process reaped.
LEMMA FreedFrames ==
  ASSUME IInv, FrameInv, NEW E \in SUBSET Slots, FreeOnExitAndReap(E),
         \A s \in Reaped : s \in E \/ slots[s].state = "Zombie",
         \A s \in E : slots'[s].state \in {"None", "Zombie"} /\ Occupied(s),
         \A s \in Slots \ (E \cup Reaped) :
            /\ Occupied(s)' <=> Occupied(s)
            /\ slots'[s].state = "Zombie" <=> slots[s].state = "Zombie"
  PROVE  /\ FrameInv'
         /\ \A s \in Slots \ Reaped : space'[s].root = space[s].root
<1> DEFINE C == TableOf(space)
           D == TableOf(space')
           RootOnly(s) == [NoSpace EXCEPT !.root = space[s].root]
<1>1. PICK R \in SUBSET Slots : R = Reaped
  BY DEF Reaped
<1>2. \A s \in R : Occupied(s) /\ ~Occupied(s)' /\ (s \in E \/ slots[s].state = "Zombie")
  BY <1>1 DEF Reaped, Occupied
<1>3. /\ free' = free \cup (UNION {UserFrames(space[s]) : s \in E}) \cup {space[c].root : c \in R}
      /\ space' = [s \in Slots |-> IF s \in R THEN NoSpace
                                   ELSE IF s \in E THEN RootOnly(s) ELSE space[s]]
      /\ UNCHANGED <<next_mmap, failed>>
  BY <1>1 DEF FreeOnExitAndReap
<1>4. /\ space \in [Slots -> Space] /\ free \in SUBSET Frames
      /\ Owned(C, free) /\ (~failed => Full(C, free))
  BY DEF FrameInv, MemType, Owned
<1>5. ASSUME NEW s \in Slots
      PROVE  /\ RootOnly(s) \in Space /\ RootOnly(s).root = space[s].root
             /\ \A q \in Places : Cells(RootOnly(s))[q] =
                    IF q = RootPlace THEN Cells(space[s])[q] ELSE NoFrame
  <2>1. space[s] \in Space /\ space[s].root \in FrameOrNone
    BY <1>4 DEF Space
  <2>2. RootOnly(s) \in Space /\ Cells(RootOnly(s)) = [NoCells EXCEPT ![RootPlace] = space[s].root]
    BY <2>1, NoSpaceFacts, SetRoot
  <2> HIDE DEF RootOnly
  <2>3. RootOnly(s).root = Cells(RootOnly(s))[RootPlace] /\ Cells(space[s])[RootPlace] = space[s].root
    BY <2>1, <2>2, CellsType
  <2> QED
    BY <2>2, <2>3, PlaceFacts DEF NoCells
<1> HIDE DEF RootOnly
<1>6. space' \in [Slots -> Space]
  BY <1>3, <1>4, <1>5, NoSpaceFacts
<1>7. /\ C \in Tables /\ D \in Tables
      /\ \A s \in Slots : C[s] = Cells(space[s]) /\ D[s] = Cells(space'[s])
  BY <1>4, <1>6, TableFacts
<1> HIDE DEF C, D
<1>8. \A s \in Slots, q \in Places :
        D[s][q] = IF s \in R \/ (s \in E /\ q # RootPlace) THEN NoFrame ELSE C[s][q]
  <2>1. \A q \in Places : Cells(NoSpace)[q] = NoFrame
    BY NoSpaceFacts DEF NoCells
  <2>2. ASSUME NEW s \in Slots, NEW q \in Places
        PROVE  D[s][q] = IF s \in R \/ (s \in E /\ q # RootPlace) THEN NoFrame ELSE C[s][q]
    <3>1. CASE s \in R
      BY <1>3, <1>7, <2>1, <3>1
    <3>2. CASE s \notin R /\ s \in E
      BY <1>3, <1>5, <1>7, <3>2
    <3>3. CASE s \notin R /\ s \notin E
      BY <1>3, <1>7, <3>3
    <3> QED
      BY <3>1, <3>2, <3>3
  <2> QED
    BY <2>2
<1>9. \A s \in Slots : /\ C[s][RootPlace] = space[s].root
                       /\ \A f : f \in UserFrames(space[s]) <=>
                            f # NoFrame /\ \E q \in Places \ {RootPlace} : C[s][q] = f
  <2>1. ASSUME NEW s \in Slots PROVE space[s] \in Space /\ C[s] = Cells(space[s])
    BY <1>4, <1>7
  <2>2. \A s \in Slots : C[s][RootPlace] = space[s].root
    BY <2>1, CellsType
  <2> QED
    BY <2>1, <2>2, UserFramesAre
<1>10. \A s \in Slots, q \in Places : C[s][q] \in FrameOrNone
  BY <1>7 DEF Tables
<1>11. free' = free \cup Given(C, D)
  <2>1. ASSUME NEW s \in E, NEW f \in UserFrames(space[s]) PROVE f \in Given(C, D)
    <3>1. s \in Slots
      OBVIOUS
    <3>2. PICK q \in Places \ {RootPlace} : C[s][q] = f /\ f # NoFrame
      BY <1>9, <2>1, <3>1
    <3>3. f \in Frames /\ D[s][q] # f
      BY <1>8, <1>10, <2>1, <3>1, <3>2 DEF FrameOrNone
    <3> QED
      BY <3>1, <3>2, <3>3 DEF Given
  <2>2. ASSUME NEW c \in R PROVE space[c].root \in Given(C, D)
    <3>1. c \in Slots /\ space[c].root # NoFrame
      BY <1>2 DEF FrameInv, SpaceInv
    <3>2. C[c][RootPlace] = space[c].root /\ D[c][RootPlace] = NoFrame /\ RootPlace \in Places
      BY <1>8, <1>9, <3>1, PlaceFacts
    <3>3. space[c].root \in Frames
      BY <1>10, <3>1, <3>2 DEF FrameOrNone
    <3> QED
      BY <3>1, <3>2, <3>3 DEF Given
  <2>3. ASSUME NEW f \in Given(C, D)
        PROVE  (\E s \in E : f \in UserFrames(space[s])) \/ \E c \in R : f = space[c].root
    <3>1. PICK s \in Slots, q \in Places : C[s][q] = f /\ D[s][q] # f /\ f \in Frames
      BY DEF Given
    <3>2. f # NoFrame
      BY <3>1, NoFrameFacts
    <3>3. s \in R \/ (s \in E /\ q # RootPlace)
      BY <1>8, <3>1
    <3>4. CASE s \in E /\ q # RootPlace
      BY <1>9, <3>1, <3>2, <3>4
    <3>5. CASE s \in R /\ q = RootPlace
      BY <1>9, <3>1, <3>5
    <3>6. CASE s \in R /\ s \notin E /\ q # RootPlace
      <4>1. slots[s].state = "Zombie"
        BY <1>2, <3>6
      <4>2. C[s][q] = NoFrame
        <5>1. \A p \in Places \ {RootPlace} : Cells(space[s])[p] = NoFrame
          BY <4>1 DEF FrameInv, SpaceInv
        <5> QED
          BY <1>7, <3>6, <5>1
      <4> QED
        BY <3>1, <3>2, <4>2
    <3> QED
      BY <3>3, <3>4, <3>5, <3>6
  <2> DEFINE U == UNION {UserFrames(space[s]) : s \in E}
             V == {space[c].root : c \in R}
  <2>4. \A f : f \in U <=> \E s \in E : f \in UserFrames(space[s])
    OBVIOUS
  <2>5. \A f : f \in V <=> \E c \in R : f = space[c].root
    OBVIOUS
  <2>6. free' = free \cup U \cup V
    BY <1>3
  <2> HIDE DEF U, V
  <2>7. U \subseteq Given(C, D) /\ V \subseteq Given(C, D)
    BY <2>1, <2>2, <2>4, <2>5
  <2>8. Given(C, D) \subseteq U \cup V
    BY <2>3, <2>4, <2>5
  <2> QED
    BY <2>6, <2>7, <2>8
<1>12. Owned(D, free') /\ (Full(C, free) => Full(D, free'))
  <2>1. \A s \in Slots, q \in Places : D[s][q] = C[s][q] \/ D[s][q] = NoFrame
    BY <1>8
  <2> QED
    BY <1>4, <1>7, <1>11, <2>1, ReleaseOwned
<1>13. MemType'
  BY <1>3, <1>6 DEF MemType, FrameInv
<1>14. \A s \in Slots \ R : space'[s].root = space[s].root
  BY <1>3, <1>5
<1>15. SpaceInv'
  <2> SUFFICES ASSUME NEW s \in Slots
               PROVE  /\ Occupied(s)' => space'[s].root # NoFrame
                      /\ ~Occupied(s)' => space'[s] = NoSpace
                      /\ slots'[s].state = "Zombie" =>
                            \A q \in Places \ {RootPlace} : Cells(space'[s])[q] = NoFrame
    BY DEF SpaceInv
  <2>1. CASE s \in R
    BY <1>2, <1>3, <2>1 DEF Occupied
  <2>2. CASE s \notin R /\ s \in E
    <3>1. Occupied(s) /\ slots'[s].state = "Zombie"
      BY <1>1, <2>2 DEF Reaped
    <3>2. space'[s].root # NoFrame
      BY <1>14, <2>2, <3>1 DEF FrameInv, SpaceInv
    <3>3. \A q \in Places \ {RootPlace} : Cells(space'[s])[q] = NoFrame
      BY <1>7, <1>8, <2>2
    <3> QED
      BY <3>1, <3>2, <3>3 DEF Occupied
  <2>3. CASE s \notin R /\ s \notin E
    <3>1. space'[s] = space[s]
      BY <1>3, <2>3
    <3> QED
      BY <1>1, <2>3, <3>1 DEF FrameInv, SpaceInv
  <2> QED
    BY <2>1, <2>2, <2>3
<1> QED
  BY <1>1, <1>3, <1>4, <1>12, <1>13, <1>14, <1>15 DEF FrameInv, D

\* exit and the kill after a fault.
LEMMA ExitGivesBack ==
  ASSUME IInv, FrameInv, ExitM
  PROVE  /\ FrameInv' /\ current \in Slots
         /\ slots'[current].state = "Zombie" => space'[current].root = space[current].root
<1>1. (Exit \/ UserFault) /\ FreeOnExitAndReap({current})
  BY DEF ExitM
<1>2. PICK code \in Int : exit_current(code)
  BY <1>1, ExitCodeKnown
<1>3. /\ current \in Slots /\ slots[current].state = "Running"
      /\ slots'[current] = NoProcess \/ slots'[current].state = "Zombie"
      /\ \A s \in Slots \ {current} :
            /\ Occupied(s)' <=> Occupied(s)
            /\ slots'[s].state = "Zombie" <=> slots[s].state = "Zombie"
  BY <1>2, ExitSlots
<1>4. Occupied(current) /\ slots'[current].state \in {"None", "Zombie"}
  BY <1>3, NoProcessFacts DEF Occupied
<1>5. Reaped \subseteq {current}
  BY <1>3 DEF Reaped, Occupied
<1>6. slots'[current].state = "Zombie" => current \notin Reaped
  BY DEF Reaped
<1>7. /\ FrameInv'
      /\ \A s \in Slots \ Reaped : space'[s].root = space[s].root
  BY <1>1, <1>3, <1>4, <1>5, FreedFrames
<1> QED
  BY <1>3, <1>6, <1>7

\* wait4 that reaps a zombie, and wait4 that does not.
LEMMA WaitGivesBack ==
  ASSUME IInv, FrameInv, Wait4M
  PROVE  /\ FrameInv' /\ current \in Slots
         /\ slots'[current].state # "None" /\ space'[current].root = space[current].root
<1>1. Wait4 /\ FreeOnExitAndReap({}) /\ InUser
  BY DEF Wait4M, Wait4
<1>2. current \in Slots /\ slots[current].state = "Running"
  BY <1>1, CallerFacts
<1>3. slots'[current].state \in {"SleepChild", "Ready"}
  BY <1>1, WaitOutcome
<1>4. \A s \in Slots : slots'[s] # slots[s] /\ s # current =>
            slots[s].state = "Zombie" /\ slots'[s] = NoProcess
  BY <1>1, WaitOutcome DEF ZombieChildren
<1>5. \A s \in Reaped : slots[s].state = "Zombie" /\ s # current
  BY <1>3, <1>4 DEF Reaped, Occupied
<1>6. \A s \in Slots \ Reaped : /\ Occupied(s)' <=> Occupied(s)
                                /\ slots'[s].state = "Zombie" <=> slots[s].state = "Zombie"
  BY <1>2, <1>3, <1>4, NoProcessFacts DEF Reaped, Occupied
<1>7. /\ FrameInv'
      /\ \A s \in Slots \ Reaped : space'[s].root = space[s].root
  BY <1>1, <1>5, <1>6, FreedFrames
<1> QED
  BY <1>2, <1>3, <1>5, <1>7

\* kinit: init's address space is built from the frames, all free.
LEMMA InitFrames == Init /\ MemInit => FrameInv
<1> SUFFICES ASSUME Init, MemInit PROVE FrameInv
  OBVIOUS
<1> DEFINE t == build_address_space(Frames)
           C == [s \in Slots |-> NoCells]
<1>1. /\ t.ok /\ free = t.free /\ failed = FALSE
      /\ space = [s \in Slots |-> IF s = 0 THEN t.sp ELSE NoSpace]
      /\ next_mmap = [s \in Slots |-> MMAP_BASE]
  BY DEF MemInit
<1>2. t \in Sound(NoCells, Frames)
  BY BuildSound
<1> HIDE DEF t
<1>3. t.sp \in Space /\ t.sp.root # NoFrame /\ Account(NoCells, Frames, Cells(t.sp), t.free, {})
  <2>1. /\ t.sp \in Space
        /\ \E H \in SUBSET Frames : /\ Account(NoCells, Frames, Cells(t.sp), t.free, H)
                                    /\ t.ok => H = {} /\ t.sp.root # NoFrame
    BY <1>2, FreshAttempt
  <2> QED
    BY <1>1, <2>1
<1>4. 0 \in Slots
  BY SlotFacts
<1>5. MemType
  <2>1. MMAP_BASE \in Nat
    BY MemoryAssumption DEF MemoryAssumption
  <2> QED
    BY <1>1, <1>3, <2>1, NoSpaceFacts DEF MemType
<1>6. C \in Tables /\ C[0] = NoCells /\ \A s \in Slots, q \in Places : C[s][q] = NoFrame
  BY <1>4 DEF Tables, NoCells, FrameOrNone
<1>7. TableOf(space) = [C EXCEPT ![0] = Cells(t.sp)]
  BY <1>1, <1>4, NoSpaceFacts DEF TableOf
<1> HIDE DEF C
<1>8. Owned(C, Frames) /\ Full(C, Frames)
  BY <1>6, NoFrameFacts DEF Owned, Full
<1>9. Owned([C EXCEPT ![0] = Cells(t.sp)], t.free) /\ Full([C EXCEPT ![0] = Cells(t.sp)], t.free)
  BY <1>3, <1>4, <1>6, <1>8, ReplaceOwned
<1>10. SpaceInv
  <2>1. slots[0].state = "Ready" /\ \A s \in Slots : s # 0 => slots[s].state = "None"
    BY <1>4 DEF Init, NewProcess, NoProcess
  <2> QED
    BY <1>1, <1>3, <1>4, <2>1 DEF SpaceInv, Occupied
<1> QED
  BY <1>1, <1>5, <1>7, <1>9, <1>10 DEF FrameInv
-----------------------------------------------------------------------------
(* The invariant. *)

\* A step of the kernel with its memory keeps the invariant of the table: the
\* calls that only memory knows of return a result and change nothing there.
LEMMA TableStep == IInv /\ (~strayed => FrameInv) /\ [MNext]_<<vars, memVars>> => IInv'
<1> SUFFICES ASSUME IInv, ~strayed => FrameInv, [MNext]_<<vars, memVars>> PROVE IInv'
  OBVIOUS
<1>1. ASSUME NEW r \in Int \ {NoResult}, InUser, Return(r),
             UNCHANGED <<slots, next_pid, last_run, rx>>
      PROVE  IInv'
  <2>1. rx' \in 0 .. rx
    BY <1>1 DEF IInv, TypeOK
  <2> QED
    BY <1>1, <2>1, ReturnInv
<1>2. ENOMEM \in Int \ {NoResult} /\ 0 \in Int \ {NoResult}
  BY DEF ENOMEM, NoResult
<1>3. CASE ExecFailsM \/ ExecBadImage
  BY <1>1, <1>2, <1>3 DEF ExecFailsM, ExecBadImage
<1>4. CASE Munmap
  BY <1>1, <1>2, <1>4 DEF Munmap
<1>5. CASE Mmap /\ ~strayed
  <2>1. PICK ok \in BOOLEAN : Return(IF ok THEN next_mmap[current] ELSE ENOMEM)
    <3>1. PICK n \in MmapPages :
            Return(IF MapNewPages(Attempt(free, space[current]),
                                  [i \in 1 .. n |-> next_mmap[current] + i - 1]).ok
                   THEN next_mmap[current] ELSE ENOMEM)
      BY <1>5 DEF Mmap
    <3> DEFINE ok == MapNewPages(Attempt(free, space[current]),
                                 [i \in 1 .. n |-> next_mmap[current] + i - 1]).ok
    <3>2. CASE ok
      BY <3>1, <3>2
    <3>3. CASE ~ok
      BY <3>1, <3>3
    <3> QED
      BY <3>2, <3>3
  <2>2. InUser /\ UNCHANGED <<slots, next_pid, last_run, rx>>
    BY <1>5 DEF Mmap
  <2>3. next_mmap[current] \in Nat
    BY <1>5, <2>2, CallerFacts DEF FrameInv, MemType
  <2>4. (IF ok THEN next_mmap[current] ELSE ENOMEM) \in Int \ {NoResult}
    BY <2>3 DEF ENOMEM, NoResult
  <2> QED
    BY <1>1, <2>1, <2>2, <2>4
<1>6. CASE UNCHANGED <<vars, memVars>>
  BY <1>6, StepInv
<1>7. CASE PickNextM \/ ForkOkM \/ ForkFailsM \/ ExecOkM \/ ExitM \/ Wait4M \/ OthersM
  <2>1. Next
    BY <1>7 DEF PickNextM, ForkOkM, ForkFailsM, ExecOkM, ExitM, Wait4M, OthersM,
                Next, Kernel, User
  <2> QED
    BY <2>1, StepInv
<1> QED
  BY <1>3, <1>4, <1>5, <1>6, <1>7 DEF MNext, KernelMapBroken

\* Every step keeps the frames accounted for, unless it leaves the user window.
LEMMA FrameStep ==
  ASSUME IInv, FrameInv, [MNext]_<<vars, memVars>>, ~strayed'
  PROVE  FrameInv'
<1>1. CASE PickNextM \/ OthersM \/ UNCHANGED <<vars, memVars>>
  <2>1. Steady /\ UNCHANGED <<free, space, next_mmap, failed>>
    BY <1>1 DEF PickNextM, OthersM, MemUnchanged, memVars, Steady, Kernel
  <2>2. \A s \in Slots : /\ Occupied(s)' <=> Occupied(s)
                         /\ slots'[s].state = "Zombie" <=> slots[s].state = "Zombie"
    BY <2>1, TreeKept
  <2> QED
    BY <2>1, <2>2, SameFrames
<1>2. CASE ForkOkM
  BY <1>2, ForkOkFrames
<1>3. CASE ForkFailsM
  BY <1>3, ForkFailsFrames
<1>4. CASE ExecOkM
  BY <1>4, ExecOkFrames
<1>5. CASE ExecFailsM \/ ExecBadImage
  BY <1>5, ExecFailsFrames
<1>6. CASE Mmap
  BY <1>6, MmapFrames
<1>7. CASE Munmap
  BY <1>7, MunmapFrames
<1>8. CASE ExitM
  BY <1>8, ExitGivesBack
<1>9. CASE Wait4M
  BY <1>9, WaitGivesBack
<1> QED
  BY <1>1, <1>2, <1>3, <1>4, <1>5, <1>6, <1>7, <1>8, <1>9 DEF MNext, KernelMapBroken

\* A call that keeps the hart on the root table of the caller.
LEMMA StaysOnRoot ==
  ASSUME IInv, IInv', SatpInv, InUser, UNCHANGED <<pc, current>>,
         satp' = space'[current].root
  PROVE  SatpInv'
<1>1. InUser' /\ current' \in Slots /\ slots'[current'].state = "Running"
  BY DEF IInv, HartInv, CurrentIsRunning, InUser
<1> QED
  BY <1>1 DEF SatpInv, Occupied

\* The scheduler and the idle loop run on the root table of an occupied slot,
\* or on one just freed while another process is ready.
LEMMA SatpStep ==
  ASSUME IInv, IInv', FrameInv, SatpInv, [MNext]_<<vars, memVars>>, ~strayed'
  PROVE  SatpInv'
<1>1. InUser => current \in Slots /\ Occupied(current) /\ satp = space[current].root
  BY CallerFacts DEF SatpInv
<1>2. InUser' => current' \in Slots /\ slots'[current'].state = "Running"
  BY DEF IInv, HartInv, CurrentIsRunning, InUser
<1>3. CASE PickNextM
  <2>1. InUser' /\ satp' = space'[current'].root
    BY <1>3 DEF PickNextM, PickNext, EnterUser, InUser
  <2> QED
    BY <1>2, <2>1 DEF SatpInv, Occupied
<1>4. CASE OthersM \/ UNCHANGED <<vars, memVars>>
  <2>1. Steady /\ UNCHANGED <<space, satp>>
    BY <1>4 DEF OthersM, MemUnchanged, memVars, Steady, Kernel
  <2>2. \A s \in Slots : Occupied(s)' <=> Occupied(s)
    BY <2>1, TreeKept
  <2>3. InUser' => InUser /\ UNCHANGED current
    BY <1>4 DEF OthersM, InUser, NothingRunnable, Wfi, Timer, TimerPreempt, TimerIdle,
      OtherSyscall, InitExits, Reboot, ReadBuffered, block_on_console, UartInterrupt,
      Halted, Return, GiveUpHart, ReturnToIdle, vars
  <2>4. InUser \/ pc # "sched" \/ ReadySlots = {} \/ UNCHANGED <<pc, slots>>
    BY <1>4 DEF OthersM, InUser, NothingRunnable, Wfi, Timer, TimerPreempt, TimerIdle,
      OtherSyscall, InitExits, Reboot, ReadBuffered, block_on_console, UartInterrupt,
      Halted, vars
  <2>5. ASSUME pc' # "sched" \/ ReadySlots' = {}
        PROVE  \E s \in Slots : Occupied(s) /\ satp = space[s].root
    <3>1. CASE InUser
      BY <1>1, <3>1
    <3>2. CASE ~InUser
      BY <2>4, <2>5, <3>2 DEF SatpInv, ReadySlots
    <3> QED
      BY <3>1, <3>2
  <2>6. ASSUME pc' # "sched" \/ ReadySlots' = {}
        PROVE  \E s \in Slots : Occupied(s)' /\ satp' = space'[s].root
    BY <2>1, <2>2, <2>5, <2>6
  <2> QED
    BY <1>1, <2>1, <2>3, <2>6 DEF SatpInv
<1>5. CASE ForkOkM
  <2> DEFINE t == clone_user_space(free, space[current])
  <2>1. /\ InUser /\ UNCHANGED <<pc, current, satp>> /\ space \in [Slots -> Space]
    BY <1>5 DEF ForkOkM, ForkOk, FrameInv, MemType
  <2>2. PICK s \in Slots : IsFirst(s, FreeSlots) /\ space' = [space EXCEPT ![s] = t.sp]
    BY <1>5 DEF ForkOkM
  <2>3. s # current
    BY <1>1, <2>1, <2>2 DEF IsFirst, FreeSlots
  <2>4. space'[current] = space[current]
    BY <1>1, <2>1, <2>2, <2>3
  <2> QED
    BY <1>1, <2>1, <2>4, StaysOnRoot
<1>6. CASE ForkFailsM \/ ExecFailsM \/ ExecBadImage
  <2>1. InUser /\ UNCHANGED <<pc, current, satp, space>>
    BY <1>6 DEF ForkFailsM, ForkFails, ExecFailsM, ExecBadImage, Return
  <2> QED
    BY <1>1, <2>1, StaysOnRoot
<1>7. CASE ExecOkM
  <2>1. InUser /\ UNCHANGED <<pc, current>> /\ satp' = build_address_space(free).sp.root
    BY <1>7 DEF ExecOkM, ExecOk, Return
  <2>2. space'[current] = build_address_space(free).sp
    <3>1. /\ current \in Slots /\ space \in [Slots -> Space]
          /\ space' = [space EXCEPT ![current] = build_address_space(free).sp]
      BY <1>7, ExecOkFrames DEF FrameInv, MemType
    <3> QED
      BY <3>1
  <2> QED
    BY <2>1, <2>2, StaysOnRoot
<1>8. CASE Mmap \/ Munmap
  <2>1. InUser /\ UNCHANGED <<pc, current, satp>>
    BY <1>8 DEF Mmap, Munmap, Return
  <2>2. space'[current].root = space[current].root
    BY <1>8, MmapFrames, MunmapFrames
  <2> QED
    BY <1>1, <2>1, <2>2, StaysOnRoot
<1>9. CASE ExitM
  <2>1. (Exit \/ UserFault) /\ UNCHANGED satp
    BY <1>9 DEF ExitM, FreeOnExitAndReap
  <2>2. PICK code \in Int : exit_current(code)
    BY <2>1, ExitCodeKnown
  <2>3. InUser /\ pc' = "sched"
    BY <2>2 DEF exit_current, GiveUpHart
  <2>4. \/ \E p \in Slots : slots'[p].state = "Ready"
        \/ slots'[current].state = "Zombie"
    BY <2>2, ExitOutcome
  <2>5. slots'[current].state = "Zombie" => satp' = space'[current].root
    BY <1>1, <1>9, <2>1, <2>3, ExitGivesBack
  <2> QED
    BY <1>1, <2>3, <2>4, <2>5 DEF SatpInv, InUser, ReadySlots, Occupied
<1>10. CASE Wait4M
  <2>1. InUser /\ pc' = "sched" /\ UNCHANGED satp
    BY <1>10 DEF Wait4M, Wait4, GiveUpHart, FreeOnExitAndReap
  <2>2. slots'[current].state # "None" /\ satp' = space'[current].root
    BY <1>1, <1>10, <2>1, WaitGivesBack
  <2> QED
    BY <1>1, <2>1, <2>2 DEF SatpInv, InUser, Occupied
<1> QED
  BY <1>3, <1>4, <1>5, <1>6, <1>7, <1>8, <1>9, <1>10 DEF MNext, KernelMapBroken

\* Initially the hart has not entered user mode and init is ready.
LEMMA InitSatp == Init => SatpInv
<1> SUFFICES ASSUME Init PROVE SatpInv
  OBVIOUS
<1>1. 0 \in Slots /\ slots[0].state = "Ready" /\ pc = "sched"
  BY SlotFacts DEF Init, NewProcess
<1> QED
  BY <1>1 DEF SatpInv, InUser, ReadySlots

\* In every reachable state the table is sound and, until a munmap leaves the
\* user window, every frame is in one place or free or lost, and satp names a
\* live root table when it must.
THEOREM MemoryInvariance == MSpec => [](IInv /\ (~strayed => MemInv))
<1>1. Init /\ MemInit => IInv /\ (~strayed => MemInv)
  BY InitInv, InitFrames, InitSatp DEF MemInv
<1>2. IInv /\ (~strayed => MemInv) /\ [MNext]_<<vars, memVars>>
        => (IInv /\ (~strayed => MemInv))'
  <2> SUFFICES ASSUME IInv, ~strayed => MemInv, [MNext]_<<vars, memVars>>
               PROVE  IInv' /\ (~strayed' => MemInv')
    OBVIOUS
  <2>1. IInv'
    BY TableStep DEF MemInv
  <2>2. ASSUME ~strayed' PROVE MemInv'
    <3>1. ~strayed
      BY <2>2 DEF MNext, KernelMapBroken, memVars
    <3>2. FrameInv /\ SatpInv
      BY <3>1 DEF MemInv
    <3>3. FrameInv'
      BY <2>2, <3>2, FrameStep
    <3>4. SatpInv'
      BY <2>1, <2>2, <3>2, SatpStep
    <3> QED
      BY <3>3, <3>4 DEF MemInv
  <2> QED
    BY <2>1, <2>2
<1> QED
  BY <1>1, <1>2, PTL DEF MSpec
-----------------------------------------------------------------------------
(* What the invariant means for the checked properties. *)

\* The uses of a frame are the places that hold it.
LEMMA UsesAre ==
  ASSUME FrameInv, NEW f
  PROVE  /\ \A u \in Uses(f) :
                /\ u[1] \in Slots /\ <<u[2], u[3]>> \in Places
                /\ TableOf(space)[u[1]][<<u[2], u[3]>>] = f
                /\ u = <<u[1], u[2], u[3]>>
         /\ \A s \in Slots, q \in Places : TableOf(space)[s][q] = f => <<s, q[1], q[2]>> \in Uses(f)
<1>1. \A s \in Slots : TableOf(space)[s] = Cells(space[s])
  BY TableFacts DEF FrameInv, MemType
<1>2. ASSUME NEW u \in Uses(f)
      PROVE  /\ u[1] \in Slots /\ <<u[2], u[3]>> \in Places
             /\ Cells(space[u[1]])[<<u[2], u[3]>>] = f
             /\ u = <<u[1], u[2], u[3]>>
  <2> DEFINE A == {v \in Slots \X {"root", "l1"} \X {0} :
                    f = IF v[2] = "root" THEN space[v[1]].root ELSE space[v[1]].l1}
             B == {v \in Slots \X {"l0"} \X Regions : space[v[1]].l0[v[3]] = f}
             P == {v \in Slots \X {"pte"} \X Pages : space[v[1]].pte[v[3]] = f}
  <2>1. u \in A \/ u \in B \/ u \in P
    BY DEF Uses
  <2>2. CASE u \in A
    BY <2>2 DEF Cells, Places
  <2>3. CASE u \in B
    BY <2>3 DEF Cells, Places
  <2>4. CASE u \in P
    BY <2>4 DEF Cells, Places
  <2> QED
    BY <2>1, <2>2, <2>3, <2>4
<1>3. ASSUME NEW s \in Slots, NEW q \in Places, Cells(space[s])[q] = f
      PROVE  <<s, q[1], q[2]>> \in Uses(f)
  BY <1>3 DEF Uses, Cells, Places
<1> QED
  BY <1>1, <1>2, <1>3

\* No two processes share a frame, and a frame in use is never free: through
\* every failure path of fork, exec and mmap, and through exit and reaping, no
\* frame is freed twice or handed out while it is mapped, until a munmap
\* reaches the kernel's own map.
THEOREM FramesOwnedOnce == MSpec => []OneOwner
<1>1. (~strayed => FrameInv) => OneOwner
  <2> SUFFICES ASSUME FrameInv, NEW f \in Frames
               PROVE  Cardinality(Uses(f)) + (IF f \in free THEN 1 ELSE 0) <= 1
    BY DEF OneOwner
  <2>1. Owned(TableOf(space), free) /\ f # NoFrame
    BY NoFrameFacts DEF FrameInv
  <2> DEFINE At(u) == <<u[2], u[3]>>
  <2>2. \A u \in Uses(f) : /\ u[1] \in Slots /\ At(u) \in Places
                           /\ TableOf(space)[u[1]][At(u)] = f
                           /\ u = <<u[1], u[2], u[3]>>
    BY UsesAre
  <2>3. f \in free => Uses(f) = {}
    <3> HIDE DEF At
    <3> QED
      BY <2>1, <2>2 DEF Owned
  <2>4. ASSUME NEW u \in Uses(f), NEW v \in Uses(f) PROVE u = v
    <3>1. u[1] = v[1] /\ At(u) = At(v)
      <4> HIDE DEF At
      <4> QED
        BY <2>1, <2>2 DEF Owned
    <3>2. u[1] = v[1] /\ u[2] = v[2] /\ u[3] = v[3]
      BY <3>1
    <3> QED
      BY <2>2, <3>2
  <2>5. CASE Uses(f) = {}
    BY <2>5, FS_EmptySet
  <2>6. CASE Uses(f) # {}
    <3>1. PICK u : Uses(f) = {u}
      BY <2>4, <2>6
    <3>2. Cardinality(Uses(f)) = 1
      BY <3>1, FS_Singleton
    <3> QED
      BY <2>3, <2>6, <3>2
  <2> QED
    BY <2>5, <2>6
<1> QED
  BY <1>1, MemoryInvariance, PTL DEF MemInv

\* As long as no exec, fork or mmap has failed and no munmap has reached the
\* kernel's own map, every frame is free or in use.
THEOREM NoFrameLost == MSpec => []NothingLost
<1>1. (~strayed => FrameInv) => NothingLost
  <2> SUFFICES ASSUME FrameInv, ~failed, NEW f \in Frames, f \notin free PROVE Uses(f) # {}
    BY DEF NothingLost, Lost
  <2>1. \E s \in Slots, q \in Places : TableOf(space)[s][q] = f
    BY DEF FrameInv, Full
  <2> QED
    BY <2>1, UsesAre
<1> QED
  BY <1>1, MemoryInvariance, PTL DEF MemInv

\* The hart never translates through a freed root table, but for the one step
\* of the scheduler that leaves it, until a munmap reaches the kernel's own map.
THEOREM RootStaysLive == MSpec => []ActiveRootLive
<1>1. (~strayed => MemInv) => ActiveRootLive
  <2> SUFFICES ASSUME MemInv PROVE ActiveRootLive
    BY DEF ActiveRootLive
  <2>1. InUser => satp = space[current].root
    BY DEF MemInv, SatpInv
  <2>2. ASSUME NEW s \in Slots, satp = space[s].root PROVE satp \notin free
    <3>1. TableOf(space)[s][RootPlace] = satp
      BY <2>2, TableFacts, CellsType DEF MemInv, FrameInv, MemType
    <3> QED
      BY <3>1, PlaceFacts DEF MemInv, FrameInv, Owned
  <2>3. satp \in free => pc = "sched" /\ ReadySlots # {}
    BY <2>2 DEF MemInv, SatpInv
  <2>4. pc \in {"idle", "wfi"} => \E s \in Slots : Occupied(s) /\ satp = space[s].root
    BY DEF MemInv, SatpInv
  <2> QED
    BY <2>1, <2>3, <2>4 DEF ActiveRootLive
<1> QED
  BY <1>1, MemoryInvariance, PTL

\* A fork that fails loses at most the one frame whose mapping failed, and the
\* parent's memory stays as it is.
THEOREM FailedForkLeaksOne == MSpec => FailedForkUndone
<1>1. IInv /\ (~strayed => MemInv) /\ [MNext]_<<vars, memVars>> =>
        [ForkFailsM => Cardinality(Lost') <= Cardinality(Lost) + 1]_<<vars, memVars>>
  <2> SUFFICES ASSUME MemInv, ForkFailsM
               PROVE  Cardinality(Lost') <= Cardinality(Lost) + 1
    BY DEF MNext, KernelMapBroken
  <2> DEFINE t == clone_user_space(free, space[current])
  <2>1. free \in SUBSET Frames
    BY DEF MemInv, FrameInv, Owned
  <2>2. t \in Sound(NoCells, free)
    BY <2>1, CloneSound
  <2>3. /\ UNCHANGED space
        /\ free' = IF FreeSlots = {} THEN free ELSE t.free \cup AllFrames(t.sp)
    BY DEF ForkFailsM
  <2> HIDE DEF t
  <2>4. PICK H \in SUBSET free : /\ \A x, y \in H : x = y
                                 /\ t.free \cup AllFrames(t.sp) = free \ H
    BY <2>1, <2>2, FreshAttempt
  <2>5. \A f : Uses(f)' = Uses(f)
    BY <2>3 DEF Uses
  <2>6. Lost' \subseteq Lost \cup H
    BY <2>3, <2>4, <2>5 DEF Lost
  <2>7. IsFiniteSet(Lost) /\ Cardinality(Lost) \in Nat
    <3>1. Lost \in SUBSET Frames /\ IsFiniteSet(Frames)
      BY MemoryAssumption DEF MemoryAssumption, Lost
    <3> QED
      BY <3>1, FS_Subset, FS_CardinalityType
  <2>8. \E x : Lost' \subseteq Lost \cup {x}
    BY <2>4, <2>6
  <2>9. PICK x : Lost' \subseteq Lost \cup {x}
    BY <2>8
  <2>10. IsFiniteSet(Lost \cup {x}) /\ Cardinality(Lost \cup {x}) <= Cardinality(Lost) + 1
    BY <2>7, FS_AddElement
  <2>11. Cardinality(Lost') <= Cardinality(Lost \cup {x})
    BY <2>9, <2>10, FS_Subset
  <2>12. Cardinality(Lost') \in Nat /\ Cardinality(Lost \cup {x}) \in Nat
    BY <2>9, <2>10, FS_Subset, FS_CardinalityType
  <2> QED
    BY <2>7, <2>10, <2>11, <2>12
<1> QED
  BY <1>1, MemoryInvariance, PTL DEF MSpec, FailedForkUndone

\* The calls that only the memory knows of leave the table alone; every other
\* step is a step of the table.
LEMMA TableOrMemory ==
  [MNext]_<<vars, memVars>> => [Next]_vars \/ UNCHANGED <<slots, next_pid>>
<1> SUFFICES ASSUME [MNext]_<<vars, memVars>>
             PROVE  [Next]_vars \/ UNCHANGED <<slots, next_pid>>
  OBVIOUS
<1>1. CASE ExecFailsM \/ ExecBadImage \/ Mmap \/ Munmap
  BY <1>1 DEF ExecFailsM, ExecBadImage, Mmap, Munmap
<1>2. CASE PickNextM \/ ForkOkM \/ ForkFailsM \/ ExecOkM \/ ExitM \/ Wait4M \/ OthersM
  BY <1>2 DEF PickNextM, ForkOkM, ForkFailsM, ExecOkM, ExitM, Wait4M, OthersM,
              Next, Kernel, User
<1> QED
  BY <1>1, <1>2 DEF MNext, KernelMapBroken, vars

\* The processes see the same tree when frames run out: an exec, a fork or an
\* mmap that fails half-way does nothing to the processes, for every number of
\* frames.
THEOREM MemoryImplementsTree == MSpec => ImplementsTree
<1>1. IInv /\ TreeInv /\ [MNext]_<<vars, memVars>> => TreeInv'
  <2> SUFFICES ASSUME IInv, TreeInv, [MNext]_<<vars, memVars>> PROVE TreeInv'
    OBVIOUS
  <2>1. CASE [Next]_vars
    BY <2>1, TreeInvStep
  <2>2. CASE UNCHANGED <<slots, next_pid>>
    BY <2>2 DEF TreeInv
  <2> QED
    BY <2>1, <2>2, TableOrMemory
<1>2. IInv /\ TreeInv /\ TreeReads /\ TreeReads' /\ [MNext]_<<vars, memVars>>
        => [Tree!Next]_<<[n \in Pids |-> StatusOf(n)], [n \in Pids |-> ParentOf(n)]>>
  <2> SUFFICES ASSUME IInv, TreeInv, TreeReads, TreeReads', [MNext]_<<vars, memVars>>
               PROVE  [Tree!Next]_<<[n \in Pids |-> StatusOf(n)], [n \in Pids |-> ParentOf(n)]>>
    OBVIOUS
  <2>1. CASE [Next]_vars
    BY <2>1, TreeStep
  <2>2. CASE UNCHANGED <<slots, next_pid>>
    BY <2>2 DEF StatusOf, ParentOf, SlotOf
  <2> QED
    BY <2>1, <2>2, TableOrMemory
<1> QED
  BY <1>1, <1>2, TreeInit, TreeIsRead, MemoryInvariance, PTL
  DEF MSpec, ImplementsTree, Tree!Spec, Tree!treeVars
=============================================================================
