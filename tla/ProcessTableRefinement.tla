----------------------- MODULE ProcessTableRefinement -----------------------
(***************************************************************************)
(* ProcessTable implements ProcessTree: slot indices, their reuse, the     *)
(* scheduler and the sleep/wake protocol are invisible in the pid tree.    *)
(***************************************************************************)
EXTENDS ProcessTable

Pids == 1 .. MaxPid

\* The slot of a process, if any; a free slot has pid 0.
SlotOf(n) == {s \in Slots : slots[s].pid = n}

\* A pid below next_pid that no slot holds has been reaped.
StatusOf(n) ==
    LET states == {slots[s].state : s \in SlotOf(n)}
    IN  IF states = {} THEN (IF n < next_pid THEN "reaped" ELSE "unborn")
        ELSE IF states = {"Zombie"} THEN "zombie"
        ELSE "live"

\* The pid found through the slot index stored as a process's parent.
ParentOf(n) ==
    LET parents == {slots[s].parent : s \in SlotOf(n)} \ {NO_PROC}
    IN  IF parents = {} THEN 0 ELSE slots[CHOOSE p \in parents : TRUE].pid

Tree == INSTANCE ProcessTree WITH
            status <- [n \in Pids |-> StatusOf(n)],
            parent <- [n \in Pids |-> ParentOf(n)]

\* The process table behaves like the pid tree: every kernel step forks, exits
\* or reaps as the tree allows, or leaves the tree as it is.
ImplementsTree == Tree!Spec
=============================================================================
