----------------------------- MODULE ProcessTree -----------------------------
(***************************************************************************)
(* What fork, exit and wait4 promise to processes, with no table, slots,   *)
(* scheduler or sleeping: a tree of pids rooted at init, in which a child  *)
(* is reported to exactly one wait4, that of its parent at that time.      *)
(***************************************************************************)
EXTENDS Naturals

CONSTANT Pids      \* 1 .. some bound; 1 is init

VARIABLES
    status,        \* what has become of each pid
    parent         \* parent of each pid present in the tree, else 0

treeVars == <<status, parent>>

Statuses == {"unborn", "live", "zombie", "reaped"}

Present(n) == status[n] \in {"live", "zombie"}

Init ==
    /\ status = [n \in Pids |-> IF n = 1 THEN "live" ELSE "unborn"]
    /\ parent = [n \in Pids |-> 0]

\* A live process gets a child; pids are handed out in increasing order and
\* never again.
Fork(c) ==
    /\ status[c] = "unborn" /\ \A d \in Pids : d < c => status[d] # "unborn"
    /\ status' = [status EXCEPT ![c] = "live"]
    /\ \E p \in Pids : status[p] = "live" /\ parent' = [parent EXCEPT ![c] = p]

\* Children of p go to init; p stays as a zombie, or is reaped on the spot by
\* a parent that is waiting for it.
Exit(p) ==
    /\ p # 1 /\ status[p] = "live"
    /\ \E fate \in {"zombie", "reaped"} :
        /\ status' = [status EXCEPT ![p] = fate]
        /\ parent' = [n \in Pids |-> IF parent[n] = p THEN 1
                                     ELSE IF n = p /\ fate = "reaped" THEN 0
                                     ELSE parent[n]]

\* A live parent collects its zombie child.
Reap(c) ==
    /\ status[c] = "zombie"
    /\ status' = [status EXCEPT ![c] = "reaped"]
    /\ status[parent[c]] = "live"
    /\ parent' = [parent EXCEPT ![c] = 0]

Next == \E n \in Pids : Fork(n) \/ Exit(n) \/ Reap(n)

Spec == Init /\ [][Next]_treeVars
=============================================================================
