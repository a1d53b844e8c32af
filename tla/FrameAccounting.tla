--------------------------- MODULE FrameAccounting ---------------------------
(***************************************************************************)
(* An account of page frames, for the proofs about ProcessMemory.  The     *)
(* places of an address space (root, tables, pages) are the domain of one  *)
(* function.  Each step of building a space moves one frame from the free  *)
(* ones to a place or to the caller's hand, so building one by exec, by a  *)
(* copy for fork or page by page for mmap loses at most the frame in hand, *)
(* for every set of frames, address space size, image and stack.           *)
(***************************************************************************)
EXTENDS ProcessMemory, WellFoundedInduction, TLAPS

FrameOrNone == Frames \cup {NoFrame}

\* Address spaces as records, and attempts at building one.
Space ==
    [root : FrameOrNone, l1 : FrameOrNone, l0 : [Regions -> FrameOrNone],
     pte : [Pages -> FrameOrNone]]
Attempts == [free : SUBSET Frames, sp : Space, ok : BOOLEAN]

\* The places of an address space that can hold a frame, and what they hold.
Places ==
    ({"root", "l1"} \X {0}) \cup ({"l0"} \X Regions) \cup ({"pte"} \X Pages)
RootPlace == <<"root", 0>>

Cells(sp) ==
    [q \in Places |->
        IF q[1] = "root" THEN sp.root
        ELSE IF q[1] = "l1" THEN sp.l1
        ELSE IF q[1] = "l0" THEN sp.l0[q[2]]
        ELSE sp.pte[q[2]]]
TableOf(spaces) == [s \in Slots |-> Cells(spaces[s])]

\* No frame is in two places or both in a place and free.
Owned(C, fr) ==
    /\ fr \subseteq Frames
    /\ \A s \in Slots, q \in Places : C[s][q] \notin fr
    /\ \A s, t \in Slots, q, p \in Places :
        C[s][q] # NoFrame /\ C[s][q] = C[t][p] => s = t /\ q = p

\* Every frame is free or in a place.
Full(C, fr) ==
    \A f \in Frames : f \in fr \/ \E s \in Slots, q \in Places : C[s][q] = f
-----------------------------------------------------------------------------
(* Loops. *)

\* A set of naturals that is not empty has a least element.
LEMMA LeastExists ==
  ASSUME NEW S \in SUBSET Nat, S # {}
  PROVE  \E x \in S : \A y \in S : x <= y
<1>1. PICK x \in S : \A y \in S : ~ (<<y, x>> \in OpToRel(<, Nat))
  BY NatLessThanWellFounded, WFMin
<1>2. \A y \in S : <<y, x>> \in Nat \X Nat
  OBVIOUS
<1>3. \A y \in S : ~ (y < x)
  BY <1>1, <1>2 DEF OpToRel
<1> QED
  BY <1>3

\* Counting up to L, the first number with a property is not reached by a step.
LEMMA CountUp ==
  ASSUME NEW L \in Nat, NEW Q \in SUBSET (0 .. L), 0 \in Q,
         \A n \in 1 .. L : n - 1 \in Q => n \in Q
  PROVE  Q = 0 .. L
<1> DEFINE out == (0 .. L) \ Q
<1>1. SUFFICES ASSUME out # {} PROVE FALSE
  OBVIOUS
<1>2. out \in SUBSET Nat
  OBVIOUS
<1>3. PICK n \in out : \A y \in out : n <= y
  <2> HIDE DEF out
  <2> QED
    BY <1>1, <1>2, LeastExists
<1>4. n \in 1 .. L /\ n - 1 \notin out
  BY <1>3
<1> QED
  BY <1>3, <1>4

\* f[n] is the value of a loop after n rounds of its body G, from t on.
IsLoop(f, t, L, G) == f[0] = t /\ \A n \in 1 .. L : f[n] = G[<<f[n - 1], n>>]

\* A loop whose body keeps its values in P can be run.
LEMMA LoopExists ==
  ASSUME NEW P, NEW t \in P, NEW L \in Nat, NEW G \in [P \X (1 .. L) -> P]
  PROVE  \E f \in [0 .. L -> P] : IsLoop(f, t, L, G)
<1> DEFINE Is(f, k) == f[0] = t /\ \A n \in 1 .. k : f[n] = G[<<f[n - 1], n>>]
           Q == {k \in 0 .. L : \E f \in [0 .. k -> P] : Is(f, k)}
<1>1. 0 \in Q
  <2>1. Is([n \in 0 .. 0 |-> t], 0) /\ [n \in 0 .. 0 |-> t] \in [0 .. 0 -> P]
    OBVIOUS
  <2>2. 0 \in 0 .. L
    OBVIOUS
  <2> HIDE DEF Is
  <2> QED
    BY <2>1, <2>2
<1>2. ASSUME NEW k \in 1 .. L, k - 1 \in Q PROVE k \in Q
  <2>1. PICK f \in [0 .. k - 1 -> P] : Is(f, k - 1)
    BY <1>2
  <2> DEFINE last == G[<<f[k - 1], k>>]
             g == [n \in 0 .. k |-> IF n = k THEN last ELSE f[n]]
  <2>2. last \in P
    <3>1. f[k - 1] \in P
      BY <1>2, <2>1
    <3> QED
      BY <3>1
  <2>3. g \in [0 .. k -> P] /\ g[0] = t /\ g[k] = last /\ \A n \in 0 .. k - 1 : g[n] = f[n]
    <3> HIDE DEF last
    <3> QED
      BY <2>1, <2>2
  <2> HIDE DEF g
  <2>4. ASSUME NEW n \in 1 .. k PROVE g[n] = G[<<g[n - 1], n>>]
    <3>1. CASE n = k
      <4>1. k - 1 \in 0 .. k - 1
        OBVIOUS
      <4>2. g[k - 1] = f[k - 1] /\ g[k] = G[<<f[k - 1], k>>]
        BY <2>3, <4>1
      <4> QED
        BY <3>1, <4>2
    <3>2. CASE n # k
      <4>1. n \in 1 .. k - 1 /\ n \in 0 .. k - 1 /\ n - 1 \in 0 .. k - 1
        BY <3>2
      <4> QED
        BY <2>1, <2>3, <4>1
    <3> QED
      BY <3>1, <3>2
  <2>5. Is(g, k)
    BY <2>3, <2>4
  <2>6. k \in 0 .. L
    OBVIOUS
  <2> QED
    BY <2>3, <2>5, <2>6
<1>3. Q = 0 .. L
  <2>1. Q \in SUBSET (0 .. L)
    OBVIOUS
  <2> HIDE DEF Q
  <2> QED
    BY <1>1, <1>2, <2>1, CountUp
<1>4. L \in 0 .. L
  OBVIOUS
<1> QED
  BY <1>3, <1>4 DEF IsLoop

\* What holds before a loop and is kept by its body holds after it.
LEMMA LoopKeeps ==
  ASSUME NEW P, NEW L \in Nat, NEW f, f[0] \in P,
         \A n \in 1 .. L : f[n - 1] \in P => f[n] \in P
  PROVE  f[L] \in P
<1> DEFINE Q == {n \in 0 .. L : f[n] \in P}
<1>1. Q \in SUBSET (0 .. L) /\ 0 \in Q
  OBVIOUS
<1>2. \A n \in 1 .. L : n - 1 \in Q => n \in Q
  OBVIOUS
<1>3. Q = 0 .. L
  <2> HIDE DEF Q
  <2> QED
    BY <1>1, <1>2, CountUp
<1> QED
  BY <1>3

\* Whatever set of attempts MapNewPage keeps, the loop over a list of pages keeps.
LEMMA MapNewPagesKeeps ==
  ASSUME NEW P, NEW t \in P, NEW vas \in Seq(Pages),
         \A a \in P, va \in Pages : MapNewPage(a, va) \in P
  PROVE  MapNewPages(t, vas) \in P
<1> DEFINE L == Len(vas)
           Body(g) == [n \in 0 .. L |-> IF n = 0 THEN t ELSE MapNewPage(g[n - 1], vas[n])]
           G == [x \in P \X (1 .. L) |-> MapNewPage(x[1], vas[x[2]])]
           m == CHOOSE g : g = Body(g)
<1>1. L \in Nat /\ \A n \in 1 .. L : vas[n] \in Pages
  OBVIOUS
<1>2. G \in [P \X (1 .. L) -> P]
  BY <1>1
<1>3. PICK f \in [0 .. L -> P] : IsLoop(f, t, L, G)
  <2> HIDE DEF G, L
  <2> QED
    BY <1>1, <1>2, LoopExists
<1>4. \A n \in 1 .. L : f[n] = MapNewPage(f[n - 1], vas[n])
  <2>1. \A n \in 1 .. L : f[n - 1] \in P
    BY <1>1
  <2> QED
    BY <1>3, <2>1 DEF IsLoop
<1>5. f = Body(f)
  <2> HIDE DEF L
  <2>1. \A n \in 0 .. L : f[n] = IF n = 0 THEN t ELSE MapNewPage(f[n - 1], vas[n])
    BY <1>1, <1>3, <1>4 DEF IsLoop
  <2> QED
    BY <2>1
<1>6. m = Body(m)
  BY <1>5
<1>7. MapNewPages(t, vas) = m[L]
  BY Zenon DEF MapNewPages
<1>8. m[0] = t /\ \A n \in 1 .. L : m[n] = MapNewPage(m[n - 1], vas[n])
  <2> HIDE DEF m, L
  <2> QED
    BY <1>1, <1>6
<1> HIDE DEF m, L
<1>9. m[L] \in P
  <2>1. m[0] \in P
    BY <1>8
  <2>2. \A n \in 1 .. L : m[n - 1] \in P => m[n] \in P
    BY <1>1, <1>8
  <2> QED
    BY <1>1, <2>1, <2>2, LoopKeeps, Zenon
<1> QED
  BY <1>7, <1>9

\* page_alloc(1) hands out a frame that was free.
LEMMA LowestIsFree ==
  ASSUME NEW t, t.free \in SUBSET Frames, t.free # {}
  PROVE  Lowest(t) \in t.free
<1>1. t.free \in SUBSET Nat
  BY MemoryAssumption DEF MemoryAssumption
<1> QED
  BY <1>1, LeastExists DEF Lowest, Min

\* Whatever new_user_root starts and MapNewPage keeps, the copy of a fork keeps.
LEMMA CloneKeeps ==
  ASSUME NEW P, NEW fr, NEW src, new_user_root(fr) \in P,
         \A a \in P, va \in Pages : MapNewPage(a, va) \in P
  PROVE  clone_user_space(fr, src) \in P
<1> DEFINE L == MaxVa + 1
           t == new_user_root(fr)
           Body(g) == [n \in 0 .. L |-> IF n = 0 THEN t ELSE CopyPage(g[n - 1], src, n - 1)]
           G == [x \in P \X (1 .. L) |-> CopyPage(x[1], src, x[2] - 1)]
           m == CHOOSE g : g = Body(g)
<1>1. L \in Nat /\ \A n \in 1 .. L : n - 1 \in Pages
  BY MemoryAssumption DEF MemoryAssumption, Pages
<1>2. \A a \in P, n \in 1 .. L : CopyPage(a, src, n - 1) \in P
  BY <1>1 DEF CopyPage
<1> HIDE DEF L, t
<1>3. G \in [P \X (1 .. L) -> P]
  BY <1>2
<1>4. PICK f \in [0 .. L -> P] : IsLoop(f, t, L, G)
  <2>1. t \in P
    BY DEF t
  <2> HIDE DEF G
  <2> QED
    BY <1>1, <1>3, <2>1, LoopExists
<1>5. \A n \in 1 .. L : f[n] = CopyPage(f[n - 1], src, n - 1)
  <2>1. \A n \in 1 .. L : f[n - 1] \in P
    BY <1>1
  <2> QED
    BY <1>4, <2>1 DEF IsLoop
<1>6. f = Body(f)
  <2>1. \A n \in 0 .. L : f[n] = IF n = 0 THEN t ELSE CopyPage(f[n - 1], src, n - 1)
    BY <1>1, <1>4, <1>5 DEF IsLoop
  <2> QED
    BY <2>1
<1>7. m = Body(m)
  BY <1>6
<1>8. clone_user_space(fr, src) = m[L]
  BY Zenon DEF clone_user_space, L, t
<1>9. m[0] = t /\ \A n \in 1 .. L : m[n] = CopyPage(m[n - 1], src, n - 1)
  <2> HIDE DEF m
  <2> QED
    BY <1>1, <1>7
<1> HIDE DEF m
<1>10. m[L] \in P
  <2>1. m[0] \in P
    BY <1>9 DEF t
  <2>2. \A n \in 1 .. L : m[n - 1] \in P => m[n] \in P
    BY <1>2, <1>9
  <2> QED
    BY <1>1, <2>1, <2>2, LoopKeeps, Zenon
<1> QED
  BY <1>8, <1>10
-----------------------------------------------------------------------------
(* Accounting for frames while an address space is built. *)

\* From places c0 and free frames F0, the frames of F0 are free (fr), in a place
\* (c) or held outside the tree (H), each of them once; no place is overwritten.
Account(c0, F0, c, fr, H) ==
    /\ c \in [Places -> FrameOrNone]
    /\ fr \subseteq F0 /\ H \subseteq F0 /\ fr \cap H = {}
    /\ \A q \in Places : c0[q] # NoFrame => c[q] = c0[q]
    /\ \A q \in Places : c[q] # c0[q] => c[q] \in F0
    /\ \A q \in Places : c[q] \notin fr \cup H
    /\ \A p, q \in Places : c[p] # NoFrame /\ c[p] = c[q] => p = q
    /\ \A f \in F0 : f \in fr \cup H \/ \E q \in Places : c[q] = f

\* page_alloc(1): the frame leaves the free ones and is held.
LEMMA TakeKeeps ==
  ASSUME NEW c0, NEW F0 \in SUBSET Frames, NEW c, NEW fr, NEW H,
         Account(c0, F0, c, fr, H), NEW x \in fr
  PROVE  Account(c0, F0, c, fr \ {x}, H \cup {x})
BY DEF Account

\* A held frame is linked into an empty place.
LEMMA LinkKeeps ==
  ASSUME NEW c0, NEW F0 \in SUBSET Frames, NEW c, NEW fr, NEW H,
         Account(c0, F0, c, fr, H), NEW x \in H, NEW q \in Places, c[q] = NoFrame
  PROVE  Account(c0, F0, [c EXCEPT ![q] = x], fr, H \ {x})
<1> DEFINE d == [c EXCEPT ![q] = x]
<1>1. NoFrame \notin Frames /\ x \in Frames /\ x # NoFrame
  BY MemoryAssumption DEF MemoryAssumption, NoFrame, Account
<1>2. /\ d \in [Places -> FrameOrNone] /\ d[q] = x
      /\ \A p \in Places : p # q => d[p] = c[p]
  BY <1>1 DEF Account, FrameOrNone
<1> HIDE DEF d
<1>3. \A p \in Places : c0[p] # NoFrame => d[p] = c0[p]
  BY <1>2 DEF Account
<1>4. \A p \in Places : d[p] # c0[p] => d[p] \in F0
  BY <1>2 DEF Account
<1>5. \A p \in Places : d[p] \notin fr \cup (H \ {x})
  BY <1>2 DEF Account
<1>6. \A p, r \in Places : d[p] # NoFrame /\ d[p] = d[r] => p = r
  BY <1>2 DEF Account
<1>7. \A f \in F0 : f \in fr \cup (H \ {x}) \/ \E p \in Places : d[p] = f
  <2>1. \A p \in Places : c[p] # NoFrame => d[p] = c[p]
    BY <1>2
  <2>2. \A f \in F0 : f # NoFrame
    BY <1>1
  <2> QED
    BY <1>2, <2>1, <2>2 DEF Account
<1> QED
  BY <1>2, <1>3, <1>4, <1>5, <1>6, <1>7 DEF Account, d

\* PageTable::walk allocates a table and links it at once.
LEMMA TakeAndLinkKeeps ==
  ASSUME NEW c0, NEW F0 \in SUBSET Frames, NEW c, NEW fr, NEW H,
         Account(c0, F0, c, fr, H), NEW x \in fr, NEW q \in Places, c[q] = NoFrame
  PROVE  Account(c0, F0, [c EXCEPT ![q] = x], fr \ {x}, H)
<1>1. Account(c0, F0, c, fr \ {x}, H \cup {x})
  BY TakeKeeps
<1>2. Account(c0, F0, [c EXCEPT ![q] = x], fr \ {x}, (H \cup {x}) \ {x})
  <2>1. x \in H \cup {x}
    OBVIOUS
  <2> QED
    BY <1>1, <2>1, LinkKeeps, Zenon
<1>3. (H \cup {x}) \ {x} = H
  BY DEF Account
<1> QED
  BY <1>2, <1>3
-----------------------------------------------------------------------------
(* The steps of building an address space. *)

\* The cells of the empty address space.
NoCells == [q \in Places |-> NoFrame]

\* The places are the ones a record of type Space has fields for.
LEMMA PlaceFacts ==
  /\ RootPlace \in Places /\ <<"l1", 0>> \in Places
  /\ \A r \in Regions : <<"l0", r>> \in Places
  /\ \A va \in Pages : <<"pte", va>> \in Places /\ va \div RegionSize \in Regions
BY DEF Places, RootPlace, Regions

\* Each place holds a frame or nothing.
LEMMA CellsType ==
  ASSUME NEW sp \in Space
  PROVE  Cells(sp) \in [Places -> FrameOrNone] /\ Cells(sp)[RootPlace] = sp.root
BY DEF Cells, Places, Space, RootPlace

\* The empty address space.
LEMMA NoSpaceFacts == NoSpace \in Space /\ Cells(NoSpace) = NoCells
BY DEF NoSpace, Space, FrameOrNone, Cells, NoCells, Places

\* The value of each kind of place.
LEMMA CellValues ==
  ASSUME NEW sp
  PROVE  /\ Cells(sp)[RootPlace] = sp.root
         /\ Cells(sp)[<<"l1", 0>>] = sp.l1
         /\ \A r \in Regions : Cells(sp)[<<"l0", r>>] = sp.l0[r]
         /\ \A va \in Pages : Cells(sp)[<<"pte", va>>] = sp.pte[va]
BY PlaceFacts DEF Cells, RootPlace

\* A property of all places, by their kinds.
LEMMA ByKind ==
  ASSUME NEW S \in SUBSET Places, RootPlace \in S, <<"l1", 0>> \in S,
         \A r \in Regions : <<"l0", r>> \in S,
         \A va \in Pages : <<"pte", va>> \in S
  PROVE  S = Places
BY DEF Places, RootPlace

\* Two address spaces that differ in one place.
LEMMA OnePlace ==
  ASSUME NEW sp \in Space, NEW new \in Space, NEW q \in Places, NEW x,
         Cells(new)[q] = x,
         \A p \in Places : p # q => Cells(new)[p] = Cells(sp)[p]
  PROVE  Cells(new) = [Cells(sp) EXCEPT ![q] = x]
<1>1. Cells(new) \in [Places -> FrameOrNone] /\ Cells(sp) \in [Places -> FrameOrNone]
  BY CellsType
<1> QED
  BY <1>1

\* new_user_root: the root table is linked.
LEMMA SetRoot ==
  ASSUME NEW sp \in Space, NEW x \in FrameOrNone
  PROVE  LET new == [sp EXCEPT !.root = x]
         IN  /\ new \in Space
             /\ Cells(new) = [Cells(sp) EXCEPT ![RootPlace] = x]
<1> DEFINE new == [sp EXCEPT !.root = x]
           S == {p \in Places : p # RootPlace => Cells(new)[p] = Cells(sp)[p]}
<1>1. /\ new \in Space /\ new.root = x
      /\ new.l1 = sp.l1 /\ new.l0 = sp.l0 /\ new.pte = sp.pte
  BY DEF Space
<1> HIDE DEF new
<1>2. S = Places
  <2>1. RootPlace \in S /\ <<"l1", 0>> \in S
    BY <1>1, PlaceFacts, CellValues DEF RootPlace
  <2>2. ASSUME NEW k \in Regions PROVE <<"l0", k>> \in S
    BY <1>1, PlaceFacts, CellValues DEF Space
  <2>3. ASSUME NEW v \in Pages PROVE <<"pte", v>> \in S
    BY <1>1, PlaceFacts, CellValues DEF Space
  <2>4. S \in SUBSET Places
    OBVIOUS
  <2> HIDE DEF S
  <2> QED
    BY <2>1, <2>2, <2>3, <2>4, ByKind
<1>3. Cells(new)[RootPlace] = x
  BY <1>1, CellValues DEF Space
<1>4. Cells(new) = [Cells(sp) EXCEPT ![RootPlace] = x]
  BY <1>1, <1>2, <1>3, PlaceFacts, OnePlace
<1> QED
  BY <1>1, <1>4 DEF new

\* PageTable::walk: the level-1 table is linked.
LEMMA SetL1 ==
  ASSUME NEW sp \in Space, NEW x \in FrameOrNone
  PROVE  LET new == [sp EXCEPT !.l1 = x]
         IN  /\ new \in Space /\ new.root = sp.root
             /\ Cells(new) = [Cells(sp) EXCEPT ![<<"l1", 0>>] = x]
<1> DEFINE new == [sp EXCEPT !.l1 = x]
           S == {p \in Places : p # <<"l1", 0>> => Cells(new)[p] = Cells(sp)[p]}
<1>1. /\ new \in Space /\ new.l1 = x
      /\ new.root = sp.root /\ new.l0 = sp.l0 /\ new.pte = sp.pte
  BY DEF Space
<1> HIDE DEF new
<1>2. S = Places
  <2>1. RootPlace \in S /\ <<"l1", 0>> \in S
    BY <1>1, PlaceFacts, CellValues DEF RootPlace
  <2>2. ASSUME NEW k \in Regions PROVE <<"l0", k>> \in S
    BY <1>1, PlaceFacts, CellValues DEF Space
  <2>3. ASSUME NEW v \in Pages PROVE <<"pte", v>> \in S
    BY <1>1, PlaceFacts, CellValues DEF Space
  <2>4. S \in SUBSET Places
    OBVIOUS
  <2> HIDE DEF S
  <2> QED
    BY <2>1, <2>2, <2>3, <2>4, ByKind
<1>3. Cells(new)[<<"l1", 0>>] = x
  BY <1>1, CellValues DEF Space
<1>4. Cells(new) = [Cells(sp) EXCEPT ![<<"l1", 0>>] = x]
  BY <1>1, <1>2, <1>3, PlaceFacts, OnePlace
<1> QED
  BY <1>1, <1>4 DEF new

\* PageTable::walk: a level-0 table is linked.
LEMMA SetL0 ==
  ASSUME NEW sp \in Space, NEW r \in Regions, NEW x \in FrameOrNone
  PROVE  LET new == [sp EXCEPT !.l0[r] = x]
         IN  /\ new \in Space /\ new.root = sp.root
             /\ Cells(new) = [Cells(sp) EXCEPT ![<<"l0", r>>] = x]
<1> DEFINE new == [sp EXCEPT !.l0[r] = x]
           S == {p \in Places : p # <<"l0", r>> => Cells(new)[p] = Cells(sp)[p]}
<1>1. /\ new \in Space /\ new.l0 = [sp.l0 EXCEPT ![r] = x]
      /\ new.root = sp.root /\ new.l1 = sp.l1 /\ new.pte = sp.pte
  BY DEF Space
<1> HIDE DEF new
<1>2. S = Places
  <2>1. RootPlace \in S /\ <<"l1", 0>> \in S
    BY <1>1, PlaceFacts, CellValues DEF RootPlace
  <2>2. ASSUME NEW k \in Regions PROVE <<"l0", k>> \in S
    BY <1>1, PlaceFacts, CellValues DEF Space
  <2>3. ASSUME NEW v \in Pages PROVE <<"pte", v>> \in S
    BY <1>1, PlaceFacts, CellValues DEF Space
  <2>4. S \in SUBSET Places
    OBVIOUS
  <2> HIDE DEF S
  <2> QED
    BY <2>1, <2>2, <2>3, <2>4, ByKind
<1>3. Cells(new)[<<"l0", r>>] = x
  BY <1>1, CellValues DEF Space
<1>4. Cells(new) = [Cells(sp) EXCEPT ![<<"l0", r>>] = x]
  BY <1>1, <1>2, <1>3, PlaceFacts, OnePlace
<1> QED
  BY <1>1, <1>4 DEF new

\* PageTable::map: a page is linked.
LEMMA SetPte ==
  ASSUME NEW sp \in Space, NEW va \in Pages, NEW x \in FrameOrNone
  PROVE  LET new == [sp EXCEPT !.pte[va] = x]
         IN  /\ new \in Space /\ new.root = sp.root
             /\ Cells(new) = [Cells(sp) EXCEPT ![<<"pte", va>>] = x]
<1> DEFINE new == [sp EXCEPT !.pte[va] = x]
           S == {p \in Places : p # <<"pte", va>> => Cells(new)[p] = Cells(sp)[p]}
<1>1. /\ new \in Space /\ new.pte = [sp.pte EXCEPT ![va] = x]
      /\ new.root = sp.root /\ new.l1 = sp.l1 /\ new.l0 = sp.l0
  BY DEF Space
<1> HIDE DEF new
<1>2. S = Places
  <2>1. RootPlace \in S /\ <<"l1", 0>> \in S
    BY <1>1, PlaceFacts, CellValues DEF RootPlace
  <2>2. ASSUME NEW k \in Regions PROVE <<"l0", k>> \in S
    BY <1>1, PlaceFacts, CellValues DEF Space
  <2>3. ASSUME NEW v \in Pages PROVE <<"pte", v>> \in S
    BY <1>1, PlaceFacts, CellValues DEF Space
  <2>4. S \in SUBSET Places
    OBVIOUS
  <2> HIDE DEF S
  <2> QED
    BY <2>1, <2>2, <2>3, <2>4, ByKind
<1>3. Cells(new)[<<"pte", va>>] = x
  BY <1>1, CellValues DEF Space
<1>4. Cells(new) = [Cells(sp) EXCEPT ![<<"pte", va>>] = x]
  BY <1>1, <1>2, <1>3, PlaceFacts, OnePlace
<1> QED
  BY <1>1, <1>4 DEF new

\* Attempts that account for every frame while frame x is held, its walk not
\* finished; and between two pages, when at most the frame of a failure is held.
Holding(c0, F0, x) ==
    {t \in Attempts :
        Account(c0, F0, Cells(t.sp), t.free, {x}) /\ t.sp.root # NoFrame}

Sound(c0, F0) ==
    {t \in Attempts :
        \E H \in SUBSET Frames :
            /\ Account(c0, F0, Cells(t.sp), t.free, H)
            /\ t.ok => H = {} /\ t.sp.root # NoFrame
            /\ \A x, y \in H : x = y}

\* The fields of an attempt after an allocation and after a failure.
LEMMA AttemptFacts ==
  ASSUME NEW t \in Attempts
  PROVE  /\ Fail(t) \in Attempts /\ Fail(t).free = t.free /\ Fail(t).sp = t.sp
         /\ ~Fail(t).ok
         /\ Taken(t) \in Attempts /\ Taken(t).free = t.free \ {Lowest(t)}
         /\ Taken(t).sp = t.sp /\ Taken(t).ok = t.ok
BY DEF Attempts, Fail, Taken

\* Setting the space of an attempt.
LEMMA LinkFacts ==
  ASSUME NEW t \in Attempts, NEW new \in Space
  PROVE  LET u == [t EXCEPT !.sp = new]
         IN  u \in Attempts /\ u.free = t.free /\ u.sp = new /\ u.ok = t.ok
BY DEF Attempts

\* The walk to the level-1 table keeps the account, whether or not it fails.
LEMMA WalkL1Keeps ==
  ASSUME NEW c0, NEW F0 \in SUBSET Frames, NEW x, NEW t \in Holding(c0, F0, x)
  PROVE  WalkL1(t) \in Holding(c0, F0, x)
<1>1. /\ t \in Attempts /\ t.sp \in Space /\ t.sp.root # NoFrame
      /\ t.free \in SUBSET Frames
      /\ Account(c0, F0, Cells(t.sp), t.free, {x})
  BY DEF Holding, Attempts
<1>2. CASE t.sp.l1 # NoFrame
  BY <1>2 DEF WalkL1
<1>3. CASE t.sp.l1 = NoFrame /\ t.free = {}
  <2>1. WalkL1(t) = Fail(t)
    BY <1>3 DEF WalkL1
  <2> QED
    BY <1>1, <2>1, AttemptFacts DEF Holding
<1>4. CASE t.sp.l1 = NoFrame /\ t.free # {}
  <2> DEFINE y == Lowest(t)
             new == [t.sp EXCEPT !.l1 = y]
             u == [Taken(t) EXCEPT !.sp = new]
  <2>1. y \in t.free /\ y \in FrameOrNone
    BY <1>1, <1>4, LowestIsFree DEF FrameOrNone
  <2>2. WalkL1(t) = u
    BY <1>1, <1>4, AttemptFacts DEF WalkL1, Attempts
  <2>3. new \in Space /\ new.root = t.sp.root /\ Cells(new) = [Cells(t.sp) EXCEPT ![<<"l1", 0>>] = y]
    BY <1>1, <2>1, SetL1
  <2>4. u \in Attempts /\ u.free = t.free \ {y} /\ u.sp = new
    <3> HIDE DEF new, y
    <3> QED
      BY <1>1, <2>3, AttemptFacts, LinkFacts DEF y
  <2>5. Account(c0, F0, [Cells(t.sp) EXCEPT ![<<"l1", 0>>] = y], t.free \ {y}, {x})
    <3>1. Cells(t.sp)[<<"l1", 0>>] = NoFrame
      BY <1>4, CellValues
    <3> HIDE DEF y
    <3> QED
      BY <1>1, <2>1, <3>1, PlaceFacts, TakeAndLinkKeeps
  <2> QED
    BY <1>1, <2>2, <2>3, <2>4, <2>5 DEF Holding
<1> QED
  BY <1>2, <1>3, <1>4

\* So does the walk to the level-0 table of a region.
LEMMA WalkL0Keeps ==
  ASSUME NEW c0, NEW F0 \in SUBSET Frames, NEW x, NEW t \in Holding(c0, F0, x),
         NEW r \in Regions
  PROVE  WalkL0(t, r) \in Holding(c0, F0, x)
<1>1. /\ t \in Attempts /\ t.sp \in Space /\ t.sp.root # NoFrame
      /\ t.free \in SUBSET Frames
      /\ Account(c0, F0, Cells(t.sp), t.free, {x})
  BY DEF Holding, Attempts
<1>2. CASE ~t.ok \/ t.sp.l0[r] # NoFrame
  BY <1>2 DEF WalkL0
<1>3. CASE t.ok /\ t.sp.l0[r] = NoFrame /\ t.free = {}
  <2>1. WalkL0(t, r) = Fail(t)
    BY <1>3 DEF WalkL0
  <2> QED
    BY <1>1, <2>1, AttemptFacts DEF Holding
<1>4. CASE t.ok /\ t.sp.l0[r] = NoFrame /\ t.free # {}
  <2> DEFINE y == Lowest(t)
             new == [t.sp EXCEPT !.l0[r] = y]
             u == [Taken(t) EXCEPT !.sp = new]
  <2>1. y \in t.free /\ y \in FrameOrNone
    BY <1>1, <1>4, LowestIsFree DEF FrameOrNone
  <2>2. WalkL0(t, r) = u
    BY <1>1, <1>4, AttemptFacts DEF WalkL0, Attempts
  <2>3. new \in Space /\ new.root = t.sp.root /\ Cells(new) = [Cells(t.sp) EXCEPT ![<<"l0", r>>] = y]
    BY <1>1, <2>1, SetL0
  <2>4. u \in Attempts /\ u.free = t.free \ {y} /\ u.sp = new
    <3> HIDE DEF new, y
    <3> QED
      BY <1>1, <2>3, AttemptFacts, LinkFacts DEF y
  <2>5. Account(c0, F0, [Cells(t.sp) EXCEPT ![<<"l0", r>>] = y], t.free \ {y}, {x})
    <3>1. Cells(t.sp)[<<"l0", r>>] = NoFrame
      BY <1>4, CellValues
    <3> HIDE DEF y
    <3> QED
      BY <1>1, <2>1, <3>1, PlaceFacts, TakeAndLinkKeeps
  <2> QED
    BY <1>1, <2>2, <2>3, <2>4, <2>5 DEF Holding
<1> QED
  BY <1>2, <1>3, <1>4

\* Mapping a new page keeps the account: the page frame ends in its place, or
\* is the one frame held outside the tree after a failure.
LEMMA MapNewPageKeeps ==
  ASSUME NEW c0, NEW F0 \in SUBSET Frames, NEW t \in Sound(c0, F0), NEW va \in Pages
  PROVE  MapNewPage(t, va) \in Sound(c0, F0)
<1>1. t \in Attempts /\ t.sp \in Space /\ t.free \in SUBSET Frames
  BY DEF Sound, Attempts
<1>2. PICK H \in SUBSET Frames :
        /\ Account(c0, F0, Cells(t.sp), t.free, H)
        /\ t.ok => H = {} /\ t.sp.root # NoFrame
        /\ \A x, y \in H : x = y
  BY DEF Sound
<1>3. CASE ~t.ok \/ t.free = {}
  <2>1. MapNewPage(t, va) = Fail(t)
    BY <1>3 DEF MapNewPage
  <2> QED
    BY <1>1, <1>2, <2>1, AttemptFacts DEF Sound
<1>4. CASE t.ok /\ t.free # {}
  <2> DEFINE x == Lowest(t)
             v == Taken(t)
             w == WalkL0(WalkL1(v), va \div RegionSize)
             new == [w.sp EXCEPT !.pte[va] = x]
             u == [w EXCEPT !.sp = new]
  <2>1. x \in t.free /\ x \in Frames /\ x \in FrameOrNone
    BY <1>1, <1>4, LowestIsFree DEF FrameOrNone
  <2>2. v \in Holding(c0, F0, x)
    <3>1. v \in Attempts /\ v.free = t.free \ {x} /\ v.sp = t.sp
      BY <1>1, AttemptFacts
    <3>2. Account(c0, F0, Cells(t.sp), t.free \ {x}, {} \cup {x})
      BY <1>2, <1>4, <2>1, TakeKeeps
    <3>3. {} \cup {x} = {x}
      OBVIOUS
    <3> HIDE DEF v, x
    <3> QED
      BY <1>2, <1>4, <3>1, <3>2, <3>3 DEF Holding
  <2>3. w \in Holding(c0, F0, x)
    <3>1. va \div RegionSize \in Regions
      BY PlaceFacts
    <3> HIDE DEF v, x
    <3> QED
      BY <2>2, <3>1, WalkL1Keeps, WalkL0Keeps
  <2>4. /\ w \in Attempts /\ w.sp \in Space /\ w.sp.root # NoFrame
        /\ Account(c0, F0, Cells(w.sp), w.free, {x})
    BY <2>3 DEF Holding, Attempts
  <2>5. MapNewPage(t, va) = IF ~w.ok \/ w.sp.pte[va] # NoFrame THEN Fail(w) ELSE u
    <3>1. MapNewPage(t, va) = IF ~w.ok \/ w.sp.pte[va] # NoFrame THEN Fail(w)
                              ELSE [w EXCEPT !.sp.pte[va] = x]
      BY <1>4 DEF MapNewPage
    <3>2. [w EXCEPT !.sp.pte[va] = x] = u
      <4> HIDE DEF w, x
      <4> QED
        BY <2>4 DEF Attempts
    <3> QED
      BY <3>1, <3>2
  <2> HIDE DEF x, v, w
  <2>6. CASE ~w.ok \/ w.sp.pte[va] # NoFrame
    <3>1. MapNewPage(t, va) = Fail(w)
      BY <2>5, <2>6
    <3>2. \A y, z \in {x} : y = z
      OBVIOUS
    <3> QED
      BY <2>1, <2>4, <3>1, <3>2, AttemptFacts DEF Sound
  <2>7. CASE w.ok /\ w.sp.pte[va] = NoFrame
    <3>1. new \in Space /\ new.root = w.sp.root /\ Cells(new) = [Cells(w.sp) EXCEPT ![<<"pte", va>>] = x]
      BY <2>1, <2>4, SetPte
    <3> HIDE DEF new
    <3>2. u \in Attempts /\ u.free = w.free /\ u.sp = new
      BY <2>4, <3>1, LinkFacts
    <3>3. Account(c0, F0, [Cells(w.sp) EXCEPT ![<<"pte", va>>] = x], w.free, {x} \ {x})
      <4>1. Cells(w.sp)[<<"pte", va>>] = NoFrame /\ <<"pte", va>> \in Places
        BY <2>7, CellValues, PlaceFacts
      <4>2. x \in {x}
        OBVIOUS
      <4> QED
        BY <2>4, <4>1, <4>2, LinkKeeps
    <3>4. {x} \ {x} = {}
      OBVIOUS
    <3>5. MapNewPage(t, va) = u
      BY <2>5, <2>7
    <3>6. {} \in SUBSET Frames /\ \A y, z \in {} : y = z
      OBVIOUS
    <3> HIDE DEF u
    <3> QED
      BY <2>4, <3>1, <3>2, <3>3, <3>4, <3>5, <3>6 DEF Sound
  <2> QED
    BY <2>6, <2>7
<1> QED
  BY <1>3, <1>4

\* An attempt that starts from places without frames in common with F0.
LEMMA StartAccount ==
  ASSUME NEW c \in [Places -> FrameOrNone], NEW F0 \in SUBSET Frames,
         \A q \in Places : c[q] \notin F0,
         \A p, q \in Places : c[p] # NoFrame /\ c[p] = c[q] => p = q
  PROVE  Account(c, F0, c, F0, {})
BY DEF Account

\* A new root table accounts for every frame.
LEMMA NewRootSound ==
  ASSUME NEW F0 \in SUBSET Frames
  PROVE  new_user_root(F0) \in Sound(NoCells, F0)
<1> DEFINE t == Attempt(F0, NoSpace)
           x == Lowest(t)
           new == [NoSpace EXCEPT !.root = x]
           u == [Taken(t) EXCEPT !.sp = new]
<1>1. t \in Attempts /\ t.free = F0 /\ t.sp = NoSpace /\ t.ok
  BY NoSpaceFacts DEF Attempt, Attempts
<1>2. Account(NoCells, F0, NoCells, F0, {})
  <2>1. NoCells \in [Places -> FrameOrNone] /\ \A q \in Places : NoCells[q] = NoFrame
    BY DEF NoCells, FrameOrNone
  <2>2. NoFrame \notin F0
    BY MemoryAssumption DEF MemoryAssumption, NoFrame
  <2> QED
    BY <2>1, <2>2, StartAccount
<1>3. \A y, z \in {} : y = z
  OBVIOUS
<1>4. CASE F0 = {}
  <2>1. new_user_root(F0) = Fail(t)
    BY <1>4 DEF new_user_root
  <2> HIDE DEF t
  <2> QED
    BY <1>1, <1>2, <1>3, <2>1, AttemptFacts, NoSpaceFacts DEF Sound
<1>5. CASE F0 # {}
  <2>1. x \in F0 /\ x \in FrameOrNone /\ x # NoFrame
    BY <1>1, <1>5, LowestIsFree, MemoryAssumption DEF MemoryAssumption, FrameOrNone, NoFrame
  <2>2. new_user_root(F0) = u
    <3>1. new_user_root(F0) = [Taken(t) EXCEPT !.sp.root = x]
      BY <1>5 DEF new_user_root
    <3> HIDE DEF t, x
    <3>2. Taken(t).sp = NoSpace /\ Taken(t) \in Attempts
      BY <1>1, AttemptFacts
    <3> QED
      BY <3>1, <3>2 DEF Attempts
  <2> HIDE DEF t, x
  <2>3. new \in Space /\ Cells(new) = [NoCells EXCEPT ![RootPlace] = x]
    BY <2>1, NoSpaceFacts, SetRoot
  <2> HIDE DEF new
  <2>4. u \in Attempts /\ u.free = F0 \ {x} /\ u.sp = new
    BY <1>1, <2>3, AttemptFacts, LinkFacts DEF x
  <2>5. Account(NoCells, F0, [NoCells EXCEPT ![RootPlace] = x], F0 \ {x}, {})
    <3>1. NoCells[RootPlace] = NoFrame /\ RootPlace \in Places
      BY PlaceFacts DEF NoCells
    <3> QED
      BY <1>2, <2>1, <3>1, TakeAndLinkKeeps
  <2>6. new.root # NoFrame
    <3>1. new.root = Cells(new)[RootPlace]
      BY <2>3, CellsType
    <3> QED
      BY <2>1, <2>3, <3>1, PlaceFacts DEF NoCells
  <2> QED
    <3>1. {} \in SUBSET Frames /\ u.sp.root # NoFrame
      BY <2>4, <2>6
    <3>2. Account(NoCells, F0, Cells(u.sp), u.free, {})
      BY <2>3, <2>4, <2>5
    <3> HIDE DEF u
    <3> QED
      BY <1>3, <2>2, <2>4, <3>1, <3>2 DEF Sound
<1> QED
  BY <1>4, <1>5

\* The copy made by fork accounts for every frame.
LEMMA CloneSound ==
  ASSUME NEW F0 \in SUBSET Frames, NEW src
  PROVE  clone_user_space(F0, src) \in Sound(NoCells, F0)
<1> DEFINE P == Sound(NoCells, F0)
<1>1. new_user_root(F0) \in P /\ \A a \in P, va \in Pages : MapNewPage(a, va) \in P
  BY NewRootSound, MapNewPageKeeps
<1> HIDE DEF P
<1>2. clone_user_space(F0, src) \in P
  BY <1>1, CloneKeeps
<1> QED
  BY <1>2 DEF P

\* So does the space built by spawn and exec.
LEMMA BuildSound ==
  ASSUME NEW F0 \in SUBSET Frames
  PROVE  build_address_space(F0) \in Sound(NoCells, F0)
<1> DEFINE P == Sound(NoCells, F0)
<1>1. new_user_root(F0) \in P /\ \A a \in P, va \in Pages : MapNewPage(a, va) \in P
  BY NewRootSound, MapNewPageKeeps
<1>2. Image \o Stack \in Seq(Pages)
  BY MemoryAssumption DEF MemoryAssumption, Pages
<1> HIDE DEF P
<1>3. MapNewPages(new_user_root(F0), Image \o Stack) \in P
  BY <1>1, <1>2, MapNewPagesKeeps
<1> QED
  BY <1>3 DEF P, build_address_space

\* And the part of it made before a bad header.
LEMMA PartSound ==
  ASSUME NEW F0 \in SUBSET Frames, NEW n \in 0 .. Len(Image)
  PROVE  MapNewPages(new_user_root(F0), SubSeq(Image, 1, n)) \in Sound(NoCells, F0)
<1> DEFINE P == Sound(NoCells, F0)
<1>1. new_user_root(F0) \in P /\ \A a \in P, va \in Pages : MapNewPage(a, va) \in P
  BY NewRootSound, MapNewPageKeeps
<1>2. SubSeq(Image, 1, n) \in Seq(Pages)
  BY MemoryAssumption DEF MemoryAssumption, Pages
<1> HIDE DEF P
<1>3. MapNewPages(new_user_root(F0), SubSeq(Image, 1, n)) \in P
  BY <1>1, <1>2, MapNewPagesKeeps
<1> QED
  BY <1>3 DEF P
-----------------------------------------------------------------------------
(* Ownership of frames across the table. *)

Tables == [Slots -> [Places -> FrameOrNone]]

\* A frame is a positive address.
LEMMA NoFrameFacts == NoFrame \notin Frames
BY MemoryAssumption DEF MemoryAssumption, NoFrame

\* Slot s gets the places of an attempt that accounts for the free frames.
LEMMA ReplaceOwned ==
  ASSUME NEW C \in Tables, NEW fr, Owned(C, fr), NEW s \in Slots,
         NEW c, NEW fr2, NEW H, Account(C[s], fr, c, fr2, H)
  PROVE  /\ [C EXCEPT ![s] = c] \in Tables
         /\ Owned([C EXCEPT ![s] = c], fr2)
         /\ Full(C, fr) /\ H = {} => Full([C EXCEPT ![s] = c], fr2)
<1> DEFINE D == [C EXCEPT ![s] = c]
<1>1. D \in Tables /\ D[s] = c /\ \A t \in Slots : t # s => D[t] = C[t]
  BY DEF Tables, Account
<1> HIDE DEF D
<1>2. fr2 \subseteq fr /\ fr \subseteq Frames
  BY DEF Account, Owned
<1>3. \A t \in Slots, q \in Places : D[t][q] \notin fr2
  BY <1>1, <1>2 DEF Account, Owned
<1>4. ASSUME NEW q \in Places, NEW t \in Slots, NEW p \in Places, t # s, c[q] # NoFrame
      PROVE  c[q] # C[t][p]
  <2>1. CASE c[q] = C[s][q]
    BY <1>4, <2>1 DEF Owned
  <2>2. CASE c[q] # C[s][q]
    BY <1>4, <2>2 DEF Owned, Account
  <2> QED
    BY <2>1, <2>2
<1>5. ASSUME NEW t \in Slots, NEW u \in Slots, NEW q \in Places, NEW p \in Places,
             D[t][q] # NoFrame, D[t][q] = D[u][p]
      PROVE  t = u /\ q = p
  <2>1. CASE t = s /\ u = s
    BY <1>1, <1>5, <2>1 DEF Account
  <2>2. CASE t = s /\ u # s
    BY <1>1, <1>4, <1>5, <2>2
  <2>3. CASE t # s /\ u = s
    <3>1. c[p] = C[t][q] /\ c[p] # NoFrame
      BY <1>1, <1>5, <2>3
    <3> QED
      BY <1>4, <2>3, <3>1
  <2>4. CASE t # s /\ u # s
    BY <1>1, <1>5, <2>4 DEF Owned
  <2> QED
    BY <2>1, <2>2, <2>3, <2>4
<1>6. Owned(D, fr2)
  BY <1>2, <1>3, <1>5 DEF Owned
<1>7. ASSUME Full(C, fr), H = {}, NEW f \in Frames
      PROVE  f \in fr2 \/ \E t \in Slots, q \in Places : D[t][q] = f
  <2>1. CASE f \in fr
    BY <1>1, <1>7, <2>1 DEF Account
  <2>2. CASE f \notin fr
    <3>1. PICK t \in Slots, q \in Places : C[t][q] = f
      BY <1>7, <2>2 DEF Full
    <3>2. f # NoFrame
      BY NoFrameFacts
    <3>3. D[t][q] = f
      BY <1>1, <3>1, <3>2 DEF Account
    <3> QED
      BY <3>3
  <2> QED
    BY <2>1, <2>2
<1> QED
  BY <1>1, <1>6, <1>7 DEF D, Full

\* The frames whose places are emptied between tables C and D.
Given(C, D) ==
    {f \in Frames : \E s \in Slots, q \in Places : C[s][q] = f /\ D[s][q] # f}

\* Places are emptied; frames given back become free.
LEMMA ReleaseOwned ==
  ASSUME NEW C \in Tables, NEW D \in Tables, NEW fr, NEW fr2, Owned(C, fr),
         \A s \in Slots, q \in Places : D[s][q] = C[s][q] \/ D[s][q] = NoFrame,
         fr2 \subseteq fr \cup Given(C, D)
  PROVE  /\ Owned(D, fr2)
         /\ Full(C, fr) /\ fr \cup Given(C, D) \subseteq fr2 => Full(D, fr2)
<1>1. fr2 \subseteq Frames
  BY DEF Owned, Given
<1>2. ASSUME NEW s \in Slots, NEW q \in Places PROVE D[s][q] \notin fr2
  <2>1. CASE D[s][q] = NoFrame
    BY <1>1, <2>1, NoFrameFacts
  <2>2. CASE D[s][q] = C[s][q] /\ D[s][q] # NoFrame
    <3>1. D[s][q] \notin fr
      BY <2>2 DEF Owned
    <3>2. D[s][q] \notin Given(C, D)
      <4>1. SUFFICES ASSUME NEW t \in Slots, NEW p \in Places,
                            C[t][p] = D[s][q], D[t][p] # D[s][q]
                     PROVE  FALSE
        BY DEF Given
      <4>2. t = s /\ p = q
        BY <2>2, <4>1 DEF Owned
      <4> QED
        BY <4>1, <4>2
    <3> QED
      BY <3>1, <3>2
  <2> QED
    BY <2>1, <2>2
<1>3. ASSUME NEW s \in Slots, NEW t \in Slots, NEW q \in Places, NEW p \in Places,
             D[s][q] # NoFrame, D[s][q] = D[t][p]
      PROVE  s = t /\ q = p
  <2>1. D[s][q] = C[s][q] /\ D[t][p] = C[t][p]
    BY <1>3
  <2>2. C[s][q] # NoFrame /\ C[s][q] = C[t][p]
    BY <1>3, <2>1
  <2> QED
    BY <2>2 DEF Owned
<1>4. Owned(D, fr2)
  BY <1>1, <1>2, <1>3 DEF Owned
<1>5. Full(C, fr) /\ fr \cup Given(C, D) \subseteq fr2 => Full(D, fr2)
  BY DEF Full, Given
<1> QED
  BY <1>4, <1>5

\* What free_user_space frees, and with it the root table.
LEMMA UserFramesAre ==
  ASSUME NEW sp \in Space
  PROVE  /\ \A f : f \in UserFrames(sp) <=>
                f # NoFrame /\ \E q \in Places \ {RootPlace} : Cells(sp)[q] = f
         /\ \A f : f \in AllFrames(sp) <=> f # NoFrame /\ \E q \in Places : Cells(sp)[q] = f
<1>1. ASSUME NEW f, NEW q \in Places \ {RootPlace}, Cells(sp)[q] = f
      PROVE  f = sp.l1 \/ (\E r \in Regions : f = sp.l0[r]) \/ \E va \in Pages : f = sp.pte[va]
  BY <1>1 DEF Cells, Places, RootPlace
<1>2. \A f : f \in UserFrames(sp) <=>
        /\ f # NoFrame
        /\ f = sp.l1 \/ (\E r \in Regions : f = sp.l0[r]) \/ \E va \in Pages : f = sp.pte[va]
  BY DEF UserFrames
<1>3. \A f : (f = sp.l1 \/ (\E r \in Regions : f = sp.l0[r]) \/ \E va \in Pages : f = sp.pte[va])
            => \E q \in Places \ {RootPlace} : Cells(sp)[q] = f
  <2>1. Cells(sp)[<<"l1", 0>>] = sp.l1 /\ <<"l1", 0>> \in Places \ {RootPlace}
    BY CellValues, PlaceFacts DEF RootPlace
  <2>2. \A r \in Regions : Cells(sp)[<<"l0", r>>] = sp.l0[r] /\ <<"l0", r>> \in Places \ {RootPlace}
    BY CellValues, PlaceFacts DEF RootPlace
  <2>3. \A va \in Pages : Cells(sp)[<<"pte", va>>] = sp.pte[va] /\ <<"pte", va>> \in Places \ {RootPlace}
    BY CellValues, PlaceFacts DEF RootPlace
  <2> QED
    BY <2>1, <2>2, <2>3, Zenon
<1>4. \A f : f \in UserFrames(sp) <=>
                f # NoFrame /\ \E q \in Places \ {RootPlace} : Cells(sp)[q] = f
  BY <1>1, <1>2, <1>3
<1>5. \A f : f \in AllFrames(sp) <=> f # NoFrame /\ \E q \in Places : Cells(sp)[q] = f
  BY <1>4, CellValues, PlaceFacts DEF AllFrames
<1> QED
  BY <1>4, <1>5
=============================================================================
