----------------------------- MODULE HeapProofs -----------------------------
(***************************************************************************)
(* Proofs about Heap for every block and page size, amount of memory and   *)
(* set of layouts.  A free list is described by the bytes it holds; insert *)
(* adds the bytes of a block and take removes them, and both keep the list *)
(* ordered, with a live byte between any two of its blocks.                *)
(***************************************************************************)
EXTENDS Heap, FiniteSetTheorems, WellFoundedInduction, TLAPS

MemEnd == NFrames * PAGE_SIZE

\* An ordered list whose blocks neither overlap nor touch.
IsList(list) ==
    /\ list \in [DOMAIN list -> Nat \ {0}]
    /\ \A s \in DOMAIN list :
        /\ s \in Nat /\ s + list[s] <= MemEnd
        /\ s % MIN_BLOCK = 0 /\ list[s] % MIN_BLOCK = 0
    /\ \A s, t \in DOMAIN list : s < t => s + list[s] < t

\* The byte is in a block of the list.
Holds(list, byte) == \E s \in DOMAIN list : Covers(s, list[s], byte)

\* No byte of the block is in the list.
Apart(list, addr, size) ==
    \A byte \in Nat : ~ (Holds(list, byte) /\ Covers(addr, size, byte))

LiveAt(byte) == \E b \in live : Covers(b.addr, block_size(b.layout), byte)

LiveBlock(b) ==
    /\ b.layout \in Layouts /\ b.addr \in Nat
    /\ b.addr % block_align(b.layout) = 0
    /\ b.addr + block_size(b.layout) <= MemEnd

\* Inductive: the list is a list, and the free and the live blocks share out the
\* bytes of the heap's pages.
HeapInv ==
    /\ used \subseteq Frames /\ others \subseteq used
    /\ IsList(free)
    /\ \A b \in live : LiveBlock(b)
    /\ \A b, c \in live, byte \in Nat :
        /\ Covers(b.addr, block_size(b.layout), byte)
        /\ Covers(c.addr, block_size(c.layout), byte)
        => b = c
    /\ \A byte \in Nat : ~ (Holds(free, byte) /\ LiveAt(byte))
    /\ \A byte \in Nat :
        byte < MemEnd =>
            (Holds(free, byte) \/ LiveAt(byte) <=> byte \div PAGE_SIZE \in used \ others)
-----------------------------------------------------------------------------
(* Arithmetic. *)

\* What is a multiple, and what is one of two.
LEMMA Multiple ==
  ASSUME NEW a \in Int, NEW m \in Nat \ {0}, a % m = 0
  PROVE  \E k \in Int : a = k * m
<1>1. a \div m \in Int /\ a = (a \div m) * m
  OBVIOUS
<1> QED
  BY <1>1

LEMMA MultipleOf ==
  ASSUME NEW k \in Int, NEW m \in Nat \ {0}
  PROVE  (k * m) % m = 0
OBVIOUS

LEMMA AddMultiples ==
  ASSUME NEW a \in Int, NEW b \in Int, NEW m \in Nat \ {0}, a % m = 0, b % m = 0
  PROVE  (a + b) % m = 0 /\ (a - b) % m = 0
<1>1. PICK k \in Int : a = k * m
  BY Multiple
<1>2. PICK j \in Int : b = j * m
  BY Multiple
<1>3. a + b = (k + j) * m /\ a - b = (k - j) * m
  BY <1>1, <1>2
<1>4. k + j \in Int /\ k - j \in Int
  OBVIOUS
<1> QED
  BY <1>3, <1>4, MultipleOf

LEMMA MultipleTransitive ==
  ASSUME NEW a \in Int, NEW b \in Nat \ {0}, NEW m \in Nat \ {0}, a % b = 0, b % m = 0
  PROVE  a % m = 0
<1>1. PICK k \in Int : a = k * b
  BY Multiple
<1>2. PICK j \in Int : b = j * m
  BY Multiple
<1>3. a = (k * j) * m /\ k * j \in Int
  BY <1>1, <1>2
<1> QED
  BY <1>3, MultipleOf

\* Rounding up goes to the next multiple.
LEMMA RoundsUp ==
  ASSUME NEW n \in Nat, NEW unit \in Nat \ {0}
  PROVE  /\ RoundUp(n, unit) \in Nat
         /\ n <= RoundUp(n, unit) /\ RoundUp(n, unit) <= n + unit - 1
         /\ RoundUp(n, unit) % unit = 0
<1>1. /\ ((n + unit - 1) \div unit) * unit \in Nat
      /\ n <= ((n + unit - 1) \div unit) * unit
      /\ ((n + unit - 1) \div unit) * unit <= n + unit - 1
  OBVIOUS
<1>2. (n + unit - 1) \div unit \in Int
  OBVIOUS
<1>3. (((n + unit - 1) \div unit) * unit) % unit = 0
  BY <1>2, MultipleOf
<1> QED
  BY <1>1, <1>3 DEF RoundUp

\* The bytes of a run of pages.
LEMMA PagesOf ==
  ASSUME NEW s \in Nat, NEW n \in Nat, NEW byte \in Nat
  PROVE  Covers(s * PAGE_SIZE, n * PAGE_SIZE, byte) <=> byte \div PAGE_SIZE \in Run(s, n)
<1> DEFINE q == byte \div PAGE_SIZE
<1>1. PAGE_SIZE \in Nat \ {0}
  BY HeapAssumption DEF HeapAssumption
<1>2. q \in Nat /\ q * PAGE_SIZE <= byte /\ byte < q * PAGE_SIZE + PAGE_SIZE
  BY <1>1
<1> HIDE DEF q
<1>3. CASE q < s
  <2>1. (q + 1) * PAGE_SIZE <= s * PAGE_SIZE
    BY <1>1, <1>2, <1>3
  <2> QED
    BY <1>1, <1>2, <1>3, <2>1 DEF Covers, Run, q
<1>4. CASE s <= q /\ q < s + n
  <2>1. s * PAGE_SIZE <= q * PAGE_SIZE /\ (q + 1) * PAGE_SIZE <= (s + n) * PAGE_SIZE
    BY <1>1, <1>2, <1>4
  <2> QED
    BY <1>1, <1>2, <1>4, <2>1 DEF Covers, Run, q
<1>5. CASE s + n <= q
  <2>1. (s + n) * PAGE_SIZE <= q * PAGE_SIZE
    BY <1>1, <1>2, <1>5
  <2> QED
    BY <1>1, <1>2, <1>5, <2>1 DEF Covers, Run, q
<1> QED
  BY <1>2, <1>3, <1>4, <1>5
-----------------------------------------------------------------------------
(* The ends of a list. *)

\* A set of naturals that is not empty has a least element, and a greatest one
\* when it is bounded.
LEMMA LowestExists ==
  ASSUME NEW S \in SUBSET Nat, S # {}
  PROVE  Min(S) \in S /\ \A y \in S : Min(S) <= y
<1>1. PICK x \in S : \A y \in S : ~ (<<y, x>> \in OpToRel(<, Nat))
  BY NatLessThanWellFounded, WFMin
<1>2. \A y \in S : <<y, x>> \in Nat \X Nat
  OBVIOUS
<1>3. \A y \in S : ~ (y < x)
  BY <1>1, <1>2 DEF OpToRel
<1>4. \A y \in S : x <= y
  BY <1>3
<1> QED
  BY <1>4 DEF Min

LEMMA HighestExists ==
  ASSUME NEW S \in SUBSET Nat, S # {}, NEW top \in Nat, \A y \in S : y <= top
  PROVE  Max(S) \in S /\ \A y \in S : y <= Max(S)
<1> DEFINE below == {top - y : y \in S}
<1>1. below \in SUBSET Nat /\ below # {} /\ \A y \in S : top - y \in below
  <2>1. \A y \in S : top - y \in Nat
    OBVIOUS
  <2> QED
    BY <2>1
<1>2. Min(below) \in below /\ \A z \in below : Min(below) <= z
  <2> HIDE DEF below
  <2> QED
    BY <1>1, LowestExists
<1>3. PICK x \in S : Min(below) = top - x
  BY <1>2
<1>4. ASSUME NEW y \in S PROVE y <= x
  <2>1. top - x <= top - y
    BY <1>1, <1>2, <1>3
  <2> QED
    BY <2>1
<1> QED
  BY <1>4 DEF Max

\* A block that is apart from a list lies between its blocks.
LEMMA Between ==
  ASSUME NEW list, IsList(list), NEW addr \in Nat, NEW size \in Nat \ {0},
         Apart(list, addr, size)
  PROVE  \A s \in DOMAIN list : s + list[s] <= addr \/ addr + size <= s
<1> SUFFICES ASSUME NEW s \in DOMAIN list, ~ (s + list[s] <= addr), ~ (addr + size <= s)
             PROVE  FALSE
  OBVIOUS
<1>1. s \in Nat /\ list[s] \in Nat \ {0}
  BY DEF IsList
<1>2. CASE s <= addr
  BY <1>1, <1>2 DEF Apart, Holds, Covers
<1>3. CASE addr < s
  BY <1>1, <1>3 DEF Apart, Holds, Covers
<1> QED
  BY <1>1, <1>2, <1>3

\* The list with a block from addr on merged into the one that begins at start.
Merged(list, addr, size, new, start) ==
    LET end == addr + size
        forward == end \in DOMAIN list
    IN  /\ DOMAIN new = (DOMAIN list \cup {start}) \ (IF forward THEN {end} ELSE {})
        /\ new = [s \in DOMAIN new |-> new[s]]
        /\ \A s \in DOMAIN new \ {start} : new[s] = list[s]
        /\ start \in DOMAIN new
        /\ new[start] = (IF forward THEN end + list[end] ELSE end) - start
        /\ \/ start \in DOMAIN list /\ start < addr /\ start + list[start] = addr
           \/ start = addr /\ \A s \in DOMAIN list : s < addr => s + list[s] < addr

\* insert merges exactly when a block ends where the new one starts, or starts
\* where it ends.
LEMMA InsertIs ==
  ASSUME NEW list, IsList(list), NEW addr \in Nat, NEW size \in Nat \ {0},
         Apart(list, addr, size)
  PROVE  \E start \in Nat : Merged(list, addr, size, insert(list, addr, size), start)
<1> DEFINE end == addr + size
           prev == {s \in DOMAIN list : s < addr}
           next == DOMAIN list \ prev
           forward == next # {} /\ end = Min(next)
           back == prev # {} /\ Max(prev) + list[Max(prev)] = addr
           start == IF back THEN Max(prev) ELSE addr
           gone == IF forward THEN {end} ELSE {}
           new == insert(list, addr, size)
<1>1. /\ \A s \in DOMAIN list : s \in Nat /\ list[s] \in Nat \ {0} /\ s + list[s] <= MemEnd
      /\ \A s, t \in DOMAIN list : s < t => s + list[s] < t
  BY DEF IsList
<1>2. \A s \in DOMAIN list : s + list[s] <= addr \/ end <= s
  BY Between
<1>3. forward <=> end \in DOMAIN list
  <2>1. next \in SUBSET Nat /\ \A t \in next : end <= t
    BY <1>1, <1>2
  <2>2. next # {} => Min(next) \in next /\ \A t \in next : Min(next) <= t
    <3> HIDE DEF next
    <3> QED
      BY <2>1, LowestExists
  <2>3. end \in DOMAIN list => end \in next /\ end \in Nat
    OBVIOUS
  <2>4. end \in DOMAIN list => Min(next) = end
    <3> HIDE DEF next
    <3>1. SUFFICES ASSUME end \in DOMAIN list PROVE Min(next) = end
      OBVIOUS
    <3>2. Min(next) \in Nat /\ end <= Min(next) /\ Min(next) <= end
      BY <2>1, <2>2, <2>3, <3>1
    <3> QED
      BY <2>3, <3>1, <3>2
  <2> QED
    BY <2>2, <2>3, <2>4
<1>4. prev # {} => /\ Max(prev) \in DOMAIN list /\ Max(prev) < addr
                   /\ \A s \in prev : s <= Max(prev)
  <2>1. prev \in SUBSET Nat /\ \A s \in prev : s <= addr
    BY <1>1
  <2>2. prev # {} => Max(prev) \in prev /\ \A s \in prev : s <= Max(prev)
    <3> HIDE DEF prev
    <3> QED
      BY <2>1, HighestExists
  <2> QED
    BY <2>2
<1>5. \/ back /\ start \in DOMAIN list /\ start < addr /\ start + list[start] = addr
      \/ ~back /\ start = addr /\ \A s \in DOMAIN list : s < addr => s + list[s] < addr
  <2>1. CASE back
    BY <1>4, <2>1
  <2>2. CASE ~back
    <3>1. ASSUME NEW s \in DOMAIN list, s < addr PROVE s + list[s] < addr
      <4>1. s \in prev /\ s <= Max(prev) /\ Max(prev) \in DOMAIN list /\ Max(prev) < addr
        BY <1>4, <3>1
      <4>2. Max(prev) + list[Max(prev)] <= addr /\ Max(prev) + list[Max(prev)] # addr
        BY <1>1, <1>2, <2>2, <4>1
      <4>3. CASE s = Max(prev)
        BY <1>1, <4>1, <4>2, <4>3
      <4>4. CASE s < Max(prev)
        BY <1>1, <4>1, <4>4
      <4> HIDE DEF prev
      <4> QED
        BY <1>1, <4>1, <4>3, <4>4
    <3> QED
      BY <2>2, <3>1
  <2> QED
    BY <2>1, <2>2
<1>6. new = [s \in (DOMAIN list \cup {start}) \ gone |->
                IF s # start THEN list[s]
                ELSE size + (IF forward THEN list[end] ELSE 0)
                          + (IF back THEN list[start] ELSE 0)]
  BY DEF insert
<1> HIDE DEF prev, next, forward, back, start, new
<1>7. start \in Nat /\ start # end /\ (back => start \in DOMAIN list)
  BY <1>1, <1>5
<1>8. /\ DOMAIN new = (DOMAIN list \cup {start}) \ gone
      /\ new = [s \in DOMAIN new |-> new[s]]
      /\ \A s \in DOMAIN new \ {start} : new[s] = list[s]
      /\ start \in DOMAIN new
      /\ new[start] = size + (IF forward THEN list[end] ELSE 0)
                           + (IF back THEN list[start] ELSE 0)
  BY <1>6, <1>7
<1>9. new[start] = (IF forward THEN end + list[end] ELSE end) - start
  BY <1>1, <1>3, <1>5, <1>7, <1>8
<1>10. /\ DOMAIN new = (DOMAIN list \cup {start}) \ (IF end \in DOMAIN list THEN {end} ELSE {})
       /\ new[start] = (IF end \in DOMAIN list THEN end + list[end] ELSE end) - start
  BY <1>3, <1>8, <1>9
<1>11. Merged(list, addr, size, new, start)
  BY <1>5, <1>8, <1>10 DEF Merged
<1> QED
  BY <1>7, <1>11 DEF new

\* insert keeps the list a list and adds the bytes of the block, which are then
\* in one block.
LEMMA InsertKeeps ==
  ASSUME NEW list, IsList(list), NEW addr \in Nat, NEW size \in Nat \ {0},
         addr % MIN_BLOCK = 0, size % MIN_BLOCK = 0, addr + size <= MemEnd,
         Apart(list, addr, size)
  PROVE  /\ IsList(insert(list, addr, size))
         /\ \A byte \in Nat : Holds(insert(list, addr, size), byte) <=>
                Holds(list, byte) \/ Covers(addr, size, byte)
         /\ \E s \in DOMAIN insert(list, addr, size) :
                s <= addr /\ addr + size <= s + insert(list, addr, size)[s]
<1> DEFINE end == addr + size
           new == insert(list, addr, size)
<1>1. PICK start \in Nat : Merged(list, addr, size, new, start)
  BY InsertIs
<1> HIDE DEF new
<1> DEFINE stop == IF end \in DOMAIN list THEN end + list[end] ELSE end
<1>2. /\ DOMAIN new = (DOMAIN list \cup {start}) \ (IF end \in DOMAIN list THEN {end} ELSE {})
      /\ new = [s \in DOMAIN new |-> new[s]]
      /\ \A s \in DOMAIN new \ {start} : s \in DOMAIN list /\ s # end /\ new[s] = list[s]
      /\ start \in DOMAIN new /\ new[start] = stop - start
      /\ \/ start \in DOMAIN list /\ start < addr /\ start + list[start] = addr
         \/ start = addr /\ \A s \in DOMAIN list : s < addr => s + list[s] < addr
  BY <1>1 DEF Merged
<1>3. /\ \A s \in DOMAIN list : /\ s \in Nat /\ list[s] \in Nat \ {0} /\ s + list[s] <= MemEnd
                                /\ s % MIN_BLOCK = 0 /\ list[s] % MIN_BLOCK = 0
      /\ \A s, t \in DOMAIN list : s < t => s + list[s] < t
  BY DEF IsList
<1>4. \A s \in DOMAIN list : s + list[s] <= addr \/ end <= s
  BY Between
<1>5. stop \in Nat /\ end <= stop /\ stop <= MemEnd /\ start <= addr
  BY <1>2, <1>3
<1>6. MIN_BLOCK \in Nat \ {0} /\ MemEnd \in Nat
  BY HeapAssumption DEF HeapAssumption, MemEnd
<1>7. start % MIN_BLOCK = 0 /\ stop % MIN_BLOCK = 0 /\ new[start] % MIN_BLOCK = 0
  <2>1. end \in Int /\ end % MIN_BLOCK = 0
    <3>1. addr \in Int /\ size \in Int
      OBVIOUS
    <3>2. (addr + size) % MIN_BLOCK = 0
      BY <1>6, <3>1, AddMultiples, Zenon
    <3> QED
      BY <3>2
  <2>2. stop % MIN_BLOCK = 0
    BY <1>3, <1>6, <2>1, AddMultiples
  <2>3. start % MIN_BLOCK = 0
    BY <1>2, <1>3
  <2> HIDE DEF stop
  <2> QED
    BY <1>2, <1>5, <1>6, <2>2, <2>3, AddMultiples
<1>8. new[start] \in Nat \ {0} /\ start + new[start] = stop
  <2> HIDE DEF stop
  <2> QED
    BY <1>2, <1>5
<1>9. ASSUME NEW s \in DOMAIN new
      PROVE  /\ s \in Nat /\ new[s] \in Nat \ {0} /\ s + new[s] <= MemEnd
             /\ s % MIN_BLOCK = 0 /\ new[s] % MIN_BLOCK = 0
  <2> HIDE DEF stop
  <2>1. CASE s = start
    BY <1>5, <1>7, <1>8, <2>1
  <2>2. CASE s # start
    BY <1>2, <1>3, <2>2
  <2> QED
    BY <2>1, <2>2
<1>10. ASSUME NEW s \in DOMAIN new, NEW t \in DOMAIN new, s < t
       PROVE  s + new[s] < t
  <2>1. CASE s # start /\ t # start
    BY <1>2, <1>3, <1>10, <2>1
  <2>2. CASE s = start
    <3>1. t \in DOMAIN list /\ t # end /\ t \in Nat /\ list[t] \in Nat \ {0}
      BY <1>2, <1>3, <1>10, <2>2
    <3>2. end < t
      BY <1>2, <1>3, <1>4, <1>10, <2>2, <3>1
    <3>3. stop < t
      BY <1>3, <3>1, <3>2
    <3> QED
      BY <1>8, <2>2, <3>3
  <2>3. CASE s # start /\ t = start
    BY <1>2, <1>3, <1>10, <2>3
  <2> QED
    BY <1>10, <2>1, <2>2, <2>3
<1>11. IsList(new)
  <2>1. new \in [DOMAIN new -> Nat \ {0}]
    BY <1>2, <1>9
  <2> QED
    BY <1>9, <1>10, <2>1 DEF IsList
<1>12. ASSUME NEW byte \in Nat, Holds(new, byte)
       PROVE  Holds(list, byte) \/ Covers(addr, size, byte)
  <2>1. PICK s \in DOMAIN new : s <= byte /\ byte < s + new[s]
    BY <1>12 DEF Holds, Covers
  <2>2. CASE s # start
    BY <1>2, <2>1, <2>2 DEF Holds, Covers
  <2>3. CASE s = start /\ byte < addr
    BY <1>2, <2>1, <2>3 DEF Holds, Covers
  <2>4. CASE s = start /\ addr <= byte /\ byte < end
    BY <2>4 DEF Covers
  <2>5. CASE s = start /\ end <= byte
    BY <1>8, <2>1, <2>5 DEF Holds, Covers
  <2> QED
    BY <2>2, <2>3, <2>4, <2>5
<1>13. ASSUME NEW byte \in Nat, Holds(list, byte)
       PROVE  Holds(new, byte)
  <2>1. PICK s \in DOMAIN list : s <= byte /\ byte < s + list[s] /\ s \in Nat
    BY <1>3, <1>13 DEF Holds, Covers
  <2>2. CASE s = end
    BY <1>2, <1>3, <1>5, <1>8, <2>1, <2>2 DEF Holds, Covers
  <2>3. CASE s = start /\ s # end
    <3> HIDE DEF stop
    <3>1. start < addr /\ byte < addr
      BY <1>2, <1>3, <1>4, <2>1, <2>3
    <3> QED
      BY <1>2, <1>5, <1>8, <2>1, <2>3, <3>1 DEF Holds, Covers
  <2>4. CASE s # start /\ s # end
    BY <1>2, <2>1, <2>4 DEF Holds, Covers
  <2> QED
    BY <2>2, <2>3, <2>4
<1>14. ASSUME NEW byte \in Nat, Covers(addr, size, byte)
       PROVE  Holds(new, byte)
  <2> HIDE DEF stop
  <2> QED
    BY <1>2, <1>5, <1>8, <1>14 DEF Holds, Covers
<1>15. start \in DOMAIN new /\ start <= addr /\ addr + size <= start + new[start]
  <2> HIDE DEF stop
  <2> QED
    BY <1>2, <1>5, <1>8
<1> QED
  BY <1>11, <1>12, <1>13, <1>14, <1>15 DEF new

\* Putting back a part that may be empty.
LEMMA InsertPartKeeps ==
  ASSUME NEW list, IsList(list), NEW addr \in Nat, NEW size \in Nat,
         addr % MIN_BLOCK = 0, size % MIN_BLOCK = 0, addr + size <= MemEnd,
         Apart(list, addr, size)
  PROVE  /\ IsList(InsertPart(list, addr, size))
         /\ \A byte \in Nat : Holds(InsertPart(list, addr, size), byte) <=>
                Holds(list, byte) \/ Covers(addr, size, byte)
<1>1. CASE size = 0
  BY <1>1 DEF InsertPart, Covers
<1>2. CASE size # 0
  <2>1. size \in Nat \ {0} /\ InsertPart(list, addr, size) = insert(list, addr, size)
    BY <1>2 DEF InsertPart
  <2> QED
    BY <2>1, InsertKeeps
<1> QED
  BY <1>1, <1>2

\* Without one of its blocks a list is a list and holds its other bytes.
LEMMA RemoveBlock ==
  ASSUME NEW list, IsList(list), NEW start \in DOMAIN list,
         NEW rest, rest = [s \in DOMAIN list \ {start} |-> list[s]]
  PROVE  /\ IsList(rest)
         /\ Apart(rest, start, list[start])
         /\ \A byte \in Nat : Holds(list, byte) <=>
                Holds(rest, byte) \/ Covers(start, list[start], byte)
<1>1. DOMAIN rest = DOMAIN list \ {start} /\ \A s \in DOMAIN rest : rest[s] = list[s]
  OBVIOUS
<1>2. IsList(rest)
  BY <1>1 DEF IsList
<1>3. Apart(rest, start, list[start])
  <2> SUFFICES ASSUME NEW byte \in Nat, NEW s \in DOMAIN rest, Covers(s, rest[s], byte),
                      Covers(start, list[start], byte)
               PROVE  FALSE
    BY DEF Apart, Holds
  <2>1. /\ s \in Nat /\ start \in Nat /\ list[s] \in Nat /\ list[start] \in Nat
        /\ s # start /\ s \in DOMAIN list /\ rest[s] = list[s]
        /\ s < start => s + list[s] < start
        /\ start < s => start + list[start] < s
    BY <1>1 DEF IsList
  <2> QED
    BY <2>1 DEF Covers
<1> QED
  BY <1>1, <1>2, <1>3 DEF Holds

\* A block that take finds: in the list, aligned, and gone from the list that
\* is left.
Taken(list, size, align, t) ==
    /\ t.addr \in Nat /\ t.addr % align = 0 /\ t.addr + size <= MemEnd
    /\ IsList(t.list)
    /\ Apart(t.list, t.addr, size)
    /\ \A byte \in Nat : Holds(list, byte) <=>
        Holds(t.list, byte) \/ Covers(t.addr, size, byte)

LEMMA TakeKeeps ==
  ASSUME NEW list, IsList(list), NEW size \in Nat \ {0}, NEW align \in Nat \ {0},
         size % MIN_BLOCK = 0, align % MIN_BLOCK = 0
  PROVE  /\ Fits(list, size, align) = {} =>
                take(list, size, align) = [addr |-> Null, list |-> list]
         /\ Fits(list, size, align) # {} =>
                Taken(list, size, align, take(list, size, align))
<1>1. Fits(list, size, align) = {} => take(list, size, align) = [addr |-> Null, list |-> list]
  BY DEF take
<1>2. ASSUME Fits(list, size, align) # {}
      PROVE  Taken(list, size, align, take(list, size, align))
  <2> DEFINE start == Min(Fits(list, size, align))
             pad == Pad(start, align)
             rest == [s \in DOMAIN list \ {start} |-> list[s]]
             front == InsertPart(rest, start, pad)
             addr == start + pad
             tail == addr + size
             over == list[start] - pad - size
             back == InsertPart(front, tail, over)
  <2>1. start \in DOMAIN list /\ list[start] >= pad + size
    <3>1. Fits(list, size, align) \in SUBSET Nat
      BY DEF Fits, IsList
    <3>2. start \in Fits(list, size, align)
      BY <1>2, <3>1, LowestExists
    <3> HIDE DEF start
    <3> QED
      BY <3>2 DEF Fits
  <2>2. take(list, size, align) = [addr |-> addr, list |-> back]
    <3>1. take(list, size, align) =
            [addr |-> start + pad,
             list |-> InsertPart(InsertPart(rest, start, pad),
                                 start + pad + size, list[start] - pad - size)]
      BY <1>2 DEF take
    <3> QED
      BY <3>1
  <2> HIDE DEF start
  <2>3. /\ start \in Nat /\ list[start] \in Nat \ {0} /\ start + list[start] <= MemEnd
        /\ start % MIN_BLOCK = 0 /\ list[start] % MIN_BLOCK = 0
        /\ MIN_BLOCK \in Nat \ {0} /\ MemEnd \in Nat
    BY <2>1, HeapAssumption DEF IsList, HeapAssumption, MemEnd
  <2>4. addr = RoundUp(start, align) /\ pad \in Nat /\ addr \in Nat /\ addr % align = 0
    <3>1. /\ RoundUp(start, align) \in Nat /\ start <= RoundUp(start, align)
          /\ RoundUp(start, align) % align = 0
      BY <2>3, RoundsUp, Zenon
    <3>2. pad = RoundUp(start, align) - start
      BY DEF Pad
    <3>3. addr = RoundUp(start, align) /\ pad \in Nat
      <4> HIDE DEF pad
      <4> QED
        BY <2>3, <3>1, <3>2
    <3> HIDE DEF addr, pad
    <3> QED
      BY <3>1, <3>3
  <2> HIDE DEF pad
  <2>5. /\ addr % MIN_BLOCK = 0 /\ pad % MIN_BLOCK = 0 /\ tail % MIN_BLOCK = 0
        /\ over % MIN_BLOCK = 0
    <3>1. addr % MIN_BLOCK = 0
      BY <2>3, <2>4, MultipleTransitive
    <3>2. (addr - start) % MIN_BLOCK = 0 /\ (addr + size) % MIN_BLOCK = 0
      <4> HIDE DEF addr
      <4>1. addr \in Int /\ start \in Int /\ size \in Int
        BY <2>3, <2>4
      <4> QED
        BY <2>3, <3>1, <4>1, AddMultiples
    <3>3. pad % MIN_BLOCK = 0
      <4>1. addr - start = pad
        BY <2>3, <2>4
      <4> QED
        BY <3>2, <4>1
    <3>4. list[start] \in Int /\ pad \in Int /\ size \in Int /\ list[start] - pad \in Int
      BY <2>3, <2>4
    <3>5. (list[start] - pad) % MIN_BLOCK = 0
      BY <2>3, <3>3, <3>4, AddMultiples, Zenon
    <3>6. (list[start] - pad - size) % MIN_BLOCK = 0
      BY <2>3, <3>4, <3>5, AddMultiples, Zenon
    <3> QED
      BY <3>1, <3>2, <3>3, <3>6
  <2>6. over \in Nat /\ tail \in Nat /\ tail + over = start + list[start]
    BY <2>1, <2>3, <2>4
  <2>7. \A byte \in Nat : Covers(start, list[start], byte) <=>
            \/ Covers(start, pad, byte) \/ Covers(addr, size, byte) \/ Covers(tail, over, byte)
    BY <2>1, <2>3, <2>4, <2>6 DEF Covers
  <2>8. \A byte \in Nat : /\ ~ (Covers(start, pad, byte) /\ Covers(addr, size, byte))
                          /\ ~ (Covers(start, pad, byte) /\ Covers(tail, over, byte))
                          /\ ~ (Covers(addr, size, byte) /\ Covers(tail, over, byte))
    BY <2>3, <2>4, <2>6 DEF Covers
  <2>9. start + pad <= MemEnd /\ tail + over <= MemEnd /\ addr + size <= MemEnd
    BY <2>1, <2>3, <2>4, <2>6
  <2> HIDE DEF addr, tail, over, rest, front, back
  <2>10. /\ IsList(rest) /\ Apart(rest, start, list[start])
         /\ \A byte \in Nat : Holds(list, byte) <=>
                Holds(rest, byte) \/ Covers(start, list[start], byte)
    BY <2>1, RemoveBlock DEF rest
  <2>11. /\ IsList(front)
         /\ \A byte \in Nat : Holds(front, byte) <=>
                Holds(rest, byte) \/ Covers(start, pad, byte)
    <3>1. Apart(rest, start, pad)
      BY <2>7, <2>10 DEF Apart
    <3> QED
      BY <2>3, <2>4, <2>5, <2>9, <2>10, <3>1, InsertPartKeeps DEF front
  <2>12. /\ IsList(back)
         /\ \A byte \in Nat : Holds(back, byte) <=>
                Holds(front, byte) \/ Covers(tail, over, byte)
    <3>1. Apart(front, tail, over)
      BY <2>7, <2>8, <2>10, <2>11 DEF Apart
    <3> QED
      BY <2>5, <2>6, <2>9, <2>11, <3>1, InsertPartKeeps DEF back
  <2>13. Apart(back, addr, size)
    BY <2>7, <2>8, <2>10, <2>11, <2>12 DEF Apart
  <2>14. \A byte \in Nat : Holds(list, byte) <=> Holds(back, byte) \/ Covers(addr, size, byte)
    BY <2>7, <2>10, <2>11, <2>12
  <2> QED
    BY <2>2, <2>4, <2>9, <2>12, <2>13, <2>14 DEF Taken
<1> QED
  BY <1>1, <1>2

\* Sizes and alignments of blocks are multiples of MIN_BLOCK, and growth has
\* room for both.
LEMMA LayoutFacts ==
  ASSUME NEW layout \in Layouts
  PROVE  /\ block_size(layout) \in Nat \ {0} /\ block_size(layout) % MIN_BLOCK = 0
         /\ block_align(layout) \in Nat \ {0} /\ block_align(layout) % MIN_BLOCK = 0
         /\ grow_pages(layout) \in Nat \ {0}
         /\ block_size(layout) + block_align(layout) < grow_pages(layout) * PAGE_SIZE
<1> DEFINE size == block_size(layout)
           align == block_align(layout)
           need == (size + align) \div PAGE_SIZE + 1
           pages == grow_pages(layout)
<1>1. /\ MIN_BLOCK \in Nat \ {0} /\ PAGE_SIZE \in Nat \ {0} /\ MinGrow \in Nat \ {0}
      /\ layout.size \in Nat \ {0} /\ layout.align \in Nat \ {0}
      /\ layout.align % MIN_BLOCK = 0 \/ MIN_BLOCK % layout.align = 0
  BY HeapAssumption DEF HeapAssumption
<1>2. MIN_BLOCK % MIN_BLOCK = 0
  BY <1>1
<1>3. size \in Nat \ {0} /\ size % MIN_BLOCK = 0
  <2>1. RoundUp(layout.size, MIN_BLOCK) \in Nat /\ RoundUp(layout.size, MIN_BLOCK) % MIN_BLOCK = 0
    BY <1>1, RoundsUp, Zenon
  <2> QED
    BY <1>1, <1>2, <2>1 DEF block_size, Larger
<1>4. align \in Nat \ {0} /\ align % MIN_BLOCK = 0
  <2>1. CASE layout.align <= MIN_BLOCK
    BY <1>1, <1>2, <2>1 DEF block_align, Larger
  <2>2. CASE layout.align > MIN_BLOCK
    <3>1. MIN_BLOCK % layout.align = MIN_BLOCK
      BY <1>1, <2>2
    <3> QED
      BY <1>1, <2>2, <3>1 DEF block_align, Larger
  <2> QED
    BY <1>1, <2>1, <2>2
<1>5. pages = Larger(need, MinGrow)
  BY DEF grow_pages
<1> HIDE DEF size, align, pages
<1>6. need \in Nat \ {0} /\ size + align < need * PAGE_SIZE
  BY <1>1, <1>3, <1>4
<1> HIDE DEF need
<1>7. pages \in Nat \ {0} /\ need <= pages
  BY <1>1, <1>5, <1>6 DEF Larger
<1>8. need * PAGE_SIZE <= pages * PAGE_SIZE
  BY <1>1, <1>6, <1>7
<1>9. size + align < pages * PAGE_SIZE
  BY <1>1, <1>3, <1>4, <1>6, <1>7, <1>8
<1> QED
  BY <1>3, <1>4, <1>7, <1>9 DEF size, align, pages

\* The lowest run of free frames.
LEMMA RunFacts ==
  ASSUME used \subseteq Frames, NEW n \in Nat \ {0}, Runs(n) # {}
  PROVE  /\ Min(Runs(n)) \in Nat /\ Run(Min(Runs(n)), n) \subseteq Frames \ used
         /\ Min(Runs(n)) + n <= NFrames
<1>1. Runs(n) \in SUBSET Nat /\ NFrames \in Nat
  BY HeapAssumption DEF Runs, Frames, HeapAssumption
<1>2. Min(Runs(n)) \in Runs(n)
  BY <1>1, LowestExists
<1> DEFINE run == Min(Runs(n))
<1> HIDE DEF run
<1>3. run \in Nat /\ run .. run + n - 1 \subseteq Frames \ used
  BY <1>1, <1>2 DEF run, Runs
<1>4. run + n - 1 \in run .. run + n - 1
  BY <1>3
<1>5. run + n - 1 \in Frames
  BY <1>3, <1>4
<1>6. run + n <= NFrames
  BY <1>1, <1>3, <1>5 DEF Frames
<1> QED
  BY <1>3, <1>6 DEF run, Run

\* The pages of a run that the heap does not have are apart from the list and
\* can be inserted.
LEMMA GrowKeeps ==
  ASSUME HeapInv, NEW n \in Nat \ {0}, Runs(n) # {}
  PROVE  LET addr == Min(Runs(n)) * PAGE_SIZE
             size == n * PAGE_SIZE
             new == insert(free, addr, size)
         IN  /\ IsList(new)
             /\ \A byte \in Nat : Holds(new, byte) <=>
                    Holds(free, byte) \/ byte \div PAGE_SIZE \in Run(Min(Runs(n)), n)
             /\ \E s \in DOMAIN new : new[s] >= size
<1> DEFINE run == Min(Runs(n))
           addr == run * PAGE_SIZE
           size == n * PAGE_SIZE
           new == insert(free, addr, size)
<1>1. /\ run \in Nat /\ Run(run, n) \subseteq Frames \ used /\ run + n <= NFrames
  BY RunFacts DEF HeapInv
<1>2. /\ PAGE_SIZE \in Nat \ {0} /\ MIN_BLOCK \in Nat \ {0} /\ NFrames \in Nat
      /\ PAGE_SIZE % MIN_BLOCK = 0
  BY HeapAssumption DEF HeapAssumption
<1> HIDE DEF run
<1>3. addr \in Nat /\ size \in Nat \ {0}
  BY <1>1, <1>2
<1>4. addr + size <= MemEnd
  <2>1. (run + n) * PAGE_SIZE <= NFrames * PAGE_SIZE
    BY <1>1, <1>2
  <2> QED
    BY <1>1, <1>2, <2>1 DEF MemEnd
<1>5. addr % MIN_BLOCK = 0 /\ size % MIN_BLOCK = 0
  <2>1. addr % PAGE_SIZE = 0 /\ size % PAGE_SIZE = 0
    BY <1>1, <1>2, MultipleOf
  <2>2. addr \in Int /\ size \in Int
    BY <1>3
  <2> HIDE DEF addr, size
  <2> QED
    BY <1>2, <2>1, <2>2, MultipleTransitive, Zenon
<1>6. \A byte \in Nat : Covers(addr, size, byte) <=> byte \div PAGE_SIZE \in Run(run, n)
  BY <1>1, PagesOf
<1> HIDE DEF addr, size
<1>7. IsList(free)
  BY DEF HeapInv
<1>8. Apart(free, addr, size)
  <2> SUFFICES ASSUME NEW byte \in Nat, Holds(free, byte), Covers(addr, size, byte)
               PROVE  FALSE
    BY DEF Apart
  <2>1. byte < MemEnd
    BY <1>2, <1>3, <1>4 DEF Covers, MemEnd
  <2>2. byte \div PAGE_SIZE \in used
    BY <2>1 DEF HeapInv
  <2> QED
    BY <1>1, <1>6, <2>2
<1>9. /\ IsList(new)
      /\ \A byte \in Nat : Holds(new, byte) <=> Holds(free, byte) \/ Covers(addr, size, byte)
      /\ \E s \in DOMAIN new : s <= addr /\ addr + size <= s + new[s]
  BY <1>3, <1>4, <1>5, <1>7, <1>8, InsertKeeps
<1> HIDE DEF new
<1>10. \E s \in DOMAIN new : new[s] >= size
  <2>1. PICK s \in DOMAIN new : s <= addr /\ addr + size <= s + new[s]
    BY <1>9
  <2>2. s \in Nat /\ new[s] \in Nat
    BY <1>9, <2>1 DEF IsList
  <2> QED
    BY <1>3, <2>1, <2>2
<1> QED
  BY <1>6, <1>9, <1>10 DEF new, addr, size, run
-----------------------------------------------------------------------------
(* The steps. *)

LEMMA InitHeap == Init => HeapInv
<1> SUFFICES ASSUME Init PROVE HeapInv
  OBVIOUS
<1> DEFINE n == INITIAL_HEAP_PAGES
           size == n * PAGE_SIZE
<1>1. /\ PAGE_SIZE \in Nat \ {0} /\ MIN_BLOCK \in Nat \ {0} /\ NFrames \in Nat
      /\ PAGE_SIZE % MIN_BLOCK = 0 /\ n \in Nat \ {0} /\ n <= NFrames
  BY HeapAssumption DEF HeapAssumption
<1> HIDE DEF n
<1>2. DOMAIN free = {0} /\ free[0] = size /\ free = [s \in {0} |-> size]
  BY DEF Init, n
<1>3. size \in Nat \ {0} /\ size <= MemEnd /\ size % PAGE_SIZE = 0
  BY <1>1, MultipleOf DEF MemEnd
<1>4. size % MIN_BLOCK = 0 /\ 0 % MIN_BLOCK = 0
  <2>1. size \in Int
    BY <1>3
  <2>2. 0 % MIN_BLOCK = 0
    BY <1>1
  <2> HIDE DEF size
  <2>3. size % MIN_BLOCK = 0
    BY <1>1, <1>3, <2>1, MultipleTransitive, Zenon
  <2> QED
    BY <2>2, <2>3
<1>5. IsList(free)
  <2> HIDE DEF size
  <2> QED
    BY <1>2, <1>3, <1>4 DEF IsList
<1>6. ASSUME NEW byte \in Nat
      PROVE  Holds(free, byte) <=> byte \div PAGE_SIZE \in used \ others
  <2>1. 0 * PAGE_SIZE = 0
    BY <1>1
  <2>2. Covers(0, size, byte) <=> byte \div PAGE_SIZE \in Run(0, n)
    BY <1>1, <2>1, PagesOf
  <2>3. used \ others = Run(0, n)
    BY DEF Init, n
  <2> HIDE DEF size
  <2> QED
    BY <1>2, <2>2, <2>3 DEF Holds
<1>7. used \subseteq Frames /\ others \subseteq used /\ live = {}
  BY <1>1 DEF Init, Run, Frames, n
<1>8. \A byte : ~ LiveAt(byte)
  BY <1>7 DEF LiveAt
<1> QED
  BY <1>5, <1>6, <1>7, <1>8 DEF HeapInv

\* A block taken from the list, or from the list grown by the frames G.
LEMMA TakenKeeps ==
  ASSUME HeapInv, NEW layout \in Layouts, NEW list, NEW t,
         NEW G \in SUBSET (Frames \ used),
         \A byte \in Nat : Holds(list, byte) <=> Holds(free, byte) \/ byte \div PAGE_SIZE \in G,
         Taken(list, block_size(layout), block_align(layout), t),
         free' = t.list, live' = live \cup {[addr |-> t.addr, layout |-> layout]},
         used' = used \cup G, others' = others
  PROVE  HeapInv'
<1> DEFINE size == block_size(layout)
           new == [addr |-> t.addr, layout |-> layout]
           block(b) == block_size(b.layout)
<1>1. new.addr = t.addr /\ new.layout = layout /\ block(new) = size
  OBVIOUS
<1>2. /\ t.addr \in Nat /\ t.addr + size <= MemEnd /\ t.addr % block_align(layout) = 0
      /\ IsList(free') /\ Apart(free', t.addr, size)
      /\ \A byte \in Nat : Holds(list, byte) <=> Holds(free', byte) \/ Covers(t.addr, size, byte)
  BY DEF Taken
<1>3. size \in Nat \ {0} /\ MemEnd \in Nat
  BY LayoutFacts, HeapAssumption DEF HeapAssumption, MemEnd
<1> HIDE DEF size, new
<1>4. used' \subseteq Frames /\ others' \subseteq used'
  BY DEF HeapInv
<1>5. LiveBlock(new)
  BY <1>1, <1>2 DEF LiveBlock, size
<1>6. live' = live \cup {new}
  BY DEF new
<1>7. \A byte \in Nat : LiveAt(byte)' <=> LiveAt(byte) \/ Covers(t.addr, size, byte)
  BY <1>1, <1>6 DEF LiveAt
<1>8. ASSUME NEW byte \in Nat, Covers(t.addr, size, byte)
      PROVE  byte < MemEnd /\ ~ LiveAt(byte)
  <2>1. byte < MemEnd
    BY <1>2, <1>3, <1>8 DEF Covers
  <2>2. Holds(list, byte)
    BY <1>2, <1>8
  <2>3. CASE Holds(free, byte)
    BY <2>1, <2>3 DEF HeapInv
  <2>4. CASE byte \div PAGE_SIZE \in G
    <3>1. byte \div PAGE_SIZE \notin used \ others
      BY <2>4
    <3> QED
      BY <2>1, <3>1 DEF HeapInv
  <2> QED
    BY <2>1, <2>2, <2>3, <2>4
<1>9. \A b \in live' : LiveBlock(b)
  BY <1>5, <1>6 DEF HeapInv
<1>10. ASSUME NEW b \in live', NEW c \in live', NEW byte \in Nat,
              Covers(b.addr, block(b), byte), Covers(c.addr, block(c), byte)
       PROVE  b = c
  <2>1. CASE b \in live /\ c \in live
    BY <1>10, <2>1 DEF HeapInv
  <2>2. CASE b = new /\ c \in live
    BY <1>1, <1>8, <1>10, <2>2 DEF LiveAt
  <2>3. CASE b \in live /\ c = new
    BY <1>1, <1>8, <1>10, <2>3 DEF LiveAt
  <2> QED
    BY <1>6, <2>1, <2>2, <2>3
<1>11. ASSUME NEW byte \in Nat PROVE ~ (Holds(free', byte) /\ LiveAt(byte)')
  <2> SUFFICES ASSUME Holds(free', byte), LiveAt(byte) PROVE FALSE
    BY <1>2, <1>7 DEF Apart
  <2>1. Holds(list, byte)
    BY <1>2
  <2>2. ~ Holds(free, byte)
    BY DEF HeapInv
  <2>3. byte \div PAGE_SIZE \notin used
    BY <2>1, <2>2
  <2>4. PICK b \in live : Covers(b.addr, block(b), byte)
    BY DEF LiveAt
  <2>5. /\ b.addr \in Nat /\ b.addr + block(b) <= MemEnd /\ block(b) \in Nat
    BY LayoutFacts DEF HeapInv, LiveBlock
  <2>6. byte < MemEnd
    BY <1>3, <2>4, <2>5 DEF Covers
  <2> QED
    BY <2>3, <2>6 DEF HeapInv
<1>12. ASSUME NEW byte \in Nat, byte < MemEnd
       PROVE  Holds(free', byte) \/ LiveAt(byte)' <=> byte \div PAGE_SIZE \in used' \ others'
  <2>1. Holds(free, byte) \/ LiveAt(byte) <=> byte \div PAGE_SIZE \in used \ others
    BY <1>12 DEF HeapInv
  <2>2. used' \ others' = (used \ others) \cup G
    BY DEF HeapInv
  <2>3. Holds(free', byte) \/ LiveAt(byte)' <=> Holds(list, byte) \/ LiveAt(byte)
    BY <1>2, <1>7
  <2> QED
    BY <2>1, <2>2, <2>3
<1> QED
  BY <1>2, <1>4, <1>9, <1>10, <1>11, <1>12 DEF HeapInv

\* alloc keeps the account, and answers null only when there is no run of pages:
\* the block that the new pages were merged into has room for the request.
LEMMA AllocKeeps ==
  ASSUME HeapInv, NEW layout \in Layouts, alloc(layout)
  PROVE  HeapInv' /\ (last' = "null" => Runs(grow_pages(layout)) = {})
<1> DEFINE size == block_size(layout)
           align == block_align(layout)
           pages == grow_pages(layout)
           run == Min(Runs(pages))
           grown == insert(free, run * PAGE_SIZE, pages * PAGE_SIZE)
<1>1. /\ size \in Nat \ {0} /\ size % MIN_BLOCK = 0
      /\ align \in Nat \ {0} /\ align % MIN_BLOCK = 0
      /\ pages \in Nat \ {0} /\ size + align < pages * PAGE_SIZE /\ PAGE_SIZE \in Nat
  BY LayoutFacts, HeapAssumption DEF HeapAssumption
<1>2. IsList(free) /\ used \subseteq Frames
  BY DEF HeapInv
<1>3. \/ /\ take(free, size, align).addr # Null \/ Runs(pages) = {}
         /\ Finish(layout, take(free, size, align)) /\ used' = used
      \/ /\ take(free, size, align).addr = Null /\ Runs(pages) # {}
         /\ Finish(layout, take(grown, size, align))
         /\ used' = used \cup Run(run, pages)
  BY DEF alloc
<1> HIDE DEF size, align, pages, run, grown
<1>4. ASSUME NEW list, Taken(list, size, align, take(list, size, align)),
             Finish(layout, take(list, size, align))
      PROVE  /\ free' = take(list, size, align).list /\ others' = others
             /\ live' = live \cup {[addr |-> take(list, size, align).addr, layout |-> layout]}
             /\ last' = "block"
  <2>1. take(list, size, align).addr # Null
    BY <1>4 DEF Taken, Null
  <2> QED
    BY <1>4, <2>1 DEF Finish
<1>5. CASE Fits(free, size, align) # {}
  <2> DEFINE t == take(free, size, align)
  <2>1. Taken(free, size, align, t)
    BY <1>1, <1>2, <1>5, TakeKeeps
  <2>2. t.addr # Null
    BY <2>1 DEF Taken, Null
  <2>3. Finish(layout, t) /\ used' = used
    BY <1>3, <2>2
  <2>4. /\ free' = t.list /\ others' = others /\ last' = "block"
        /\ live' = live \cup {[addr |-> t.addr, layout |-> layout]}
    BY <1>4, <2>1, <2>3
  <2>5. used' = used \cup {} /\ {} \in SUBSET (Frames \ used)
    BY <2>3
  <2>6. HeapInv'
    <3> HIDE DEF t
    <3> QED
      BY <2>1, <2>4, <2>5, TakenKeeps DEF size, align
  <2> QED
    BY <2>4, <2>6
<1>6. CASE Fits(free, size, align) = {} /\ Runs(pages) = {}
  <2>1. take(free, size, align) = [addr |-> Null, list |-> free]
    BY <1>1, <1>2, <1>6, TakeKeeps
  <2>2. UNCHANGED <<used, others, free, live>>
    BY <1>3, <1>6, <2>1 DEF Finish
  <2>3. HeapInv'
    BY <2>2 DEF HeapInv, LiveAt
  <2> QED
    BY <1>6, <2>3 DEF pages
<1>7. CASE Fits(free, size, align) = {} /\ Runs(pages) # {}
  <2> DEFINE t == take(grown, size, align)
             G == Run(run, pages)
  <2>1. take(free, size, align).addr = Null
    BY <1>1, <1>2, <1>7, TakeKeeps
  <2>2. Finish(layout, t) /\ used' = used \cup G
    BY <1>3, <1>7, <2>1
  <2>3. /\ IsList(grown)
        /\ \A byte \in Nat : Holds(grown, byte) <=> Holds(free, byte) \/ byte \div PAGE_SIZE \in G
        /\ \E s \in DOMAIN grown : grown[s] >= pages * PAGE_SIZE
    BY <1>1, <1>7, GrowKeeps DEF grown, run
  <2>4. Fits(grown, size, align) # {}
    <3>1. PICK s \in DOMAIN grown : grown[s] >= pages * PAGE_SIZE
      BY <2>3
    <3>2. s \in Nat /\ grown[s] \in Nat
      BY <2>3 DEF IsList
    <3>3. Pad(s, align) \in Nat /\ Pad(s, align) < align
      <4>1. /\ RoundUp(s, align) \in Nat
            /\ s <= RoundUp(s, align) /\ RoundUp(s, align) <= s + align - 1
        BY <1>1, <3>2, RoundsUp, Zenon
      <4> QED
        BY <1>1, <3>2, <4>1 DEF Pad
    <3>4. grown[s] >= Pad(s, align) + size
      BY <1>1, <3>1, <3>2, <3>3
    <3> QED
      BY <3>1, <3>4 DEF Fits
  <2>5. Taken(grown, size, align, t)
    BY <1>1, <2>3, <2>4, TakeKeeps
  <2>6. /\ free' = t.list /\ others' = others /\ last' = "block"
        /\ live' = live \cup {[addr |-> t.addr, layout |-> layout]}
    BY <1>4, <2>2, <2>5
  <2>7. G \in SUBSET (Frames \ used)
    BY <1>1, <1>2, <1>7, RunFacts DEF run
  <2>8. HeapInv'
    <3> HIDE DEF t, G
    <3> QED
      BY <2>2, <2>3, <2>5, <2>6, <2>7, TakenKeeps DEF size, align
  <2> QED
    BY <2>6, <2>8
<1> QED
  BY <1>5, <1>6, <1>7

\* dealloc: the bytes of the block go from the live ones to the list.
LEMMA DeallocKeeps ==
  ASSUME HeapInv, Dealloc
  PROVE  HeapInv'
<1>1. PICK b \in live : /\ free' = insert(free, b.addr, block_size(b.layout))
                        /\ live' = live \ {b}
  BY DEF Dealloc
<1>2. used' = used /\ others' = others
  BY DEF Dealloc
<1> DEFINE addr == b.addr
           size == block_size(b.layout)
<1>3. /\ b.layout \in Layouts /\ addr \in Nat /\ addr + size <= MemEnd
      /\ addr % block_align(b.layout) = 0
  BY DEF HeapInv, LiveBlock
<1>4. /\ size \in Nat \ {0} /\ size % MIN_BLOCK = 0
      /\ block_align(b.layout) \in Nat \ {0} /\ block_align(b.layout) % MIN_BLOCK = 0
  BY <1>3, LayoutFacts
<1>5. addr % MIN_BLOCK = 0
  <2>1. MIN_BLOCK \in Nat \ {0} /\ addr \in Int
    BY <1>3, HeapAssumption DEF HeapAssumption
  <2> QED
    BY <1>3, <1>4, <2>1, MultipleTransitive, Zenon
<1>6. IsList(free) /\ Apart(free, addr, size)
  BY DEF HeapInv, Apart, LiveAt
<1> HIDE DEF addr, size
<1>7. /\ IsList(free')
      /\ \A byte \in Nat : Holds(free', byte) <=> Holds(free, byte) \/ Covers(addr, size, byte)
  <2>1. free' = insert(free, addr, size)
    BY <1>1 DEF addr, size
  <2> QED
    BY <1>3, <1>4, <1>5, <1>6, <2>1, InsertKeeps
<1>8. ASSUME NEW byte \in Nat
      PROVE  /\ LiveAt(byte) <=> LiveAt(byte)' \/ Covers(addr, size, byte)
             /\ ~ (LiveAt(byte)' /\ Covers(addr, size, byte))
  <2>1. LiveAt(byte) <=> LiveAt(byte)' \/ Covers(addr, size, byte)
    BY <1>1 DEF LiveAt, addr, size
  <2>2. ASSUME LiveAt(byte)', Covers(addr, size, byte) PROVE FALSE
    <3>1. PICK c \in live \ {b} : Covers(c.addr, block_size(c.layout), byte)
      BY <1>1, <2>2 DEF LiveAt
    <3> QED
      BY <2>2, <3>1 DEF HeapInv, addr, size
  <2> QED
    BY <2>1, <2>2
<1>9. used' \subseteq Frames /\ others' \subseteq used' /\ \A c \in live' : LiveBlock(c)
  BY <1>1, <1>2 DEF HeapInv
<1>10. \A c, d \in live', byte \in Nat :
        /\ Covers(c.addr, block_size(c.layout), byte)
        /\ Covers(d.addr, block_size(d.layout), byte)
        => c = d
  BY <1>1 DEF HeapInv
<1>11. ASSUME NEW byte \in Nat
       PROVE  /\ ~ (Holds(free', byte) /\ LiveAt(byte)')
              /\ byte < MemEnd => (Holds(free', byte) \/ LiveAt(byte)' <=>
                                    byte \div PAGE_SIZE \in used' \ others')
  <2>1. /\ ~ (Holds(free, byte) /\ LiveAt(byte))
        /\ byte < MemEnd => (Holds(free, byte) \/ LiveAt(byte) <=>
                                byte \div PAGE_SIZE \in used \ others)
    BY DEF HeapInv
  <2> QED
    BY <1>2, <1>7, <1>8, <2>1
<1> QED
  BY <1>7, <1>9, <1>10, <1>11 DEF HeapInv

\* The frames of other users are not the heap's, before and after.
LEMMA OthersKeep ==
  ASSUME HeapInv, OthersTake \/ OthersFree
  PROVE  HeapInv'
<1>1. UNCHANGED <<free, live>>
  BY DEF OthersTake, OthersFree
<1>2. used' \subseteq Frames /\ others' \subseteq used' /\ used' \ others' = used \ others
  <2>1. CASE OthersTake
    <3> DEFINE f == Min(Runs(1))
    <3>1. f \in Nat /\ Run(f, 1) \subseteq Frames \ used
      BY <2>1, RunFacts DEF HeapInv, OthersTake
    <3> HIDE DEF f
    <3>2. f \in Run(f, 1)
      BY <3>1 DEF Run
    <3>3. used' = used \cup {f} /\ others' = others \cup {f}
      BY <2>1 DEF OthersTake, f
    <3> QED
      BY <3>1, <3>2, <3>3 DEF HeapInv
  <2>2. CASE OthersFree
    BY <2>2 DEF HeapInv, OthersFree
  <2> QED
    BY <2>1, <2>2
<1> QED
  BY <1>1, <1>2 DEF HeapInv, LiveAt
-----------------------------------------------------------------------------
(* Theorems. *)

\* The account of the heap's bytes is kept by every call of alloc and dealloc
\* and by every other user of the page frames.
THEOREM HeapInvariance == Spec => []HeapInv
<1>1. HeapInv /\ [Next]_vars => HeapInv'
  <2> SUFFICES ASSUME HeapInv, [Next]_vars PROVE HeapInv'
    OBVIOUS
  <2>1. CASE Alloc
    BY <2>1, AllocKeeps DEF Alloc
  <2>2. CASE Dealloc
    BY <2>2, DeallocKeeps
  <2>3. CASE OthersTake \/ OthersFree
    BY <2>3, OthersKeep
  <2>4. CASE UNCHANGED vars
    BY <2>4 DEF HeapInv, LiveAt, vars
  <2> QED
    BY <2>1, <2>2, <2>3, <2>4 DEF Next
<1> QED
  BY <1>1, InitHeap, PTL DEF Spec

\* A set with at most one element.
LEMMA AtMostOne ==
  ASSUME NEW S, \A x, y \in S : x = y
  PROVE  Cardinality(S) = IF S = {} THEN 0 ELSE 1
<1>1. CASE S = {}
  BY <1>1, FS_EmptySet
<1>2. CASE S # {}
  <2>1. PICK x : S = {x}
    BY <1>2
  <2>2. Cardinality({x}) = 1
    BY FS_Singleton
  <2> QED
    BY <1>2, <2>1, <2>2
<1> QED
  BY <1>1, <1>2

\* Whatever is allocated and freed in whatever order, each byte of the heap's
\* pages is in one free or one live block and no other byte is in any; blocks
\* are aligned as asked and a free block can hold its header.
THEOREM HeapTiled == Spec => []Tiled
<1>1. HeapInv => Tiled
  <2> SUFFICES ASSUME HeapInv PROVE Tiled
    OBVIOUS
  <2>1. ASSUME NEW byte \in 0 .. NFrames * PAGE_SIZE - 1
        PROVE  Cardinality({s \in DOMAIN free : Covers(s, free[s], byte)})
               + Cardinality({b \in live : Covers(b.addr, block_size(b.layout), byte)})
               = IF byte \div PAGE_SIZE \in used \ others THEN 1 ELSE 0
    <3> DEFINE F == {s \in DOMAIN free : Covers(s, free[s], byte)}
               L == {b \in live : Covers(b.addr, block_size(b.layout), byte)}
    <3>1. byte \in Nat /\ byte < MemEnd
      BY HeapAssumption DEF HeapAssumption, MemEnd
    <3>2. ASSUME NEW s \in F, NEW t \in F PROVE s = t
      <4>1. /\ s \in Nat /\ t \in Nat /\ free[s] \in Nat /\ free[t] \in Nat
            /\ s < t => s + free[s] < t
            /\ t < s => t + free[t] < s
        BY DEF HeapInv, IsList
      <4>2. s <= byte /\ byte < s + free[s] /\ t <= byte /\ byte < t + free[t]
        BY DEF Covers
      <4> QED
        BY <3>1, <4>1, <4>2
    <3>3. \A b, c \in L : b = c
      BY <3>1 DEF HeapInv
    <3>4. F # {} <=> Holds(free, byte)
      BY DEF Holds
    <3>5. L # {} <=> LiveAt(byte)
      BY DEF LiveAt
    <3>6. /\ ~ (Holds(free, byte) /\ LiveAt(byte))
          /\ Holds(free, byte) \/ LiveAt(byte) <=> byte \div PAGE_SIZE \in used \ others
      BY <3>1 DEF HeapInv
    <3> HIDE DEF F, L
    <3>7. /\ Cardinality(F) = IF F = {} THEN 0 ELSE 1
          /\ Cardinality(L) = IF L = {} THEN 0 ELSE 1
      BY <3>2, <3>3, AtMostOne
    <3>8. Cardinality(F) + Cardinality(L) = IF byte \div PAGE_SIZE \in used \ others THEN 1 ELSE 0
      BY <3>4, <3>5, <3>6, <3>7
    <3> QED
      BY <3>8 DEF F, L
  <2>2. \A b \in live : b.addr % block_align(b.layout) = 0
    BY DEF HeapInv, LiveBlock
  <2>3. ASSUME NEW s \in DOMAIN free PROVE s % MIN_BLOCK = 0 /\ free[s] >= MIN_BLOCK
    <3>1. s % MIN_BLOCK = 0 /\ free[s] \in Nat \ {0} /\ free[s] % MIN_BLOCK = 0
      BY DEF HeapInv, IsList
    <3>2. MIN_BLOCK \in Nat \ {0}
      BY HeapAssumption DEF HeapAssumption
    <3>3. free[s] < MIN_BLOCK => free[s] % MIN_BLOCK = free[s]
      BY <3>1, <3>2
    <3> QED
      BY <3>1, <3>2, <3>3
  <2> QED
    BY <2>1, <2>2, <2>3 DEF Tiled
<1> QED
  BY <1>1, HeapInvariance, PTL

\* No free block ends where another begins: insert merged them.
THEOREM HeapCoalesced == Spec => []Coalesced
<1>1. HeapInv => Coalesced
  <2> SUFFICES ASSUME HeapInv, NEW s \in DOMAIN free, s + free[s] \in DOMAIN free
               PROVE  FALSE
    BY DEF Coalesced
  <2>1. s \in Nat /\ free[s] \in Nat \ {0} /\ \A t \in DOMAIN free : s < t => s + free[s] < t
    BY DEF HeapInv, IsList
  <2> QED
    BY <2>1
<1> QED
  BY <1>1, HeapInvariance, PTL

\* alloc answers null only when the page allocator has no run of the pages it
\* asks for, whatever the layout and however the new pages were merged.
THEOREM GrowthSuffices == Spec => NullOnlyWithoutPages
<1>1. HeapInv /\ [Next]_vars =>
        [\A layout \in Layouts :
            alloc(layout) /\ last' = "null" => Runs(grow_pages(layout)) = {}]_vars
  BY AllocKeeps
<1> QED
  BY <1>1, HeapInvariance, PTL DEF Spec, NullOnlyWithoutPages
=============================================================================
