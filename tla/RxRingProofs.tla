---------------------------- MODULE RxRingProofs ----------------------------
(***************************************************************************)
(* The console ring implements a bounded FIFO, for every ring size and     *)
(* every alphabet.                                                         *)
(***************************************************************************)
EXTENDS RxRing, SequenceTheorems, TLAPS

Items == Bytes \cup {"NUL"}

RingInv ==
    /\ buf \in [Cells -> Items]
    /\ head \in Cells /\ tail \in Cells

\* The cell i places after cell c, and the number of bytes from tail to head.
CellAt(c, i) == IF c + i < RX_BUF_SIZE THEN c + i ELSE c + i - RX_BUF_SIZE
Count(h, t) == IF t <= h THEN h - t ELSE h + RX_BUF_SIZE - t

\* What the remainders of the ring's index arithmetic are.
LEMMA CellArithmetic ==
  ASSUME NEW c \in Cells
  PROVE  /\ \A i \in 0 .. RX_BUF_SIZE - 1 :
              (c + i) % RX_BUF_SIZE = CellAt(c, i) /\ CellAt(c, i) \in Cells
         /\ (c + 1) % RX_BUF_SIZE = CellAt(c, 1) /\ CellAt(c, 1) \in Cells
         /\ \A t \in Cells : /\ (c + RX_BUF_SIZE - t) % RX_BUF_SIZE = Count(c, t)
                             /\ Count(c, t) \in 0 .. RX_BUF_SIZE - 1
BY RingAssumption DEF RingAssumption, Cells, CellAt, Count

\* The bytes of a ring as a sequence.
Buffered(b, h, t) ==
    [i \in 1 .. (h + RX_BUF_SIZE - t) % RX_BUF_SIZE |-> b[(t + i - 1) % RX_BUF_SIZE]]

\* It has Count bytes, from the cell at the tail on.
LEMMA BufferedFacts ==
  ASSUME NEW b \in [Cells -> Items], NEW h \in Cells, NEW t \in Cells
  PROVE  /\ Buffered(b, h, t) \in Seq(Items) /\ Len(Buffered(b, h, t)) = Count(h, t)
         /\ \A i \in 1 .. Count(h, t) : Buffered(b, h, t)[i] = b[CellAt(t, i - 1)]
<1> DEFINE n == Count(h, t)
<1>0. n \in 0 .. RX_BUF_SIZE - 1 /\ (h + RX_BUF_SIZE - t) % RX_BUF_SIZE = n
  BY CellArithmetic, Zenon
<1>1. n \in Nat /\ n \in 0 .. RX_BUF_SIZE - 1 /\ (h + RX_BUF_SIZE - t) % RX_BUF_SIZE = n
  BY <1>0
<1>2. ASSUME NEW i \in 1 .. n
      PROVE  (t + i - 1) % RX_BUF_SIZE = CellAt(t, i - 1) /\ CellAt(t, i - 1) \in Cells
  <2>1. i - 1 \in 0 .. RX_BUF_SIZE - 1 /\ t + i - 1 = t + (i - 1)
    BY <1>1, <1>2, RingAssumption DEF RingAssumption, Cells
  <2> QED
    BY <2>1, CellArithmetic
<1> HIDE DEF n
<1>3. Buffered(b, h, t) = [i \in 1 .. n |-> b[(t + i - 1) % RX_BUF_SIZE]]
  BY <1>1 DEF Buffered
<1>4. \A i \in 1 .. n : b[(t + i - 1) % RX_BUF_SIZE] \in Items
  BY <1>2
<1> QED
  BY <1>1, <1>2, <1>3, <1>4 DEF n

\* A byte stored at the head comes last, unless the ring is full.
LEMMA StoreAppends ==
  ASSUME NEW b \in [Cells -> Items], NEW h \in Cells, NEW t \in Cells, NEW x \in Items
  PROVE  /\ CellAt(h, 1) # t <=> Count(h, t) < RX_BUF_SIZE - 1
         /\ CellAt(h, 1) # t =>
              Buffered([b EXCEPT ![h] = x], CellAt(h, 1), t) = Append(Buffered(b, h, t), x)
<1>1. CellAt(h, 1) # t <=> Count(h, t) < RX_BUF_SIZE - 1
  BY RingAssumption DEF RingAssumption, Cells, CellAt, Count
<1>2. ASSUME CellAt(h, 1) # t
      PROVE  Buffered([b EXCEPT ![h] = x], CellAt(h, 1), t) = Append(Buffered(b, h, t), x)
  <2> DEFINE old == Buffered(b, h, t)
             new == Buffered([b EXCEPT ![h] = x], CellAt(h, 1), t)
             n == Count(h, t)
  <2>1. /\ n \in Nat /\ Count(CellAt(h, 1), t) = n + 1 /\ CellAt(t, n) = h
        /\ \A i \in 1 .. n : CellAt(t, i - 1) # h /\ CellAt(t, i - 1) \in Cells
    BY <1>2, RingAssumption DEF RingAssumption, Cells, CellAt, Count
  <2>2. CellAt(h, 1) \in Cells /\ [b EXCEPT ![h] = x] \in [Cells -> Items]
    BY CellArithmetic
  <2>3. /\ old \in Seq(Items) /\ Len(old) = n
        /\ \A i \in 1 .. n : old[i] = b[CellAt(t, i - 1)]
    BY BufferedFacts
  <2>4. /\ new \in Seq(Items) /\ Len(new) = n + 1
        /\ \A i \in 1 .. n + 1 : new[i] = [b EXCEPT ![h] = x][CellAt(t, i - 1)]
    <3>1. ASSUME NEW c \in [Cells -> Items], NEW g \in Cells, Count(g, t) = n + 1
          PROVE  /\ Buffered(c, g, t) \in Seq(Items) /\ Len(Buffered(c, g, t)) = n + 1
                 /\ \A i \in 1 .. n + 1 : Buffered(c, g, t)[i] = c[CellAt(t, i - 1)]
      <4>1. /\ Buffered(c, g, t) \in Seq(Items) /\ Len(Buffered(c, g, t)) = Count(g, t)
            /\ \A i \in 1 .. Count(g, t) : Buffered(c, g, t)[i] = c[CellAt(t, i - 1)]
        BY BufferedFacts, Zenon
      <4> QED
        BY <3>1, <4>1, Zenon
    <3> QED
      BY <2>1, <2>2, <3>1, Zenon
  <2>5. /\ Append(old, x) \in Seq(Items) /\ Len(Append(old, x)) = n + 1
        /\ \A i \in 1 .. n : Append(old, x)[i] = old[i]
        /\ Append(old, x)[n + 1] = x
    BY <2>3, AppendProperties
  <2> HIDE DEF old, new, n
  <2>6. \A i \in 1 .. n : new[i] = Append(old, x)[i]
    BY <2>1, <2>3, <2>4, <2>5
  <2>7. new[n + 1] = x
    BY <2>1, <2>4
  <2>8. \A i \in 1 .. n + 1 : new[i] = Append(old, x)[i]
    BY <2>1, <2>5, <2>6, <2>7
  <2> QED
    BY <2>4, <2>5, <2>8, SeqEqual DEF old, new
<1> QED
  BY <1>1, <1>2

\* The byte read at the tail is the first one, and is gone.
LEMMA ReadTakes ==
  ASSUME NEW b \in [Cells -> Items], NEW h \in Cells, NEW t \in Cells
  PROVE  /\ h = t <=> Buffered(b, h, t) = <<>>
         /\ h # t => /\ Head(Buffered(b, h, t)) = b[t]
                     /\ Buffered(b, h, CellAt(t, 1)) = Tail(Buffered(b, h, t))
<1> DEFINE old == Buffered(b, h, t)
           new == Buffered(b, h, CellAt(t, 1))
           n == Count(h, t)
<1>1. n \in Nat /\ (h = t <=> n = 0)
  BY RingAssumption DEF RingAssumption, Cells, Count
<1>2. /\ old \in Seq(Items) /\ Len(old) = n
      /\ \A i \in 1 .. n : old[i] = b[CellAt(t, i - 1)]
  BY BufferedFacts
<1>3. old = <<>> <=> n = 0
  BY <1>2, EmptySeq
<1>4. ASSUME h # t PROVE Head(old) = b[t] /\ new = Tail(old)
  <2>1. /\ n > 0 /\ Count(h, CellAt(t, 1)) = n - 1 /\ CellAt(t, 0) = t
        /\ \A i \in 1 .. n - 1 : CellAt(CellAt(t, 1), i - 1) = CellAt(t, i)
    BY <1>4, RingAssumption DEF RingAssumption, Cells, CellAt, Count
  <2>2. CellAt(t, 1) \in Cells
    BY CellArithmetic
  <2>3. /\ new \in Seq(Items) /\ Len(new) = n - 1
        /\ \A i \in 1 .. n - 1 : new[i] = b[CellAt(t, i)]
    <3>1. ASSUME NEW u \in Cells, Count(h, u) = n - 1
          PROVE  /\ Buffered(b, h, u) \in Seq(Items) /\ Len(Buffered(b, h, u)) = n - 1
                 /\ \A i \in 1 .. n - 1 : Buffered(b, h, u)[i] = b[CellAt(u, i - 1)]
      BY <3>1, BufferedFacts
    <3>2. /\ new \in Seq(Items) /\ Len(new) = n - 1
          /\ \A i \in 1 .. n - 1 : new[i] = b[CellAt(CellAt(t, 1), i - 1)]
      BY <2>1, <2>2, <3>1, Zenon
    <3> QED
      BY <2>1, <3>2, Zenon
  <2> HIDE DEF old, new, n
  <2>4. /\ Tail(old) \in Seq(Items) /\ Len(Tail(old)) = n - 1
        /\ \A i \in 1 .. n - 1 : Tail(old)[i] = old[i + 1]
    BY <1>2, <1>3, <2>1, HeadTailProperties
  <2>5. \A i \in 1 .. n - 1 : Tail(old)[i] = new[i]
    <3> TAKE i \in 1 .. n - 1
    <3>1. i + 1 \in 1 .. n /\ (i + 1) - 1 = i
      BY <1>1
    <3> QED
      BY <1>2, <2>3, <2>4, <3>1
  <2>6. new = Tail(old)
    BY <2>3, <2>4, <2>5, SeqEqual
  <2>7. Head(old) = old[1] /\ old[1] = b[CellAt(t, 1 - 1)]
    BY <1>1, <1>2, <2>1
  <2> QED
    BY <2>1, <2>6, <2>7
<1> QED
  BY <1>1, <1>3, <1>4

\* Indices stay in the ring.
LEMMA RingStep == RingInv /\ [Next]_ringVars => RingInv'
<1> SUFFICES ASSUME RingInv, [Next]_ringVars PROVE RingInv'
  OBVIOUS
<1>1. CASE read_byte
  BY <1>1, CellArithmetic DEF RingInv, read_byte
<1>2. ASSUME NEW b \in Typed, store_byte(b) PROVE RingInv'
  <2>1. Translate(b) \in Items
    BY RingAssumption DEF RingAssumption, Translate, Items, Bytes
  <2> QED
    BY <1>2, <2>1, CellArithmetic DEF RingInv, store_byte
<1>3. CASE UNCHANGED ringVars
  BY <1>3 DEF RingInv, ringVars
<1> QED
  BY <1>1, <1>2, <1>3 DEF Next

\* A step of the ring is a step of the FIFO.
LEMMA FifoStep == RingInv /\ [Next]_ringVars => [Fifo!Next]_<<Contents, got>>
<1> SUFFICES ASSUME RingInv, [Next]_ringVars PROVE [Fifo!Next]_<<Contents, got>>
  OBVIOUS
<1>1. Contents = Buffered(buf, head, tail) /\ Contents' = Buffered(buf', head', tail')
  BY DEF Contents, Buffered
<1>2. buf \in [Cells -> Items] /\ head \in Cells /\ tail \in Cells
  BY DEF RingInv
<1>3. CASE read_byte
  <2>1. CASE head = tail
    <3>1. Contents = <<>> /\ Contents' = Contents /\ got' = "None"
      BY <1>1, <1>2, <1>3, <2>1, ReadTakes DEF read_byte
    <3> QED
      BY <3>1 DEF Fifo!Next, Fifo!Take
  <2>2. CASE head # tail
    <3>1. tail' = CellAt(tail, 1) /\ buf' = buf /\ head' = head /\ got' = buf[tail]
      BY <1>2, <1>3, <2>2, CellArithmetic DEF read_byte
    <3>2. Contents # <<>> /\ got' = Head(Contents) /\ Contents' = Tail(Contents)
      BY <1>1, <1>2, <2>2, <3>1, ReadTakes
    <3> QED
      BY <3>2 DEF Fifo!Next, Fifo!Take
  <2> QED
    BY <2>1, <2>2
<1>4. ASSUME NEW b \in Typed, store_byte(b) PROVE Fifo!Next
  <2> DEFINE x == Translate(b)
  <2>1. x \in Bytes /\ x \in Items
    BY RingAssumption DEF RingAssumption, Translate, Items, Bytes
  <2>2. (head + 1) % RX_BUF_SIZE = CellAt(head, 1)
    BY <1>2, CellArithmetic
  <2>3. /\ IF CellAt(head, 1) # tail
           THEN buf' = [buf EXCEPT ![head] = x] /\ head' = CellAt(head, 1)
           ELSE UNCHANGED <<buf, head>>
        /\ UNCHANGED <<tail, got>>
    BY <1>4, <2>2 DEF store_byte
  <2> HIDE DEF x
  <2>4. Len(Contents) = Count(head, tail)
    BY <1>1, <1>2, BufferedFacts
  <2>5. Contents' = IF Len(Contents) < RX_BUF_SIZE - 1 THEN Append(Contents, x) ELSE Contents
    <3>1. /\ CellAt(head, 1) # tail <=> Count(head, tail) < RX_BUF_SIZE - 1
          /\ CellAt(head, 1) # tail =>
               Buffered([buf EXCEPT ![head] = x], CellAt(head, 1), tail)
                 = Append(Buffered(buf, head, tail), x)
      BY <1>2, <2>1, StoreAppends, Zenon
    <3>2. CASE CellAt(head, 1) # tail
      BY <1>1, <2>3, <2>4, <3>1, <3>2
    <3>3. CASE CellAt(head, 1) = tail
      BY <1>1, <2>3, <2>4, <3>1, <3>3
    <3> QED
      BY <3>2, <3>3
  <2> QED
    BY <2>1, <2>3, <2>5 DEF Fifo!Next, Fifo!Arrive
<1>5. CASE UNCHANGED ringVars
  BY <1>1, <1>5 DEF ringVars
<1> QED
  BY <1>3, <1>4, <1>5 DEF Next

\* The ring is a FIFO of RX_BUF_SIZE - 1 bytes for every RX_BUF_SIZE
\* (handle_interrupt, read_byte).
THEOREM RingIsFifo == Spec => ImplementsFifo
<1>1. Init => RingInv
  BY RingAssumption DEF RingAssumption, Init, RingInv, Cells, Items
<1>2. Init /\ RingInv => Fifo!Init
  <2> SUFFICES ASSUME Init, RingInv PROVE Fifo!Init
    OBVIOUS
  <2>1. Contents = Buffered(buf, head, tail) /\ head = tail /\ got = "None"
    BY DEF Contents, Buffered, Init
  <2> QED
    BY <2>1, ReadTakes DEF RingInv, Fifo!Init
<1> QED
  BY <1>1, <1>2, RingStep, FifoStep, PTL DEF Spec, ImplementsFifo, Fifo!Spec
=============================================================================
