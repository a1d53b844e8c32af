--------------------------- MODULE VirtioNetProofs ---------------------------
(***************************************************************************)
(* Theorems about the network driver, for every set of frames, number of   *)
(* sends, queue size and index modulus: what an Ok of send means, and that *)
(* receive is a FIFO that never loses a buffer.                            *)
(***************************************************************************)
EXTENDS VirtioNet, SequenceTheorems, TLAPS

\* An index advanced stays an index, and moves.
LEMMA NextIndex ==
  ASSUME NEW i \in 0 .. IdxMod - 1
  PROVE  Next1(i) \in 0 .. IdxMod - 1 /\ Next1(i) # i
BY NetAssumption DEF NetAssumption, Next1
-----------------------------------------------------------------------------
(* The inductive invariant. *)

\* No chain is with the device, and the wire has a frame for every send.
Drained ==
    /\ tx_used_idx = tx_avail_idx
    /\ Len(wire) = sends
    /\ sends > 0 => wire[sends] = frame

\* The one chain there is waits for the device.
Outstanding == tx_used_idx = tx_last_used /\ Len(wire) + 1 = sends

\* Where a frame can be before anybody has given up on one.
OneChain ==
    /\ pc = "idle" => Drained /\ tx_avail_idx = tx_last_used
    /\ pc = "polling" => /\ tx_avail_idx = Next1(tx_last_used)
                         /\ tx_buf = frame
                         /\ Drained \/ Outstanding

TxTypes ==
    /\ tx_last_used \in 0 .. IdxMod - 1
    /\ sends \in Nat /\ timeouts \in Nat
    /\ pc \in {"idle", "polling"}
    /\ tx_buf \in Frames \cup {"None"} /\ wire \in Seq(Frames \cup {"None"})
    /\ pc = "polling" \/ result = "Ok" => sends > 0

TxInv == TxTypes /\ (timeouts = 0 => OneChain)

\* A fresh queue satisfies it.
LEMMA TxInit == Init => TxInv
BY NetAssumption DEF NetAssumption, Init, TxInv, TxTypes, OneChain, Drained

\* Every step keeps the types; an Ok belongs to a send.
LEMMA TypesStep == TxInv /\ [Next]_vars => TxTypes'
<1> SUFFICES ASSUME TxInv, [Next]_vars PROVE TxTypes'
  OBVIOUS
<1> USE DEF TxInv, TxTypes
<1>1. CASE DeviceReceives \/ poll_rx \/ UNCHANGED vars
  BY <1>1 DEF DeviceReceives, poll_rx, vars, txVars
<1>2. CASE send
  BY <1>2 DEF send
<1>3. CASE SendTooLarge \/ SendTimesOut
  BY <1>3 DEF SendTooLarge, SendTimesOut
<1>4. CASE SendCompletes
  BY <1>4, NextIndex DEF SendCompletes
<1>5. CASE DeviceTransmits
  BY <1>5 DEF DeviceTransmits
<1> QED
  BY <1>1, <1>2, <1>3, <1>4, <1>5 DEF Next

\* Until a send is given up there is one chain and one answer to it.
LEMMA ChainStep ==
  ASSUME TxInv, [Next]_vars, timeouts' = 0
  PROVE  OneChain'
<1>1. timeouts = 0 /\ ~SendTimesOut
  BY DEF TxInv, TxTypes, Next, DeviceReceives, poll_rx, send, SendTooLarge,
         SendCompletes, SendTimesOut, DeviceTransmits, vars, txVars
<1>2. TxTypes /\ OneChain
  BY <1>1 DEF TxInv
<1>3. Next1(tx_last_used) # tx_last_used
  BY <1>2, NextIndex DEF TxTypes
<1>4. CASE DeviceReceives \/ poll_rx \/ UNCHANGED vars
  BY <1>2, <1>4 DEF DeviceReceives, poll_rx, vars, txVars, OneChain, Drained, Outstanding
<1>5. CASE send
  BY <1>2, <1>5 DEF send, TxTypes, OneChain, Drained, Outstanding
<1>6. CASE SendTooLarge
  BY <1>2, <1>6 DEF SendTooLarge, OneChain, Drained
<1>7. CASE SendCompletes
  BY <1>2, <1>7 DEF SendCompletes, OneChain, Drained, Outstanding
<1>8. CASE DeviceTransmits
  <2>1. pc = "polling" /\ Outstanding /\ tx_avail_idx = Next1(tx_last_used) /\ tx_buf = frame
    BY <1>2, <1>8 DEF DeviceTransmits, TxTypes, OneChain, Drained
  <2>2. Len(wire') = Len(wire) + 1 /\ wire'[Len(wire) + 1] = tx_buf
    BY <1>2, <1>8 DEF DeviceTransmits, TxTypes
  <2>3. Drained'
    BY <1>8, <2>1, <2>2 DEF DeviceTransmits, Drained, Outstanding
  <2> QED
    BY <1>2, <1>8, <2>1, <2>3 DEF DeviceTransmits, OneChain
<1> QED
  BY <1>1, <1>4, <1>5, <1>6, <1>7, <1>8 DEF Next

\* The invariant holds in every reachable state.
THEOREM TxInvariance == Spec => []TxInv
<1>1. TxInv /\ [Next]_vars => TxInv'
  BY TypesStep, ChainStep DEF TxInv
<1> QED
  BY TxInit, <1>1, PTL DEF Spec

\* As long as no send timed out, Ok means that the frame left, once and after
\* the frames sent before it, although one buffer carries them all (send()).
THEOREM OkMeansSent == Spec => []SentUntilTimeout
<1>1. TxInv => SentUntilTimeout
  BY DEF TxInv, TxTypes, OneChain, Drained, SentUntilTimeout
<1> QED
  BY TxInvariance, <1>1, PTL
-----------------------------------------------------------------------------
(* Arithmetic of the ring indices. *)

\* Division with remainder.
LEMMA Division ==
  ASSUME NEW q \in Nat \ {0}, NEW x \in Int
  PROVE  \E d \in Int, r \in 0 .. q - 1 : x = q * d + r /\ x % q = r
OBVIOUS

\* The remainder is the only one.
LEMMA Remainder ==
  ASSUME NEW q \in Nat \ {0}, NEW d \in Int, NEW r \in 0 .. q - 1
  PROVE  \A x \in Int : x = q * d + r => x % q = r
OBVIOUS

\* Numbers a multiple of q apart have the same remainder.
LEMMA Congruent ==
  ASSUME NEW q \in Nat \ {0}, NEW x \in Int, NEW y \in Int, NEW d \in Int,
         y = x + q * d
  PROVE  y % q = x % q
<1>1. PICK e \in Int, r \in 0 .. q - 1 : x = q * e + r /\ x % q = r
  BY Division
<1> DEFINE f == e + d
<1>2. y = q * f + r /\ f \in Int
  BY <1>1
<1> HIDE DEF f
<1> QED
  BY <1>1, <1>2, Remainder

\* Numbers with the same remainder are a multiple of q apart.
LEMMA Apart ==
  ASSUME NEW q \in Nat \ {0}, NEW x \in Int, NEW y \in Int, x % q = y % q
  PROVE  \E d \in Int : x - y = q * d
<1>1. PICK d \in Int, r \in 0 .. q - 1 : x = q * d + r /\ x % q = r
  BY Division
<1>2. PICK e \in Int, s \in 0 .. q - 1 : y = q * e + s /\ y % q = s
  BY Division
<1>3. x - y = q * (d - e) /\ d - e \in Int
  BY <1>1, <1>2
<1> QED
  BY <1>3

Index == 0 .. IdxMod - 1

\* The index n places after i.
After(i, n) == (i + n) % IdxMod

\* Advancing an index before or after going n places is going one place more.
LEMMA AfterNext ==
  ASSUME NEW i \in Index, NEW n \in Nat
  PROVE  /\ After(i, n) \in Index /\ After(i, 0) = i /\ Next1(i) \in Index
         /\ Next1(After(i, n)) = After(i, n + 1)
         /\ After(Next1(i), n) = After(i, n + 1)
<1>1. IdxMod \in Nat \ {0}
  BY NetAssumption DEF NetAssumption
<1>2. After(i, n) \in Index /\ After(i, 0) = i /\ Next1(i) \in Index
  BY <1>1 DEF After, Index, Next1
<1>3. Next1(After(i, n)) = After(i, n + 1)
  <2>0. i + n \in Int
    BY DEF Index
  <2>1. PICK d \in Int, r \in Index : i + n = IdxMod * d + r /\ (i + n) % IdxMod = r
    BY <1>1, <2>0, Division, Zenon DEF Index
  <2>2. i + (n + 1) = (r + 1) + IdxMod * d /\ r + 1 \in Int /\ i + (n + 1) \in Int
    BY <1>1, <2>1 DEF Index
  <2>3. (i + (n + 1)) % IdxMod = (r + 1) % IdxMod
    BY <1>1, <2>2, Congruent
  <2> QED
    BY <2>1, <2>3 DEF After, Next1
<1>4. After(Next1(i), n) = After(i, n + 1)
  <2>0. i + 1 \in Int
    BY DEF Index
  <2>1. PICK d \in Int, r \in Index : i + 1 = IdxMod * d + r /\ (i + 1) % IdxMod = r
    BY <1>1, <2>0, Division, Zenon DEF Index
  <2>2. i + (n + 1) = (r + n) + IdxMod * d /\ r + n \in Int /\ i + (n + 1) \in Int
    BY <1>1, <2>1 DEF Index
  <2>3. (i + (n + 1)) % IdxMod = (r + n) % IdxMod
    BY <1>1, <2>2, Congruent
  <2> QED
    BY <2>1, <2>3 DEF After, Next1
<1> QED
  BY <1>2, <1>3, <1>4

\* The distance of two indices that are less than a turn apart.
LEMMA Distance ==
  ASSUME NEW i \in Index, NEW m \in Nat, NEW n \in Nat, m <= n, n - m < IdxMod
  PROVE  (After(i, n) - After(i, m)) % IdxMod = n - m
<1>1. IdxMod \in Nat \ {0}
  BY NetAssumption DEF NetAssumption
<1>0. i + n \in Int /\ i + m \in Int
  BY DEF Index
<1>2. PICK d \in Int, r \in Index : i + n = IdxMod * d + r /\ (i + n) % IdxMod = r
  BY <1>0, <1>1, Division, Zenon DEF Index
<1>3. PICK e \in Int, s \in Index : i + m = IdxMod * e + s /\ (i + m) % IdxMod = s
  BY <1>0, <1>1, Division, Zenon DEF Index
<1>4. r - s = (n - m) + IdxMod * (e - d) /\ e - d \in Int /\ r - s \in Int /\ n - m \in Int
  BY <1>1, <1>2, <1>3 DEF Index
<1>5. (r - s) % IdxMod = (n - m) % IdxMod
  BY <1>1, <1>4, Congruent
<1>6. (n - m) % IdxMod = n - m
  BY <1>1
<1> QED
  BY <1>2, <1>3, <1>5, <1>6 DEF After

\* An index that wraps stays at its cell: the modulus is a multiple of the size.
LEMMA CellWraps ==
  ASSUME NEW x \in Int
  PROVE  Cell(x % IdxMod) = Cell(x) /\ Cell(x) \in Ring
<1>1. QUEUE_SIZE \in Nat \ {0} /\ IdxMod \in Nat \ {0}
  BY NetAssumption DEF NetAssumption
<1>2. PICK k \in Int : IdxMod = QUEUE_SIZE * k
  <2>1. IdxMod % QUEUE_SIZE = 0 % QUEUE_SIZE
    BY <1>1, NetAssumption DEF NetAssumption
  <2>2. PICK k \in Int : IdxMod - 0 = QUEUE_SIZE * k
    <3>1. IdxMod \in Int /\ 0 \in Int
      BY <1>1
    <3> QED
      BY <1>1, <2>1, <3>1, Apart, Zenon
  <2> QED
    BY <1>1, <2>2
<1>3. PICK d \in Int, r \in Index : x = IdxMod * d + r /\ x % IdxMod = r
  BY <1>1, Division DEF Index
<1>4. x = r + QUEUE_SIZE * (k * d) /\ k * d \in Int /\ r \in Int
  BY <1>1, <1>2, <1>3 DEF Index
<1>5. x % QUEUE_SIZE = r % QUEUE_SIZE
  BY <1>1, <1>4, Congruent
<1>6. x % QUEUE_SIZE \in Ring
  BY <1>1 DEF Ring
<1> QED
  BY <1>3, <1>5, <1>6 DEF Cell

\* QUEUE_SIZE consecutive indices visit every cell, each once.
LEMMA CellsOfWindow ==
  ASSUME NEW x \in Int
  PROVE  /\ \A j, k \in 0 .. QUEUE_SIZE - 1 : Cell(x + j) = Cell(x + k) => j = k
         /\ \A c \in Ring : \E k \in 0 .. QUEUE_SIZE - 1 : Cell(x + k) = c
         /\ Cell(x + QUEUE_SIZE) = Cell(x)
<1>1. QUEUE_SIZE \in Nat \ {0}
  BY NetAssumption DEF NetAssumption
<1>2. ASSUME NEW j \in 0 .. QUEUE_SIZE - 1, NEW k \in 0 .. QUEUE_SIZE - 1,
             Cell(x + j) = Cell(x + k)
      PROVE  j = k
  <2>0. x + j \in Int /\ x + k \in Int
    BY <1>1
  <2>1. PICK d \in Int : (x + j) - (x + k) = QUEUE_SIZE * d
    BY <1>1, <1>2, <2>0, Apart, Zenon DEF Cell
  <2>2. j - k = QUEUE_SIZE * d
    BY <1>1, <2>1
  <2>3. d < 1 /\ d > -1
    BY <1>1, <2>2
  <2> QED
    BY <1>1, <2>2, <2>3
<1>3. ASSUME NEW c \in Ring PROVE \E k \in 0 .. QUEUE_SIZE - 1 : Cell(x + k) = c
  <2>0. c - x \in Int
    BY <1>1 DEF Ring
  <2>1. PICK d \in Int, r \in 0 .. QUEUE_SIZE - 1 : c - x = QUEUE_SIZE * d + r
    BY <1>1, <2>0, Division, Zenon
  <2>2. x + r = c + QUEUE_SIZE * (-d) /\ -d \in Int /\ c \in Int /\ x + r \in Int
    BY <1>1, <2>1 DEF Ring
  <2>3. (x + r) % QUEUE_SIZE = c % QUEUE_SIZE
    BY <1>1, <2>2, Congruent
  <2>4. c % QUEUE_SIZE = c
    BY <1>1 DEF Ring
  <2> QED
    BY <2>3, <2>4 DEF Cell
<1>4. Cell(x + QUEUE_SIZE) = Cell(x)
  <2>1. /\ x + QUEUE_SIZE = x + QUEUE_SIZE * 1
        /\ x + QUEUE_SIZE \in Int /\ 1 \in Int
    BY <1>1
  <2> QED
    BY <1>1, <2>1, Congruent, Zenon DEF Cell
<1> QED
  BY <1>2, <1>3, <1>4

\* The cell k places on, seen from the next index.
LEMMA CellNext ==
  ASSUME NEW i \in Index, NEW k \in Nat
  PROVE  Cell(Next1(i) + k) = Cell(i + (k + 1)) /\ Cell(After(i, k)) = Cell(i + k)
<1>1. Next1(i) \in Index /\ After(Next1(i), k) = After(i, k + 1)
  BY AfterNext
<1>2. Next1(i) + k \in Int /\ i + (k + 1) \in Int /\ i + k \in Int
  BY <1>1 DEF Index
<1>3. /\ Cell(After(Next1(i), k)) = Cell(Next1(i) + k)
      /\ Cell(After(i, k + 1)) = Cell(i + (k + 1))
      /\ Cell(After(i, k)) = Cell(i + k)
  BY <1>2, CellWraps, Zenon DEF After
<1> QED
  BY <1>1, <1>3
-----------------------------------------------------------------------------
(* Receive: the inductive invariant. *)

\* n frames wait: the buffers n places on from rx_last_used are reported, each at
\* its own place of the ring, and the rest of the turn is posted.
Window(n) ==
    /\ rx_last_used \in Index
    /\ rx_used_idx = After(rx_last_used, n) /\ rx_taken = rx_used_idx
    /\ rx_avail_idx = After(rx_last_used, QUEUE_SIZE)
    /\ rx_avail = [c \in Ring |-> c]
    /\ rx_used \in [Ring -> Ring] /\ rx_bufs \in [Ring -> Frames \cup {"None"}]
    /\ \A k \in 0 .. n - 1 : /\ rx_used[Cell(rx_last_used + k)] = Cell(rx_last_used + k)
                             /\ rx_bufs[Cell(rx_last_used + k)] \in Frames

RxInv == \E n \in 0 .. QUEUE_SIZE : Window(n)

\* A window's indices tell how many frames wait.
LEMMA WindowIndices ==
  ASSUME NEW n \in 0 .. QUEUE_SIZE, Window(n)
  PROVE  /\ (rx_used_idx - rx_last_used) % IdxMod = n
         /\ (rx_avail_idx - rx_taken) % IdxMod = QUEUE_SIZE - n
         /\ rx_taken = rx_avail_idx <=> n = QUEUE_SIZE
         /\ rx_used_idx = rx_last_used <=> n = 0
<1>1. /\ QUEUE_SIZE \in Nat /\ IdxMod \in Nat /\ IdxMod > QUEUE_SIZE
      /\ n \in Nat /\ 0 \in Nat /\ 0 <= n /\ n <= QUEUE_SIZE
      /\ n - 0 < IdxMod /\ QUEUE_SIZE - n < IdxMod /\ n - 0 = n
  BY NetAssumption DEF NetAssumption
<1>2. /\ rx_last_used \in Index /\ rx_used_idx = After(rx_last_used, n)
      /\ rx_taken = rx_used_idx /\ rx_avail_idx = After(rx_last_used, QUEUE_SIZE)
  BY DEF Window
<1>3. After(rx_last_used, 0) = rx_last_used
  BY <1>1, <1>2, AfterNext
<1>4. (rx_used_idx - rx_last_used) % IdxMod = n
  <2>1. (After(rx_last_used, n) - After(rx_last_used, 0)) % IdxMod = n - 0
    BY <1>1, <1>2, Distance
  <2> QED
    BY <1>1, <1>2, <1>3, <2>1
<1>5. (rx_avail_idx - rx_taken) % IdxMod = QUEUE_SIZE - n
  <2>1. (After(rx_last_used, QUEUE_SIZE) - After(rx_last_used, n)) % IdxMod = QUEUE_SIZE - n
    BY <1>1, <1>2, Distance
  <2> QED
    BY <1>2, <2>1
<1>6. After(rx_last_used, n) \in Int
  BY <1>1, <1>2, AfterNext DEF Index
<1>7. \A a \in Int : a - a = 0 /\ 0 % IdxMod = 0
  BY <1>1
<1> QED
  BY <1>1, <1>2, <1>3, <1>4, <1>5, <1>6, <1>7

\* The device fills the buffer after the window.
LEMMA ReceiveStep ==
  ASSUME NEW n \in 0 .. QUEUE_SIZE, Window(n), NEW f \in Frames, n # QUEUE_SIZE,
         rx_bufs' = [rx_bufs EXCEPT ![rx_avail[Cell(rx_taken)]] = f],
         rx_used' = [rx_used EXCEPT ![Cell(rx_used_idx)] = rx_avail[Cell(rx_taken)]],
         rx_used_idx' = Next1(rx_used_idx), rx_taken' = Next1(rx_taken),
         UNCHANGED <<rx_avail, rx_avail_idx, rx_last_used>>
  PROVE  /\ n + 1 \in 0 .. QUEUE_SIZE /\ Window(n + 1)'
         /\ rx_bufs' = [rx_bufs EXCEPT ![Cell(rx_last_used + n)] = f]
<1> DEFINE c == Cell(rx_last_used + n)
<1>1. n \in Nat /\ n + 1 \in 0 .. QUEUE_SIZE /\ n \in 0 .. QUEUE_SIZE - 1
  BY NetAssumption DEF NetAssumption
<1>2. rx_last_used \in Index /\ rx_last_used \in Int /\ rx_last_used + n \in Int
  BY <1>1 DEF Window, Index
<1>3. Cell(rx_used_idx) = c /\ Cell(rx_taken) = c /\ c \in Ring
  BY <1>1, <1>2, CellNext, CellWraps DEF Window
<1>4. rx_avail[Cell(rx_taken)] = c
  BY <1>3 DEF Window
<1>5. Next1(rx_used_idx) = After(rx_last_used, n + 1)
  BY <1>1, <1>2, AfterNext DEF Window
<1>6. ASSUME NEW k \in 0 .. n
      PROVE  /\ rx_used'[Cell(rx_last_used + k)] = Cell(rx_last_used + k)
             /\ rx_bufs'[Cell(rx_last_used + k)] \in Frames
  <2>1. k \in 0 .. QUEUE_SIZE - 1 /\ rx_last_used + k \in Int
    BY <1>1, <1>2, NetAssumption DEF NetAssumption
  <2>2. Cell(rx_last_used + k) \in Ring
    BY <2>1, CellWraps
  <2> HIDE DEF c
  <2>3. CASE k = n
    BY <1>3, <1>4, <2>3 DEF Window, c
  <2>4. CASE k # n
    <3>1. k \in 0 .. n - 1
      BY <1>1, <2>4
    <3>2. Cell(rx_last_used + k) # c
      <4>1. \A j, m \in 0 .. QUEUE_SIZE - 1 :
                Cell(rx_last_used + j) = Cell(rx_last_used + m) => j = m
        BY <1>2, CellsOfWindow
      <4> QED
        BY <1>1, <2>1, <2>4, <4>1 DEF c
    <3> QED
      BY <1>3, <1>4, <2>2, <3>1, <3>2 DEF Window
  <2> QED
    BY <2>3, <2>4
<1>7. 0 .. (n + 1) - 1 = 0 .. n
  BY <1>1
<1>8. rx_used' \in [Ring -> Ring] /\ rx_bufs' \in [Ring -> Frames \cup {"None"}]
  BY <1>3, <1>4 DEF Window
<1> QED
  BY <1>1, <1>2, <1>3, <1>4, <1>5, <1>6, <1>7, <1>8 DEF Window

\* poll_rx posts the first buffer of the window again, at its own place.
LEMMA PollStep ==
  ASSUME NEW n \in 0 .. QUEUE_SIZE, Window(n), n # 0,
         rx_last_used' = Next1(rx_last_used),
         Repost(rx_used[Cell(rx_last_used)]),
         UNCHANGED <<rx_used, rx_used_idx, rx_taken, rx_bufs>>
  PROVE  /\ n - 1 \in 0 .. QUEUE_SIZE /\ Window(n - 1)'
         /\ rx_used[Cell(rx_last_used)] = Cell(rx_last_used)
<1>1. /\ QUEUE_SIZE \in Nat /\ n - 1 \in Nat /\ n - 1 \in 0 .. QUEUE_SIZE
      /\ (n - 1) + 1 = n /\ 0 \in 0 .. n - 1
  BY NetAssumption DEF NetAssumption
<1>2. /\ rx_last_used \in Index /\ rx_last_used \in Int
      /\ rx_last_used + 0 = rx_last_used /\ rx_last_used + QUEUE_SIZE \in Int
  BY <1>1 DEF Window, Index
<1>3. rx_used[Cell(rx_last_used)] = Cell(rx_last_used)
  BY <1>1, <1>2 DEF Window
<1>4. Cell(rx_avail_idx) = Cell(rx_last_used) /\ Cell(rx_last_used) \in Ring
  BY <1>1, <1>2, CellNext, CellsOfWindow, CellWraps DEF Window
<1>5. rx_avail' = rx_avail
  BY <1>3, <1>4 DEF Repost, Window
<1>6. rx_avail_idx' = After(Next1(rx_last_used), QUEUE_SIZE)
  BY <1>1, <1>2, AfterNext DEF Repost, Window
<1>7. rx_used_idx = After(Next1(rx_last_used), n - 1) /\ Next1(rx_last_used) \in Index
  BY <1>1, <1>2, AfterNext DEF Window
<1>8. ASSUME NEW k \in 0 .. (n - 1) - 1
      PROVE  /\ rx_used[Cell(Next1(rx_last_used) + k)] = Cell(Next1(rx_last_used) + k)
             /\ rx_bufs[Cell(Next1(rx_last_used) + k)] \in Frames
  <2>1. k \in Nat /\ k + 1 \in 0 .. n - 1
    BY <1>1
  <2>2. Cell(Next1(rx_last_used) + k) = Cell(rx_last_used + (k + 1))
    BY <1>2, <2>1, CellNext
  <2> QED
    BY <2>1, <2>2 DEF Window
<1> QED
  BY <1>1, <1>3, <1>5, <1>6, <1>7, <1>8 DEF Window

\* What a step does to the window.
LEMMA WindowStep ==
  ASSUME NEW n \in 0 .. QUEUE_SIZE, Window(n), [Next]_vars
  PROVE  \/ Window(n)' /\ UNCHANGED rxVars
         \/ Window(n)' /\ n = 0 /\ got' = "None" /\ UNCHANGED <<rx_bufs, rx_last_used>>
         \/ n < QUEUE_SIZE /\ UNCHANGED <<rx_last_used, got>>
            /\ \E f \in Frames : /\ Window(n + 1)'
                                 /\ rx_bufs' = [rx_bufs EXCEPT ![Cell(rx_last_used + n)] = f]
         \/ n > 0 /\ UNCHANGED rx_bufs /\ rx_last_used' = Next1(rx_last_used)
            /\ Window(n - 1)' /\ got' = rx_bufs[Cell(rx_last_used)]
<1>1. n \in Nat /\ QUEUE_SIZE \in Nat
  BY NetAssumption DEF NetAssumption
<1>2. /\ rx_taken = rx_avail_idx <=> n = QUEUE_SIZE
      /\ rx_used_idx = rx_last_used <=> n = 0
  BY WindowIndices
<1>3. CASE UNCHANGED rxVars
  BY <1>3 DEF rxVars, Window
<1>4. CASE DeviceReceives
  <2>1. CASE n = QUEUE_SIZE
    BY <1>2, <1>3, <1>4, <2>1 DEF DeviceReceives, rxVars
  <2>2. CASE n # QUEUE_SIZE
    BY <1>1, <1>2, <1>4, <2>2, ReceiveStep DEF DeviceReceives
  <2> QED
    BY <2>1, <2>2
<1>5. CASE poll_rx
  <2>1. CASE n = 0
    BY <1>2, <1>5, <2>1 DEF poll_rx, Window
  <2>2. CASE n # 0
    BY <1>1, <1>2, <1>5, <2>2, PollStep DEF poll_rx
  <2> QED
    BY <2>1, <2>2
<1> QED
  BY <1>3, <1>4, <1>5
  DEF Next, vars, send, SendTooLarge, SendCompletes, SendTimesOut, DeviceTransmits

\* At every moment some number of frames waits in a window of the ring.
THEOREM RxInvariance == Spec => []RxInv
<1>1. Init => RxInv
  <2> SUFFICES ASSUME Init PROVE RxInv
    OBVIOUS
  <2>1. 0 \in 0 .. QUEUE_SIZE /\ 0 \in Index /\ 0 \in Ring /\ 0 .. 0 - 1 = {}
    BY NetAssumption DEF NetAssumption, Index, Ring
  <2>2. After(0, 0) = 0 /\ After(0, QUEUE_SIZE) = QUEUE_SIZE
    BY NetAssumption DEF NetAssumption, After
  <2>3. Window(0)
    BY <2>1, <2>2 DEF Init, Window
  <2> QED
    BY <2>1, <2>3 DEF RxInv
<1>2. RxInv /\ [Next]_vars => RxInv'
  <2> SUFFICES ASSUME RxInv, [Next]_vars PROVE RxInv'
    OBVIOUS
  <2>1. PICK n \in 0 .. QUEUE_SIZE : Window(n)
    BY DEF RxInv
  <2>2. \/ Window(n)'
        \/ n < QUEUE_SIZE /\ Window(n + 1)'
        \/ n > 0 /\ Window(n - 1)'
    BY <2>1, WindowStep
  <2>3. /\ n < QUEUE_SIZE => n + 1 \in 0 .. QUEUE_SIZE
        /\ n > 0 => n - 1 \in 0 .. QUEUE_SIZE
    BY NetAssumption DEF NetAssumption
  <2> QED
    BY <2>2, <2>3 DEF RxInv
<1> QED
  BY <1>1, <1>2, PTL DEF Spec

\* The driver never leaks a receive buffer, and no buffer is with the device and
\* waiting to be drained at once, runts included and through every wrap of the
\* indices (poll_rx).
THEOREM NoBufferLost == Spec => []BuffersConserved
<1>1. ASSUME NEW n \in 0 .. QUEUE_SIZE, Window(n) PROVE BuffersConserved
  <2> DEFINE At(k) == Cell(rx_last_used + k)
  <2>1. /\ n \in Nat /\ QUEUE_SIZE \in Nat /\ rx_last_used \in Index /\ rx_last_used \in Int
        /\ rx_taken = After(rx_last_used, n) /\ rx_avail = [c \in Ring |-> c]
    BY <1>1, NetAssumption DEF NetAssumption, Window, Index
  <2>2. Filled = {At(k) : k \in 0 .. n - 1}
    BY <1>1, WindowIndices DEF Filled, Window
  <2>3. Posted = {At(n + k) : k \in 0 .. (QUEUE_SIZE - n) - 1}
    <3>1. ASSUME NEW k \in 0 .. (QUEUE_SIZE - n) - 1
          PROVE  rx_avail[Cell(rx_taken + k)] = At(n + k)
      <4>1. /\ k \in Nat /\ rx_taken + k \in Int /\ rx_last_used + (n + k) \in Int
        BY <2>1, AfterNext DEF Index
      <4>2. After(rx_taken, k) = After(rx_last_used, n + k)
        <5> DEFINE x == rx_last_used + n
        <5>1. x \in Int /\ IdxMod \in Nat \ {0} /\ rx_taken = x % IdxMod
          BY <2>1, NetAssumption DEF NetAssumption, After
        <5>2. PICK d \in Int, r \in 0 .. IdxMod - 1 : x = IdxMod * d + r /\ x % IdxMod = r
          BY <5>1, Division, Zenon
        <5>3. /\ rx_last_used + (n + k) = (r + k) + IdxMod * d
              /\ r + k \in Int /\ rx_taken = r
          BY <2>1, <4>1, <5>1, <5>2
        <5>4. (rx_last_used + (n + k)) % IdxMod = (r + k) % IdxMod
          BY <4>1, <5>1, <5>3, Congruent
        <5> QED
          BY <5>3, <5>4 DEF After
      <4>3. Cell(rx_taken + k) = At(n + k) /\ Cell(rx_taken + k) \in Ring
        BY <4>1, <4>2, CellWraps DEF After
      <4> QED
        BY <2>1, <4>3
    <3>2. (rx_avail_idx - rx_taken) % IdxMod = QUEUE_SIZE - n
      BY <1>1, WindowIndices
    <3> QED
      BY <3>1, <3>2 DEF Posted
  <2>4. /\ \A j, k \in 0 .. QUEUE_SIZE - 1 : At(j) = At(k) => j = k
        /\ \A c \in Ring : \E k \in 0 .. QUEUE_SIZE - 1 : At(k) = c
        /\ \A k \in 0 .. QUEUE_SIZE - 1 : At(k) \in Ring
    <3>1. ASSUME NEW k \in 0 .. QUEUE_SIZE - 1 PROVE At(k) \in Ring
      <4>1. rx_last_used + k \in Int
        BY <2>1
      <4> QED
        BY <4>1, CellWraps
    <3> QED
      BY <2>1, <3>1, CellsOfWindow
  <2> HIDE DEF At
  <2>5. ASSUME NEW c
        PROVE  c \in Posted <=> \E k \in n .. QUEUE_SIZE - 1 : At(k) = c
    <3>1. ASSUME NEW k \in n .. QUEUE_SIZE - 1
          PROVE  k - n \in 0 .. (QUEUE_SIZE - n) - 1 /\ n + (k - n) = k
      BY <2>1
    <3>2. ASSUME NEW k \in 0 .. (QUEUE_SIZE - n) - 1 PROVE n + k \in n .. QUEUE_SIZE - 1
      BY <2>1
    <3> QED
      BY <2>3, <3>1, <3>2
  <2>6. /\ 0 .. n - 1 \subseteq 0 .. QUEUE_SIZE - 1
        /\ n .. QUEUE_SIZE - 1 \subseteq 0 .. QUEUE_SIZE - 1
        /\ \A k \in 0 .. QUEUE_SIZE - 1 : k \in 0 .. n - 1 \/ k \in n .. QUEUE_SIZE - 1
        /\ \A k \in 0 .. n - 1 : k \notin n .. QUEUE_SIZE - 1
    BY <2>1
  <2>7. ASSUME NEW c
        PROVE  c \in Filled <=> \E k \in 0 .. n - 1 : At(k) = c
    BY <2>2
  <2>8. ASSUME NEW c
        PROVE  /\ c \in Ring <=> c \in Posted \/ c \in Filled
               /\ ~(c \in Posted /\ c \in Filled)
    BY <2>4, <2>5, <2>6, <2>7
  <2> QED
    BY <2>8 DEF BuffersConserved
<1>2. RxInv => BuffersConserved
  BY <1>1 DEF RxInv
<1> QED
  BY <1>2, RxInvariance, PTL
-----------------------------------------------------------------------------
(* Receive implements a bounded FIFO. *)

\* The frames of the n buffers from index l on.
Held(b, l, n) == [i \in 1 .. n |-> b[Cell(l + i - 1)]]

HeldWaits ==
    \A n \in 0 .. QUEUE_SIZE : Window(n) =>
        /\ Waiting = Held(rx_bufs, rx_last_used, n)
        /\ Waiting \in Seq(Frames) /\ Len(Waiting) = n

\* In a window, Waiting is the frames it holds.
LEMMA WaitingIsHeld == HeldWaits
<1> SUFFICES ASSUME NEW n \in 0 .. QUEUE_SIZE, Window(n)
             PROVE  /\ Waiting = Held(rx_bufs, rx_last_used, n)
                    /\ Waiting \in Seq(Frames) /\ Len(Waiting) = n
  BY DEF HeldWaits
<1>0. (rx_used_idx - rx_last_used) % IdxMod = n
  BY WindowIndices
<1>1. n \in Nat /\ rx_last_used \in Int /\ (rx_used_idx - rx_last_used) % IdxMod = n
  BY <1>0, NetAssumption DEF NetAssumption, Window, Index
<1>2. ASSUME NEW i \in 1 .. n
      PROVE  /\ rx_used[Cell(rx_last_used + i - 1)] = Cell(rx_last_used + i - 1)
             /\ rx_bufs[Cell(rx_last_used + i - 1)] \in Frames
  <2>1. i - 1 \in 0 .. n - 1 /\ rx_last_used + i - 1 = rx_last_used + (i - 1)
    BY <1>1
  <2> QED
    BY <2>1 DEF Window
<1>3. Waiting = Held(rx_bufs, rx_last_used, n)
  BY <1>1, <1>2 DEF Waiting, Held
<1>4. Held(rx_bufs, rx_last_used, n) \in [1 .. n -> Frames]
  BY <1>2 DEF Held
<1> QED
  BY <1>1, <1>3, <1>4

\* A frame put into the buffer after the window is appended.
LEMMA HeldGrows ==
  ASSUME NEW b \in [Ring -> Frames \cup {"None"}], NEW l \in Index,
         NEW n \in 0 .. QUEUE_SIZE - 1, NEW f \in Frames,
         Held(b, l, n) \in Seq(Frames)
  PROVE  Held([b EXCEPT ![Cell(l + n)] = f], l, n + 1) = Append(Held(b, l, n), f)
<1> DEFINE g == [b EXCEPT ![Cell(l + n)] = f]
           new == Held(g, l, n + 1)
           old == Held(b, l, n)
<1>1. n \in Nat /\ l \in Int /\ QUEUE_SIZE \in Nat
  BY NetAssumption DEF NetAssumption, Index
<1>2. Len(old) = n /\ DOMAIN old = 1 .. n
  BY <1>1 DEF Held
<1>3. ASSUME NEW i \in 1 .. n + 1
      PROVE  g[Cell(l + i - 1)] = IF i = n + 1 THEN f ELSE b[Cell(l + i - 1)]
  <2>1. /\ i - 1 \in 0 .. QUEUE_SIZE - 1 /\ l + i - 1 = l + (i - 1) /\ l + (i - 1) \in Int
        /\ i - 1 = n <=> i = n + 1
    BY <1>1
  <2>2. Cell(l + (i - 1)) \in Ring
    BY <2>1, CellWraps
  <2>3. Cell(l + (i - 1)) = Cell(l + n) <=> i = n + 1
    <3>1. \A j, m \in 0 .. QUEUE_SIZE - 1 : Cell(l + j) = Cell(l + m) => j = m
      BY <1>1, CellsOfWindow
    <3> QED
      BY <2>1, <3>1
  <2> QED
    BY <2>1, <2>2, <2>3
<1>4. /\ Append(old, f) \in Seq(Frames)
      /\ DOMAIN Append(old, f) = 1 .. n + 1
      /\ \A i \in 1 .. n : Append(old, f)[i] = old[i]
      /\ Append(old, f)[n + 1] = f
  BY <1>1, <1>2, AppendProperties
<1>5. new = [i \in 1 .. n + 1 |-> g[Cell(l + i - 1)]]
  BY DEF Held
<1>6. \A i \in 1 .. n + 1 : new[i] = Append(old, f)[i]
  <2>1. \A i \in 1 .. n : i \in 1 .. n + 1 /\ i # n + 1 /\ old[i] = b[Cell(l + i - 1)]
    BY <1>1 DEF Held
  <2>2. \A i \in 1 .. n + 1 : i \in 1 .. n \/ i = n + 1
    BY <1>1
  <2> HIDE DEF g, old, new
  <2> QED
    BY <1>3, <1>4, <1>5, <2>1, <2>2
<1> HIDE DEF g, old, new
<1>7. Append(old, f) = [i \in 1 .. n + 1 |-> Append(old, f)[i]]
  <2> DEFINE e == Append(old, f)
  <2>1. e \in Seq(Frames) /\ DOMAIN e = 1 .. n + 1
    BY <1>4
  <2> HIDE DEF e
  <2>2. e = [i \in 1 .. n + 1 |-> e[i]]
    BY <2>1
  <2> QED
    BY <2>2 DEF e
<1>8. new = Append(old, f)
  BY <1>5, <1>6, <1>7
<1> QED
  BY <1>8 DEF g, old, new

\* Draining the first buffer of the window takes the first frame.
LEMMA HeldShrinks ==
  ASSUME NEW b \in [Ring -> Frames \cup {"None"}], NEW l \in Index, NEW n \in Nat, n > 0,
         Held(b, l, n) \in Seq(Frames)
  PROVE  /\ Held(b, l, n) # <<>> /\ Head(Held(b, l, n)) = b[Cell(l)]
         /\ Held(b, Next1(l), n - 1) = Tail(Held(b, l, n))
<1> DEFINE new == Held(b, Next1(l), n - 1)
           old == Held(b, l, n)
<1>1. l \in Int /\ l + 1 - 1 = l /\ 1 \in 1 .. n /\ n - 1 \in Nat /\ Next1(l) \in Int
  BY AfterNext DEF Index
<1>2. /\ Len(old) = n /\ DOMAIN old = 1 .. n /\ old[1] = b[Cell(l)]
      /\ \A i \in 1 .. n - 1 : old[i + 1] = b[Cell(l + (i + 1) - 1)]
  BY <1>1 DEF Held
<1>3. old # <<>>
  BY <1>2
<1>4. ASSUME NEW i \in 1 .. n - 1
      PROVE  Cell(Next1(l) + i - 1) = Cell(l + (i + 1) - 1)
  <2>1. /\ i - 1 \in Nat /\ Next1(l) + i - 1 = Next1(l) + (i - 1)
        /\ l + (i + 1) - 1 = l + ((i - 1) + 1)
    BY <1>1
  <2> QED
    BY <2>1, CellNext
<1>5. new = [i \in 1 .. n - 1 |-> old[i + 1]]
  BY <1>2, <1>4 DEF Held
<1>0. old \in Seq(Frames)
  OBVIOUS
<1> HIDE DEF old, new
<1>6. Tail(old) = [i \in 1 .. n - 1 |-> old[i + 1]] /\ Head(old) = old[1]
  <2> DEFINE e == Tail(old)
  <2>1. e \in Seq(Frames) /\ Len(e) = n - 1 /\ \A i \in 1 .. n - 1 : e[i] = old[i + 1]
    BY <1>0, <1>2, <1>3, HeadTailProperties
  <2> HIDE DEF e
  <2>2. e = [i \in 1 .. n - 1 |-> old[i + 1]]
    BY <1>1, <2>1
  <2>3. Head(old) = old[1]
    BY <1>0, <1>3
  <2> QED
    BY <2>2, <2>3 DEF e
<1> QED
  BY <1>2, <1>3, <1>5, <1>6 DEF old, new

\* Every step of the driver and the device is a step of the FIFO, or none.
LEMMA RxFifoStep == RxInv /\ [Next]_vars => [RxFifo!Next]_<<Waiting, got>>
<1> SUFFICES ASSUME RxInv, [Next]_vars PROVE [RxFifo!Next]_<<Waiting, got>>
  OBVIOUS
<1>1. PICK n \in 0 .. QUEUE_SIZE : Window(n)
  BY DEF RxInv
<1>2. /\ Waiting = Held(rx_bufs, rx_last_used, n)
      /\ Waiting \in Seq(Frames) /\ Len(Waiting) = n
      /\ rx_bufs \in [Ring -> Frames \cup {"None"}] /\ rx_last_used \in Index
      /\ n \in Nat /\ QUEUE_SIZE \in Nat
  BY <1>1, WaitingIsHeld, NetAssumption DEF HeldWaits, NetAssumption, Window
<1>3. ASSUME NEW m \in 0 .. QUEUE_SIZE, Window(m)'
      PROVE  Waiting' = Held(rx_bufs', rx_last_used', m)
  <2>1. HeldWaits'
    BY WaitingIsHeld, PTL
  <2> QED
    BY <1>3, <2>1 DEF HeldWaits, Held, Cell
<1>4. CASE UNCHANGED rxVars
  BY <1>4 DEF rxVars, Waiting
<1>5. CASE Window(n)' /\ n = 0 /\ got' = "None" /\ UNCHANGED <<rx_bufs, rx_last_used>>
  <2>1. Waiting' = Waiting /\ Waiting = <<>>
    BY <1>2, <1>3, <1>5
  <2> QED
    BY <1>5, <2>1 DEF RxFifo!Next, RxFifo!Take
<1>6. CASE /\ n < QUEUE_SIZE /\ UNCHANGED <<rx_last_used, got>>
           /\ \E f \in Frames : /\ Window(n + 1)'
                                /\ rx_bufs' = [rx_bufs EXCEPT ![Cell(rx_last_used + n)] = f]
  <2>1. PICK f \in Frames : /\ Window(n + 1)'
                            /\ rx_bufs' = [rx_bufs EXCEPT ![Cell(rx_last_used + n)] = f]
    BY <1>6
  <2>2. n \in 0 .. QUEUE_SIZE - 1 /\ n + 1 \in 0 .. QUEUE_SIZE
    BY <1>2, <1>6
  <2>3. Waiting' = Append(Waiting, f)
    BY <1>2, <1>3, <1>6, <2>1, <2>2, HeldGrows
  <2> QED
    BY <1>2, <1>6, <2>3 DEF RxFifo!Next, RxFifo!Arrive
<1>7. CASE /\ n > 0 /\ UNCHANGED rx_bufs /\ rx_last_used' = Next1(rx_last_used)
           /\ Window(n - 1)' /\ got' = rx_bufs[Cell(rx_last_used)]
  <2>1. n - 1 \in 0 .. QUEUE_SIZE
    BY <1>2, <1>7
  <2>2. Waiting' = Tail(Waiting) /\ Waiting # <<>> /\ got' = Head(Waiting)
    BY <1>2, <1>3, <1>7, <2>1, HeldShrinks
  <2> QED
    BY <2>2 DEF RxFifo!Next, RxFifo!Take
<1> QED
  BY <1>1, <1>4, <1>5, <1>6, <1>7, WindowStep

\* Receive is a FIFO of QUEUE_SIZE frames, for every queue size that divides the
\* index modulus: no frame is lost, repeated, reordered or overwritten while it
\* waits, and one is dropped only when every buffer holds one (poll_rx, init).
THEOREM ReceiveImplementsFifo == Spec => ReceiveIsFifo
<1>1. Init => RxFifo!Init
  <2> SUFFICES ASSUME Init PROVE RxFifo!Init
    OBVIOUS
  <2>1. (rx_used_idx - rx_last_used) % IdxMod = 0
    BY NetAssumption DEF NetAssumption, Init
  <2>2. Waiting = <<>>
    BY <2>1 DEF Waiting
  <2> QED
    BY <2>2 DEF Init, RxFifo!Init
<1> QED
  BY <1>1, RxInvariance, RxFifoStep, PTL DEF Spec, ReceiveIsFifo, RxFifo!Spec
=============================================================================
