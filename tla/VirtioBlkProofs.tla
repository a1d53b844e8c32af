--------------------------- MODULE VirtioBlkProofs ---------------------------
(***************************************************************************)
(* Theorems about the block driver, for every capacity, number of requests *)
(* and index modulus that exceeds the timeouts.                            *)
(***************************************************************************)
EXTENDS VirtioBlk, TLAPS

Index == 0 .. IdxMod - 1

\* The distance from one ring index to a later one.
Ahead(a, b) == IF b <= a THEN a - b ELSE a - b + IdxMod

\* An index advanced stays an index, and moves.
LEMMA NextIndex ==
  ASSUME NEW i \in Index
  PROVE  /\ Next1(i) = IF i + 1 = IdxMod THEN 0 ELSE i + 1
         /\ Next1(i) \in Index /\ Next1(i) # i
BY BlkAssumption DEF BlkAssumption, Index, Next1

\* Subtraction modulo IdxMod is the distance.
LEMMA AheadIsMod ==
  ASSUME NEW a \in Index, NEW b \in Index
  PROVE  (a - b) % IdxMod = Ahead(a, b)
BY BlkAssumption DEF BlkAssumption, Index, Ahead

\* Publishing adds one to the distance, taking a completion removes one.
LEMMA AheadSteps ==
  ASSUME NEW a \in Index, NEW b \in Index
  PROVE  /\ Ahead(a, b) \in Nat
         /\ Ahead(a, b) + 1 < IdxMod => Ahead(Next1(a), b) = Ahead(a, b) + 1
         /\ Ahead(a, b) > 0 => Ahead(a, Next1(b)) = Ahead(a, b) - 1
         /\ Ahead(a, b) = 0 => a = b
         /\ Ahead(a, b) = 1 => a = Next1(b)
<1>1. /\ Next1(a) = IF a + 1 = IdxMod THEN 0 ELSE a + 1
      /\ Next1(b) = IF b + 1 = IdxMod THEN 0 ELSE b + 1
  BY NextIndex
<1> QED
  BY <1>1, BlkAssumption DEF BlkAssumption, Index, Ahead
-----------------------------------------------------------------------------
(* The inductive invariant. *)

IndexInv ==
    /\ avail_idx \in Index /\ last_used \in Index /\ used_idx \in Index /\ taken \in Index
    /\ timeouts \in 0 .. MaxTimeouts /\ req \in 0 .. MaxReqs
    /\ pc \in {"idle", "ready", "polling"}

\* The chain describes the request its caller waits for.
Described ==
    /\ req \in Reqs /\ data = req /\ header = asked
    /\ asked \in [sector : Sectors, write : BOOLEAN]

\* Nothing is with the device.
Quiet == taken = avail_idx /\ used_idx = avail_idx /\ job = NoJob

\* The one chain there is has not been fetched, is being served, or is served.
Unfetched == taken = last_used /\ used_idx = last_used /\ job = NoJob /\ status = "pending"
Serving == /\ taken = avail_idx /\ used_idx = last_used
           /\ job = [sector |-> asked.sector, write |-> asked.write, buf |-> req]
           /\ status = "pending"
Served == Quiet /\ (status = "ok" => bufs[req] = disk[asked.sector])

\* Where a request that nobody has given up yet can be.
OneRequest ==
    /\ bufs \in [Reqs -> Values] /\ disk \in [Sectors -> Values]
    /\ pc = "idle" => Quiet /\ Faithful
    /\ pc = "ready" => Quiet /\ Described /\ status = "pending"
    /\ pc = "polling" => Described /\ (Unfetched \/ Serving \/ Served)

BlkInv == IndexInv /\ LagIsTimeouts /\ (timeouts = 0 => OneRequest)

\* The lag as a distance.
LEMMA LagAhead ==
  ASSUME IndexInv
  PROVE  LagIsTimeouts <=> Ahead(avail_idx, last_used) = timeouts + (IF pc = "polling" THEN 1 ELSE 0)
BY AheadIsMod DEF IndexInv, LagIsTimeouts

\* A fresh queue satisfies it.
LEMMA BlkInitInv == Init => BlkInv
<1> SUFFICES ASSUME Init PROVE BlkInv
  OBVIOUS
<1>1. IndexInv
  BY BlkAssumption DEF BlkAssumption, Init, IndexInv, Index
<1>2. LagIsTimeouts
  BY <1>1, LagAhead DEF Init, Ahead
<1> QED
  BY <1>1, <1>2 DEF Init, BlkInv, OneRequest, Quiet, Faithful

\* Every step keeps the lag.
LEMMA LagStep == IndexInv /\ IndexInv' /\ LagIsTimeouts /\ [Next]_vars => LagIsTimeouts'
<1> SUFFICES ASSUME IndexInv, IndexInv', LagIsTimeouts, [Next]_vars PROVE LagIsTimeouts'
  OBVIOUS
<1>1. Ahead(avail_idx, last_used) = timeouts + (IF pc = "polling" THEN 1 ELSE 0)
  BY LagAhead
<1>2. SUFFICES Ahead(avail_idx', last_used') = timeouts' + (IF pc' = "polling" THEN 1 ELSE 0)
  BY AheadIsMod DEF IndexInv, LagIsTimeouts
<1>3. CASE Publish
  BY <1>1, <1>3, AheadSteps, BlkAssumption DEF BlkAssumption, IndexInv, Publish
<1>4. CASE PollSucceeds
  BY <1>1, <1>4, AheadSteps DEF IndexInv, PollSucceeds
<1>5. CASE PollTimesOut
  BY <1>1, <1>5 DEF IndexInv, PollTimesOut
<1>6. CASE Prepare
  BY <1>1, <1>6 DEF IndexInv, Prepare
<1>7. CASE DeviceFetches \/ DeviceCompletes \/ UNCHANGED vars
  BY <1>1, <1>7 DEF DeviceFetches, DeviceCompletes, vars, driver
<1> QED
  BY <1>3, <1>4, <1>5, <1>6, <1>7 DEF Next

\* Every step keeps the indices in range.
LEMMA IndexStep == IndexInv /\ [Next]_vars => IndexInv'
<1> SUFFICES ASSUME IndexInv, [Next]_vars PROVE IndexInv'
  OBVIOUS
<1>1. CASE Prepare
  BY <1>1, BlkAssumption DEF BlkAssumption, IndexInv, Prepare, device
<1>2. CASE Publish \/ PollSucceeds \/ PollTimesOut
  BY <1>2, NextIndex, BlkAssumption
  DEF BlkAssumption, IndexInv, Publish, PollSucceeds, PollTimesOut, device
<1>3. CASE DeviceFetches \/ DeviceCompletes \/ UNCHANGED vars
  BY <1>3, NextIndex DEF IndexInv, DeviceFetches, DeviceCompletes, vars, driver, device
<1> QED
  BY <1>1, <1>2, <1>3 DEF Next

\* As long as nothing times out there is one request and one answer to it.
LEMMA RequestStep ==
  ASSUME BlkInv, [Next]_vars, timeouts' = 0
  PROVE  OneRequest'
<1>1. timeouts = 0 /\ ~PollTimesOut
  BY DEF BlkInv, IndexInv, Next, Prepare, Publish, PollSucceeds, PollTimesOut,
         DeviceFetches, DeviceCompletes, vars, driver
<1>2. OneRequest /\ IndexInv /\ pc \in {"idle", "ready", "polling"}
  BY <1>1 DEF BlkInv, IndexInv
<1>3. pc # "polling" => avail_idx = last_used
  BY <1>1, <1>2, LagAhead, AheadSteps DEF BlkInv, IndexInv
<1>4. /\ pc = "polling" => avail_idx = Next1(last_used)
      /\ Next1(last_used) # last_used
  BY <1>1, <1>2, LagAhead, AheadSteps, NextIndex DEF BlkInv, IndexInv
<1>5. CASE Prepare
  <2>1. PICK sector \in 0 .. Capacity, write \in BOOLEAN :
          /\ asked' = [sector |-> sector, write |-> write]
          /\ IF sector \notin Sectors
             THEN /\ result' = "Err"
                  /\ UNCHANGED <<pc, header, data, status>>
             ELSE /\ header' = asked' /\ data' = req'
                  /\ status' = "pending"
                  /\ pc' = "ready" /\ result' = "none"
    BY <1>5 DEF Prepare
  <2>2. Quiet /\ Quiet' /\ pc = "idle" /\ req' \in Reqs
    BY <1>2, <1>5, BlkAssumption DEF BlkAssumption, Prepare, OneRequest, Quiet, device, IndexInv, Reqs
  <2>3. bufs' \in [Reqs -> Values] /\ disk' \in [Sectors -> Values]
    BY <1>2, <1>5 DEF OneRequest, Prepare, device
  <2> QED
    BY <2>1, <2>2, <2>3 DEF OneRequest, Described, Faithful
<1>6. CASE Publish
  <2>1. Described' /\ Unfetched'
    BY <1>2, <1>3, <1>6 DEF Publish, OneRequest, Described, Quiet, Unfetched, device
  <2> QED
    BY <1>2, <1>6, <2>1 DEF Publish, OneRequest, device
<1>7. CASE PollSucceeds
  <2>1. Served
    BY <1>2, <1>7 DEF PollSucceeds, OneRequest, Unfetched, Serving
  <2> QED
    BY <1>2, <1>7, <2>1 DEF PollSucceeds, OneRequest, Served, Quiet, Faithful, device
<1>8. CASE DeviceFetches
  <2>1. pc = "polling" /\ Unfetched
    BY <1>2, <1>8 DEF DeviceFetches, OneRequest, Quiet, Served, Serving, NoJob
  <2>2. Described' /\ Serving'
    BY <1>2, <1>4, <1>8, <2>1 DEF DeviceFetches, OneRequest, Described, Unfetched, Serving, driver
  <2> QED
    BY <1>2, <1>8, <2>1, <2>2 DEF DeviceFetches, OneRequest, driver
<1>9. CASE DeviceCompletes
  <2>1. pc = "polling" /\ Serving /\ Described
    BY <1>2, <1>9 DEF DeviceCompletes, OneRequest, Quiet, Served, Unfetched
  <2>2. Described' /\ Quiet' /\ pc' = "polling"
    BY <1>4, <1>9, <2>1 DEF DeviceCompletes, Described, Serving, Quiet, driver
  <2>3. /\ bufs' \in [Reqs -> Values] /\ disk' \in [Sectors -> Values]
        /\ status' = "ok" => bufs'[req] = disk'[asked.sector]
    BY <1>2, <1>9, <2>1 DEF DeviceCompletes, OneRequest, Described, Serving
  <2>4. Served'
    BY <1>9, <2>2, <2>3 DEF DeviceCompletes, Served, driver
  <2> QED
    BY <2>2, <2>3, <2>4 DEF OneRequest
<1>10. CASE UNCHANGED vars
  BY <1>2, <1>10 DEF vars, driver, device, OneRequest, Quiet, Faithful, Described,
                     Unfetched, Serving, Served
<1> QED
  BY <1>1, <1>5, <1>6, <1>7, <1>8, <1>9, <1>10 DEF Next

\* The invariant holds in every reachable state.
THEOREM BlkInvariance == Spec => []BlkInv
<1>1. BlkInv /\ [Next]_vars => BlkInv'
  BY IndexStep, LagStep, RequestStep DEF BlkInv
<1> QED
  BY BlkInitInv, <1>1, PTL DEF Spec

\* The driver's lag behind the device is the number of transfers it gave up,
\* for ever (transfer() never resynchronises last_used).
THEOREM LagCounts == Spec => []LagIsTimeouts
<1>1. BlkInv => LagIsTimeouts
  BY DEF BlkInv
<1> QED
  BY BlkInvariance, <1>1, PTL

\* Ok means that the sector was transferred, as long as no transfer timed out,
\* although one header, status byte and chain serve every request (transfer()).
THEOREM OkMeansTransferred == Spec => []FaithfulUntilTimeout
<1>1. BlkInv => FaithfulUntilTimeout
  BY DEF BlkInv, FaithfulUntilTimeout, OneRequest, Faithful
<1> QED
  BY BlkInvariance, <1>1, PTL
=============================================================================
