------------------------------ MODULE VirtioBlk ------------------------------
(***************************************************************************)
(* The synchronous block driver (drivers/virtio/blk.rs) and the device at  *)
(* the other end of its virtqueue.  The driver owns one header, one status *)
(* byte and descriptors 0..2, which every request reuses; it publishes a   *)
(* chain, polls the used index, and gives up after a bounded spin.  The    *)
(* device reads descriptors, header and data when it gets to a chain.      *)
(***************************************************************************)
EXTENDS Integers

CONSTANTS
    Capacity,        \* capacity_sectors
    Values,          \* what a sector or a buffer may hold
    IdxMod,          \* 2^16, the modulus of the ring indices
    MaxReqs,         \* bound: transfers, each with a buffer of its own
    MaxTimeouts      \* bound: transfers given up

ASSUME BlkAssumption ==
    /\ Capacity \in Nat \ {0} /\ MaxReqs \in Nat
    /\ MaxTimeouts \in Nat
    /\ IdxMod \in Nat /\ IdxMod > MaxTimeouts + 1

VARIABLES
    pc,              \* the driver: "idle", "ready" to publish, or "polling"
    req,             \* number of the current or last transfer
    asked,           \* its sector and direction
    header,          \* BlkDev.header
    data,            \* transfer whose buffer descriptor 1 points to
    status,          \* BlkDev.status
    bufs,            \* the callers' buffers
    avail_idx, last_used, used_idx,
    taken,           \* device: chains it has started
    job,             \* device: the chain it is working on
    disk,            \* device: contents of the medium
    result,          \* what the last transfer returned
    timeouts         \* history: transfers given up

driver == <<pc, req, asked, header, data, avail_idx, last_used, result, timeouts>>
device == <<used_idx, taken, job, disk>>
vars == <<driver, device, status, bufs>>

Sectors == 0 .. Capacity - 1
Reqs == 1 .. MaxReqs
NoJob == [sector |-> 0, write |-> FALSE, buf |-> 0]
Next1(i) == (i + 1) % IdxMod

Init ==
    /\ pc = "idle" /\ req = 0 /\ asked = [sector |-> 0, write |-> FALSE]
    /\ header = asked /\ data = 0 /\ status = "pending"
    /\ bufs \in [Reqs -> Values]
    /\ avail_idx = 0 /\ last_used = 0 /\ used_idx = 0 /\ taken = 0
    /\ job = NoJob
    /\ disk \in [Sectors -> Values]
    /\ result = "none" /\ timeouts = 0
-----------------------------------------------------------------------------
(* The driver. *)

\* transfer() up to the descriptors; a transfer beyond the device ends here.
Prepare ==
    /\ pc = "idle" /\ req < MaxReqs
    /\ req' = req + 1
    /\ \E sector \in 0 .. Capacity, write \in BOOLEAN :
        /\ asked' = [sector |-> sector, write |-> write]
        /\ IF sector \notin Sectors
           THEN /\ result' = "Err"
                /\ UNCHANGED <<pc, header, data, status>>
           ELSE /\ header' = asked' /\ data' = req'
                /\ status' = "pending"
                /\ pc' = "ready" /\ result' = "none"
    /\ UNCHANGED <<bufs, avail_idx, last_used, timeouts, device>>

\* avail.idx is advanced behind a fence and the device notified.
Publish ==
    /\ pc = "ready"
    /\ avail_idx' = Next1(avail_idx)
    /\ pc' = "polling"
    /\ UNCHANGED <<req, asked, header, data, last_used, result, timeouts>>
    /\ UNCHANGED <<status, bufs, device>>

\* Mutant: the used index is compared and never caught up with.
PollKeepsLastUsed ==
    /\ pc = "polling"
    /\ used_idx # last_used
    /\ result' = IF status = "ok" THEN "Ok" ELSE "Err"
    /\ pc' = "idle"
    /\ UNCHANGED <<req, asked, header, data, avail_idx, last_used, timeouts>>
    /\ UNCHANGED <<status, bufs, device>>

\* Mutant: the completion is not waited for.
PollWithoutWaiting ==
    /\ pc = "polling"
    /\ last_used' = Next1(last_used)
    /\ result' = IF status = "error" THEN "Err" ELSE "Ok"
    /\ pc' = "idle"
    /\ UNCHANGED <<req, asked, header, data, avail_idx, timeouts>>
    /\ UNCHANGED <<status, bufs, device>>

\* The used index has moved: take one completion, return by the status byte.
PollSucceeds ==
    /\ pc = "polling"
    /\ used_idx # last_used
    /\ last_used' = Next1(last_used)
    /\ result' = IF status = "ok" THEN "Ok" ELSE "Err"
    /\ pc' = "idle"
    /\ UNCHANGED <<req, asked, header, data, avail_idx, timeouts>>
    /\ UNCHANGED <<status, bufs, device>>

\* The spin budget is spent; the chain stays published.
PollTimesOut ==
    /\ pc = "polling"
    /\ used_idx = last_used /\ timeouts < MaxTimeouts
    /\ timeouts' = timeouts + 1
    /\ result' = "Err"
    /\ pc' = "idle"
    /\ UNCHANGED <<req, asked, header, data, avail_idx, last_used>>
    /\ UNCHANGED <<status, bufs, device>>
-----------------------------------------------------------------------------
(* The device, as the driver relies on it: chains in order, one at a time. *)

DeviceFetches ==
    /\ job = NoJob /\ taken # avail_idx
    /\ taken' = Next1(taken)
    /\ job' = [sector |-> header.sector, write |-> header.write, buf |-> data]
    /\ UNCHANGED <<used_idx, disk, status, bufs, driver>>

DeviceCompletes ==
    /\ job # NoJob
    /\ \/ /\ status' = "ok"
          /\ IF job.write
             THEN disk' = [disk EXCEPT ![job.sector] = bufs[job.buf]] /\ UNCHANGED bufs
             ELSE bufs' = [bufs EXCEPT ![job.buf] = disk[job.sector]] /\ UNCHANGED disk
       \/ status' = "error" /\ UNCHANGED <<disk, bufs>>
    /\ used_idx' = Next1(used_idx)
    /\ job' = NoJob
    /\ UNCHANGED <<taken, driver>>

Next ==
    \/ Prepare \/ Publish \/ PollSucceeds \/ PollTimesOut
    \/ DeviceFetches \/ DeviceCompletes

Spec == Init /\ [][Next]_vars
-----------------------------------------------------------------------------
(* Properties. *)

\* A transfer that returned Ok did what was asked: the caller's buffer and the
\* sector agree, the sector having been read or written for this very request.
Faithful == pc = "idle" /\ result = "Ok" => bufs[req] = disk[asked.sector]

\* Until a request has timed out, Ok means the transfer took place, although
\* header, status and descriptors are shared by all requests (transfer()).
FaithfulUntilTimeout == timeouts = 0 => Faithful

\* last_used lags behind the published chains by exactly the transfers that
\* timed out, for ever: no completion is counted twice and none is skipped, so
\* each later transfer is answered by the completion of an earlier one.
LagIsTimeouts ==
    (avail_idx - last_used) % IdxMod = timeouts + (IF pc = "polling" THEN 1 ELSE 0)
=============================================================================
