------------------------------ MODULE VirtioNet ------------------------------
(***************************************************************************)
(* The network driver (drivers/virtio/net.rs) and its device.  Receive: the *)
(* device takes a posted buffer per frame and returns it through the used  *)
(* ring; poll_rx drains that ring and posts each buffer again.  Transmit:  *)
(* one buffer and descriptor 0 for all frames, polled like a block request *)
(* with a bounded spin.                                                    *)
(***************************************************************************)
EXTENDS Integers, Sequences

CONSTANTS
    QUEUE_SIZE,
    IdxMod,          \* 2^16, the modulus of the ring indices
    Frames,          \* frames; "runt" is one no longer than the header
    MaxSends,        \* bound: frames sent
    MaxTimeouts      \* bound: sends given up

\* The modulus is a multiple of the queue size, so that an index modulo the
\* queue size walks the ring without a jump when it wraps.
ASSUME NetAssumption ==
    /\ QUEUE_SIZE \in Nat \ {0} /\ IdxMod \in Nat
    /\ IdxMod % QUEUE_SIZE = 0 /\ IdxMod > QUEUE_SIZE
    /\ MaxSends \in Nat /\ MaxTimeouts \in Nat /\ IdxMod > MaxTimeouts + 1

VARIABLES
    rx_avail, rx_avail_idx,    \* receive: the available ring
    rx_used, rx_used_idx,      \* receive: the used ring
    rx_last_used,
    rx_taken,                  \* device: receive buffers it has taken
    rx_bufs,                   \* contents of the receive buffers
    got,                       \* the frame poll_rx last handed on
    pc,                        \* the sender: "idle" or "polling"
    frame,                     \* the frame being sent
    tx_buf,                    \* contents of the transmit buffer
    tx_avail_idx, tx_used_idx, tx_last_used,
    sends, timeouts,           \* history: sends begun and given up
    result,                    \* of the last send
    wire                       \* history: the frames that left

rxVars == <<rx_avail, rx_avail_idx, rx_used, rx_used_idx, rx_last_used, rx_taken,
            rx_bufs, got>>
txVars == <<pc, frame, tx_buf, tx_avail_idx, tx_used_idx, tx_last_used, sends,
            timeouts, result, wire>>
vars == <<rxVars, txVars>>

Ring == 0 .. QUEUE_SIZE - 1
Next1(i) == (i + 1) % IdxMod
Cell(i) == i % QUEUE_SIZE

\* init() posts every receive buffer.
Init ==
    /\ rx_avail = [i \in Ring |-> i] /\ rx_avail_idx = QUEUE_SIZE
    /\ rx_used = [i \in Ring |-> 0] /\ rx_used_idx = 0
    /\ rx_last_used = 0 /\ rx_taken = 0
    /\ rx_bufs = [i \in Ring |-> "None"] /\ got = "None"
    /\ pc = "idle" /\ frame = "None" /\ tx_buf = "None"
    /\ tx_avail_idx = 0 /\ tx_used_idx = 0 /\ tx_last_used = 0
    /\ sends = 0 /\ timeouts = 0 /\ result = "none" /\ wire = <<>>
-----------------------------------------------------------------------------
(* Receive. *)

\* The device fills the next posted buffer and reports it; without one the
\* frame is lost.
DeviceReceives ==
    /\ \E f \in Frames :
        IF rx_taken = rx_avail_idx
        THEN UNCHANGED <<rx_bufs, rx_used, rx_used_idx, rx_taken>>
        ELSE LET id == rx_avail[Cell(rx_taken)]
             IN  /\ rx_bufs' = [rx_bufs EXCEPT ![id] = f]
                 /\ rx_used' = [rx_used EXCEPT ![Cell(rx_used_idx)] = id]
                 /\ rx_used_idx' = Next1(rx_used_idx)
                 /\ rx_taken' = Next1(rx_taken)
    /\ UNCHANGED <<rx_avail, rx_avail_idx, rx_last_used, got, txVars>>

\* Mutant: the buffer of a runt is not posted again.
RepostFramesOnly(id) ==
    IF rx_bufs[id] = "runt" THEN UNCHANGED <<rx_avail, rx_avail_idx>>
    ELSE /\ rx_avail' = [rx_avail EXCEPT ![Cell(rx_avail_idx)] = id]
         /\ rx_avail_idx' = Next1(rx_avail_idx)

\* Mutant: the buffer is posted under the ring position instead of its id.
RepostPosition(id) ==
    /\ rx_avail' = [rx_avail EXCEPT ![Cell(rx_avail_idx)] = Cell(rx_last_used + 1)]
    /\ rx_avail_idx' = Next1(rx_avail_idx)

Repost(id) ==
    /\ rx_avail' = [rx_avail EXCEPT ![Cell(rx_avail_idx)] = id]
    /\ rx_avail_idx' = Next1(rx_avail_idx)

\* One pass of the loop in poll_rx; `got' is the frame handed to the callback,
\* "runt" when the buffer was posted again without calling it.  The NET lock
\* keeps it out of a send.
poll_rx ==
    /\ pc = "idle"
    /\ IF rx_used_idx = rx_last_used
       THEN got' = "None" /\ UNCHANGED <<rx_last_used, rx_avail, rx_avail_idx>>
       ELSE LET id == rx_used[Cell(rx_last_used)]
            IN  /\ got' = rx_bufs[id]
                /\ rx_last_used' = Next1(rx_last_used)
                /\ Repost(id)
    /\ UNCHANGED <<rx_used, rx_used_idx, rx_taken, rx_bufs, txVars>>
-----------------------------------------------------------------------------
(* Transmit. *)

send ==
    /\ pc = "idle" /\ sends < MaxSends
    /\ frame' \in Frames \ {"runt"}
    /\ tx_buf' = frame'
    /\ tx_avail_idx' = Next1(tx_avail_idx)
    /\ sends' = sends + 1
    /\ pc' = "polling" /\ result' = "none"
    /\ UNCHANGED <<tx_used_idx, tx_last_used, timeouts, wire, rxVars>>

\* A frame longer than the buffer is refused before the device is touched.
SendTooLarge ==
    /\ pc = "idle"
    /\ result' = "Err"
    /\ UNCHANGED <<pc, frame, tx_buf, tx_avail_idx, tx_used_idx, tx_last_used, sends,
                   timeouts, wire, rxVars>>

\* Mutant: a send is answered without looking at the used ring.
SendWithoutWaiting ==
    /\ pc = "polling"
    /\ tx_last_used' = Next1(tx_last_used)
    /\ pc' = "idle" /\ result' = "Ok"
    /\ UNCHANGED <<frame, tx_buf, tx_avail_idx, tx_used_idx, sends, timeouts, wire, rxVars>>

SendCompletes ==
    /\ pc = "polling"
    /\ tx_used_idx # tx_last_used
    /\ tx_last_used' = Next1(tx_last_used)
    /\ pc' = "idle" /\ result' = "Ok"
    /\ UNCHANGED <<frame, tx_buf, tx_avail_idx, tx_used_idx, sends, timeouts, wire, rxVars>>

SendTimesOut ==
    /\ pc = "polling"
    /\ tx_used_idx = tx_last_used /\ timeouts < MaxTimeouts
    /\ timeouts' = timeouts + 1
    /\ pc' = "idle" /\ result' = "Err"
    /\ UNCHANGED <<frame, tx_buf, tx_avail_idx, tx_used_idx, tx_last_used, sends, wire, rxVars>>

\* The device transmits what the buffer holds when it gets to the chain.
DeviceTransmits ==
    /\ tx_used_idx # tx_avail_idx
    /\ wire' = Append(wire, tx_buf)
    /\ tx_used_idx' = Next1(tx_used_idx)
    /\ UNCHANGED <<pc, frame, tx_buf, tx_avail_idx, tx_last_used, sends, timeouts,
                   result, rxVars>>

Next ==
    \/ DeviceReceives \/ poll_rx
    \/ send \/ SendTooLarge \/ SendCompletes \/ SendTimesOut \/ DeviceTransmits

Spec == Init /\ [][Next]_vars
-----------------------------------------------------------------------------
(* Properties. *)

\* Frames the device has reported and poll_rx has not handed on, oldest first.
Waiting ==
    [i \in 1 .. ((rx_used_idx - rx_last_used) % IdxMod) |->
        rx_bufs[rx_used[Cell(rx_last_used + i - 1)]]]

RxFifo == INSTANCE BoundedFifo WITH
            queue <- Waiting, Items <- Frames, Capacity <- QUEUE_SIZE

\* Receive is a FIFO of QUEUE_SIZE frames through every wrap of the four
\* indices: buffers are recycled without a frame being lost, repeated,
\* reordered or overwritten while it waits, and a frame is dropped only when
\* all buffers hold frames that wait (init, poll_rx).
ReceiveIsFifo == RxFifo!Spec

\* Receive buffers posted and not yet taken by the device.
Posted == {rx_avail[Cell(rx_taken + k)] : k \in 0 .. ((rx_avail_idx - rx_taken) % IdxMod) - 1}
Filled == {rx_used[Cell(rx_last_used + k)] : k \in 0 .. ((rx_used_idx - rx_last_used) % IdxMod) - 1}

\* Every receive buffer is either posted or waiting to be drained, never both
\* and never neither: the driver leaks no buffer, runts included.
BuffersConserved == Posted \cup Filled = Ring /\ Posted \cap Filled = {}

\* Until a send has timed out, a send that returned Ok put its frame on the
\* wire, once, and after the frames of the sends before it (send()).
SentUntilTimeout ==
    timeouts = 0 /\ pc = "idle" /\ result = "Ok" =>
        Len(wire) = sends /\ wire[sends] = frame

\* "TX (1) carries one frame at a time": at most one chain is with the device.
OneFrameAtATime == (tx_avail_idx - tx_used_idx) % IdxMod <= 1
=============================================================================
