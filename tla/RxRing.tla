------------------------------- MODULE RxRing -------------------------------
(***************************************************************************)
(* The console input ring of uart.rs: the receive interrupt stores bytes   *)
(* at head, readers take them at tail, and one cell stays empty so that    *)
(* head = tail means "no input".  RX_BUF is locked per byte, so the model  *)
(* steps per byte: one pass of the interrupt's drain loop, one read_byte.  *)
(***************************************************************************)
EXTENDS Naturals, Sequences

CONSTANTS
    RX_BUF_SIZE,
    Typed          \* what the UART delivers: bytes, "CR" and "NL" among them

ASSUME RingAssumption == RX_BUF_SIZE \in Nat \ {0} /\ {"CR", "NL"} \subseteq Typed

VARIABLES
    buf,
    head,          \* next write
    tail,          \* next read
    got            \* result of the last read_byte

ringVars == <<buf, head, tail, got>>

Cells == 0 .. RX_BUF_SIZE - 1

Bytes == Typed \ {"CR"}

Init ==
    /\ buf = [i \in Cells |-> "NUL"]
    /\ head = 0
    /\ tail = 0
    /\ got = "None"

\* Terminals send CR; processes read NL.
Translate(b) == IF b = "CR" THEN "NL" ELSE b

\* Mutant: the ring is filled to the last cell and then looks empty.
StoreInLastCell(b) ==
    /\ buf' = [buf EXCEPT ![head] = Translate(b)]
    /\ head' = (head + 1) % RX_BUF_SIZE
    /\ UNCHANGED <<tail, got>>

\* One pass of the loop in handle_interrupt: with the ring full the byte is
\* dropped.
store_byte(b) ==
    LET next == (head + 1) % RX_BUF_SIZE
    IN  /\ IF next # tail
           THEN buf' = [buf EXCEPT ![head] = Translate(b)] /\ head' = next
           ELSE UNCHANGED <<buf, head>>
        /\ UNCHANGED <<tail, got>>

read_byte ==
    /\ IF head = tail
       THEN got' = "None" /\ UNCHANGED tail
       ELSE got' = buf[tail] /\ tail' = (tail + 1) % RX_BUF_SIZE
    /\ UNCHANGED <<buf, head>>

Next == read_byte \/ \E b \in Typed : store_byte(b)

Spec == Init /\ [][Next]_ringVars
-----------------------------------------------------------------------------
\* The buffered bytes, oldest first.
Contents ==
    [i \in 1 .. (head + RX_BUF_SIZE - tail) % RX_BUF_SIZE |->
        buf[(tail + i - 1) % RX_BUF_SIZE]]

Fifo == INSTANCE BoundedFifo WITH
            queue <- Contents, Items <- Bytes, Capacity <- RX_BUF_SIZE - 1

\* The ring is a FIFO of RX_BUF_SIZE - 1 bytes through every wrap-around of
\* both indices: nothing is reordered, repeated or overwritten, and input is
\* dropped only when RX_BUF_SIZE - 1 bytes are waiting.
ImplementsFifo == Fifo!Spec
=============================================================================
