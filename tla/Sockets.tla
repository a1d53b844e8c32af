------------------------------- MODULE Sockets -------------------------------
(***************************************************************************)
(* UDP sockets (net/socket.rs) behind the descriptor tables of processes   *)
(* (syscall/posix.rs): socket, bind, sendto, recvfrom, close, openat, and  *)
(* what fork and exit do to descriptors (exec leaves them alone).          *)
(*                                                                         *)
(* The kernel polls for received frames only inside recvfrom, which holds  *)
(* the hart until a datagram is queued on its socket or its budget of      *)
(* polls is spent; `receiver' is the call in progress.                     *)
(***************************************************************************)
EXTENDS Integers, Sequences, FiniteSetsExt, Functions

CONSTANTS
    Procs,           \* processes
    MAX_SOCKETS,
    MAX_BACKLOG,
    EPHEMERAL_BASE,
    U16Max,          \* u16::MAX
    Ports,           \* ports passed to bind, 0 included
    WirePorts,       \* destination ports of datagrams on the wire
    Data,            \* their payloads
    MaxFds           \* bound: descriptors of a process

\* The ephemeral range is longer than the socket table, as in the code.
ASSUME SocketAssumption ==
    /\ MAX_SOCKETS \in Nat /\ MAX_BACKLOG \in Nat
    /\ EPHEMERAL_BASE \in Nat \ {0} /\ U16Max \in Nat
    /\ U16Max - EPHEMERAL_BASE > MAX_SOCKETS
    /\ Ports \cup WirePorts \subseteq 0 .. U16Max

VARIABLES
    table,           \* SocketTable.slots
    next_ephemeral,
    files,           \* Process.files of each process
    live,            \* the processes that exist
    receiver,        \* the recvfrom in progress
    shared           \* history: a process forked with a socket open

vars == <<table, next_ephemeral, files, live, receiver, shared>>

Idxs == 0 .. MAX_SOCKETS - 1

NoSocket == [open |-> FALSE, local_port |-> 0, rx |-> <<>>]
Unbound == [NoSocket EXCEPT !.open = TRUE]

\* Descriptors: a socket index, File for files and devices, Closed for None.
File == -1
Closed == -2

Idle == [proc |-> "none", idx |-> 0]

OpenSockets == {i \in Idxs : table[i].open}

Init ==
    /\ table = [i \in Idxs |-> NoSocket]
    /\ next_ephemeral = EPHEMERAL_BASE
    /\ files = [p \in Procs |-> <<>>]
    /\ \E p \in Procs : live = {p}
    /\ receiver = Idle
    /\ shared = FALSE

\* A process can make a call: no recvfrom occupies the kernel.
Calls(p) == p \in live /\ receiver = Idle
-----------------------------------------------------------------------------
(* Descriptors. *)

ClosedFds(p) == {k \in DOMAIN files[p] : files[p][k] = Closed}

\* Reuse the first closed descriptor or append one.
install_fd(p, kind) ==
    files' = [files EXCEPT ![p] =
                IF ClosedFds(p) # {} THEN [@ EXCEPT ![Min(ClosedFds(p))] = kind]
                ELSE Append(@, kind)]

RoomForFd(p) == ClosedFds(p) # {} \/ Len(files[p]) < MaxFds

SocketIdxs(p) == Range(files[p]) \cap Idxs

sys_openat(p) ==
    /\ Calls(p) /\ RoomForFd(p)
    /\ install_fd(p, File)
    /\ UNCHANGED <<table, next_ephemeral, live, receiver, shared>>

FreeIdxs == Idxs \ OpenSockets

\* ENFILE with the table full, in which case nothing changes.
sys_socket(p) ==
    /\ Calls(p) /\ RoomForFd(p) /\ FreeIdxs # {}
    /\ LET idx == Min(FreeIdxs)
       IN  /\ table' = [table EXCEPT ![idx] = Unbound]
           /\ install_fd(p, idx)
    /\ UNCHANGED <<next_ephemeral, live, receiver, shared>>

\* Mutant: the descriptor is left in place.
CloseKeepsFd(p, fd) ==
    /\ table' = IF files[p][fd] \in Idxs
                THEN [table EXCEPT ![files[p][fd]] = NoSocket] ELSE table
    /\ UNCHANGED files

\* Mutant: the socket is not freed with its descriptor.
CloseKeepsSocket(p, fd) ==
    /\ files' = [files EXCEPT ![p][fd] = Closed]
    /\ UNCHANGED table

\* Closing a socket frees its table entry, whoever else holds its index.
close_fd(p, fd) ==
    /\ table' = IF files[p][fd] \in Idxs
                THEN [table EXCEPT ![files[p][fd]] = NoSocket] ELSE table
    /\ files' = [files EXCEPT ![p][fd] = Closed]

sys_close(p) ==
    /\ Calls(p)
    /\ \E fd \in DOMAIN files[p] \ ClosedFds(p) : close_fd(p, fd)
    /\ UNCHANGED <<next_ephemeral, live, receiver, shared>>

\* fork copies the descriptors, socket indices included.
fork_current(p) ==
    /\ Calls(p)
    /\ \E c \in Procs \ live :
        /\ live' = live \cup {c}
        /\ files' = [files EXCEPT ![c] = files[p]]
    /\ shared' = (shared \/ SocketIdxs(p) # {})
    /\ UNCHANGED <<table, next_ephemeral, receiver>>

\* exit and reaping drop the descriptors; the sockets behind them stay open.
exit_current(p) ==
    /\ Calls(p) /\ live # {p}
    /\ live' = live \ {p}
    /\ files' = [files EXCEPT ![p] = <<>>]
    /\ UNCHANGED <<table, next_ephemeral, receiver, shared>>
-----------------------------------------------------------------------------
(* Ports. *)

port_in_use(port) == \E i \in OpenSockets : table[i].local_port = port

\* Ephemeral ports are EPHEMERAL_BASE .. U16Max - 1, taken in cyclic order.
Span == U16Max - EPHEMERAL_BASE
PortAfter(port, k) == EPHEMERAL_BASE + ((port - EPHEMERAL_BASE + k) % Span)

\* Mutant: ports in use are not skipped.
NextPortUnchecked == next_ephemeral

\* The search: the first port not in use from next_ephemeral on; after Span
\* tries it is back where it began.
EphemeralPort ==
    LET unused == {k \in 0 .. Span - 1 : ~port_in_use(PortAfter(next_ephemeral, k))}
    IN  PortAfter(next_ephemeral, IF unused = {} THEN Span ELSE Min(unused))

\* A stale index still advances next_ephemeral before bind fails.
bind(idx, port) ==
    IF port = 0
    THEN /\ next_ephemeral' = PortAfter(EphemeralPort, 1)
         /\ table' = IF table[idx].open
                     THEN [table EXCEPT ![idx].local_port = EphemeralPort] ELSE table
    ELSE /\ table' = IF table[idx].open /\ ~port_in_use(port)
                     THEN [table EXCEPT ![idx].local_port = port] ELSE table
         /\ UNCHANGED next_ephemeral

sys_bind(p) ==
    /\ Calls(p)
    /\ \E idx \in SocketIdxs(p), port \in Ports : bind(idx, port)
    /\ UNCHANGED <<files, live, receiver, shared>>

\* sendto binds an unbound socket to an ephemeral port first; the datagram
\* leaves through the driver.
sys_sendto(p) ==
    /\ Calls(p)
    /\ \E idx \in SocketIdxs(p) :
        IF table[idx].local_port = 0 THEN bind(idx, 0)
        ELSE UNCHANGED <<table, next_ephemeral>>
    /\ UNCHANGED <<files, live, receiver, shared>>
-----------------------------------------------------------------------------
(* Receiving. *)

sys_recvfrom(p) ==
    /\ Calls(p)
    /\ \E idx \in SocketIdxs(p) : receiver' = [proc |-> p, idx |-> idx]
    /\ UNCHANGED <<table, next_ephemeral, files, live, shared>>

Owners(port) == {i \in OpenSockets : table[i].local_port = port}

\* Mutant: a full backlog is not noticed.
DeliverUncapped(port, d) ==
    IF Owners(port) # {}
    THEN table' = [table EXCEPT ![Min(Owners(port))].rx = Append(@, d)]
    ELSE UNCHANGED table

\* The first socket with that local port gets the datagram, unless its backlog
\* is full; without one it is dropped.
deliver(port, d) ==
    IF Owners(port) # {} /\ Len(table[Min(Owners(port))].rx) < MAX_BACKLOG
    THEN table' = [table EXCEPT ![Min(Owners(port))].rx = Append(@, d)]
    ELSE UNCHANGED table

\* net::poll hands one received datagram to the table.
PollDelivers ==
    /\ receiver # Idle
    /\ \E port \in WirePorts, d \in Data : deliver(port, d)
    /\ UNCHANGED <<next_ephemeral, files, live, receiver, shared>>

\* socket::recv after a poll: the oldest datagram ends the call.
RecvReturns ==
    /\ receiver # Idle
    /\ table[receiver.idx].rx # <<>>
    /\ table' = [table EXCEPT ![receiver.idx].rx = Tail(@)]
    /\ receiver' = Idle
    /\ UNCHANGED <<next_ephemeral, files, live, shared>>

\* EAGAIN: the polls are spent and nothing is queued.
RecvTimesOut ==
    /\ receiver # Idle
    /\ table[receiver.idx].rx = <<>>
    /\ receiver' = Idle
    /\ UNCHANGED <<table, next_ephemeral, files, live, shared>>

ProcessCalls(p) ==
    \/ sys_openat(p) \/ sys_socket(p) \/ sys_close(p) \/ fork_current(p)
    \/ exit_current(p) \/ sys_bind(p) \/ sys_sendto(p) \/ sys_recvfrom(p)

Next ==
    \/ \E p \in Procs : ProcessCalls(p)
    \/ PollDelivers \/ RecvReturns \/ RecvTimesOut

Spec == Init /\ [][Next]_vars
-----------------------------------------------------------------------------
(* Properties. *)

\* Every variable has its type; a backlog never exceeds MAX_BACKLOG ("so a
\* chatty peer can't exhaust the heap") and port U16Max is never handed out.
TypeOK ==
    /\ \A i \in Idxs :
        /\ table[i].local_port \in 0 .. U16Max
        /\ table[i].rx \in Seq(Data) /\ Len(table[i].rx) <= MAX_BACKLOG
        /\ ~table[i].open => table[i] = NoSocket
    /\ next_ephemeral \in EPHEMERAL_BASE .. U16Max - 1
    /\ \A p \in Procs : Range(files[p]) \subseteq Idxs \cup {File, Closed}
    /\ live \subseteq Procs
    /\ receiver # Idle => receiver.proc \in live /\ receiver.idx \in Idxs

\* No two sockets are bound to one port, through explicit and ephemeral binds,
\* rebinding and the wrap of the ephemeral range (bind, port_in_use).
PortUnique ==
    \A i, j \in OpenSockets :
        table[i].local_port = table[j].local_port /\ table[i].local_port # 0 => i = j

\* As long as nobody forks with a socket open, a descriptor's socket is open
\* and no second descriptor refers to it: the reuse of table entries and of
\* descriptors never gives a process another one's socket.
ExclusiveUntilShared ==
    ~shared =>
        \A p, q \in Procs : \A k \in DOMAIN files[p], l \in DOMAIN files[q] :
            files[p][k] \in Idxs =>
                /\ table[files[p][k]].open
                /\ files[p][k] = files[q][l] => p = q /\ k = l

\* Open sockets that no descriptor refers to: nobody can close them any more.
Lost == OpenSockets \ UNION {SocketIdxs(p) : p \in Procs}

\* exit drops descriptors without closing the sockets behind them.  It is the only
\* way to lose one: descriptors reused, closed twice or shared by fork never do.
LostOnlyAtExit == [][Lost' \subseteq Lost \/ \E p \in Procs : exit_current(p)]_vars

\* "Datagrams received by the interface are queued here per bound local port":
\* a datagram is queued only on a socket that is bound.
QueuedOnBoundPort ==
    [][PollDelivers => \A i \in Idxs :
        table'[i].rx # table[i].rx => table[i].local_port # 0]_vars
=============================================================================
