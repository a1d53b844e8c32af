---------------------------- MODULE NetworkProofs ----------------------------
(***************************************************************************)
(* Theorems about the network stack: the socket table, for every number of *)
(* processes, sockets and ports, as long as the ephemeral range is longer  *)
(* than the table; the interface below it, for every set of hosts and      *)
(* addresses, every cache length and every number of polls; and the two    *)
(* composed.                                                               *)
(***************************************************************************)
EXTENDS NetInterface, SequenceTheorems, FiniteSetTheorems, TLAPS
-----------------------------------------------------------------------------
(* The socket table. *)

\* A set of natural numbers has a least element, which Min chooses.
LEMMA MinOfNats ==
  ASSUME NEW S \in SUBSET Nat, S # {}
  PROVE  Min(S) \in S /\ \A y \in S : Min(S) <= y
<1>1. \E x \in S : \A y \in S : ~ (<<y, x>> \in OpToRel(<, Nat))
  BY NatLessThanWellFounded, WFMin
<1>2. \E x \in S : \A y \in S : x <= y
  <2>1. PICK x \in S : \A y \in S : ~ (<<y, x>> \in OpToRel(<, Nat))
    BY <1>1
  <2>2. \A y \in S : <<y, x>> \in Nat \X Nat
    OBVIOUS
  <2>3. \A y \in S : ~ (y < x)
    BY <2>1, <2>2 DEF OpToRel
  <2> QED
    BY <2>3
<1> QED
  BY <1>2 DEF Min

EphemeralPorts == EPHEMERAL_BASE .. U16Max - 1

\* The cyclic order of the ephemeral range.
LEMMA PortOrder ==
  ASSUME NEW port \in EphemeralPorts
  PROVE  /\ Span \in Nat /\ Span > MAX_SOCKETS
         /\ \A k \in 0 .. Span - 1 : PortAfter(port, k) \in EphemeralPorts
         /\ PortAfter(port, 1) \in EphemeralPorts
         /\ \A k, l \in 0 .. Span - 1 : PortAfter(port, k) = PortAfter(port, l) => k = l
<1> DEFINE a == port - EPHEMERAL_BASE
<1>1. Span \in Nat /\ Span > MAX_SOCKETS /\ Span > 0 /\ a \in 0 .. Span - 1
  BY SocketAssumption DEF SocketAssumption, Span, EphemeralPorts
<1>2. /\ \A k \in 0 .. Span - 1 :
            (a + k) % Span = IF a + k < Span THEN a + k ELSE a + k - Span
      /\ (a + 1) % Span = IF a + 1 < Span THEN a + 1 ELSE a + 1 - Span
  <2> HIDE DEF a
  <2> QED
    BY <1>1
<1> QED
  BY <1>1, <1>2, SocketAssumption DEF SocketAssumption, PortAfter, EphemeralPorts, Span

Socket == [open : BOOLEAN, local_port : 0 .. U16Max, rx : Seq(Data)]
Kinds == Idxs \cup {File, Closed}

\* A table of sockets with bounded backlogs and no port bound twice.
Sound(t) ==
    /\ t \in [Idxs -> Socket]
    /\ \A i \in Idxs : /\ Len(t[i].rx) <= MAX_BACKLOG
                       /\ ~t[i].open => t[i] = NoSocket
    /\ \A i, j \in Idxs : t[i].open /\ t[j].open /\ t[i].local_port # 0
                            /\ t[i].local_port = t[j].local_port => i = j

TableInv == Sound(table) /\ next_ephemeral \in EphemeralPorts

FilesInv ==
    /\ files \in [Procs -> Seq(Kinds)] /\ live \subseteq Procs
    /\ receiver = Idle \/ receiver \in [proc : live, idx : Idxs]

SockInv == TableInv /\ FilesInv

\* One entry of a sound table is replaced by a socket whose port is free.
LEMMA Replace ==
  ASSUME NEW t, Sound(t), NEW i \in Idxs, NEW s \in Socket,
         Len(s.rx) <= MAX_BACKLOG, ~s.open => s = NoSocket,
         s.open /\ s.local_port # 0 =>
            \A j \in Idxs \ {i} : t[j].open => t[j].local_port # s.local_port
  PROVE  Sound([t EXCEPT ![i] = s])
<1> DEFINE u == [t EXCEPT ![i] = s]
<1>1. u \in [Idxs -> Socket] /\ \A j \in Idxs : u[j] = IF j = i THEN s ELSE t[j]
  BY DEF Sound
<1> HIDE DEF u
<1>2. Sound(u)
  BY <1>1 DEF Sound
<1> QED
  BY <1>2 DEF u

\* A free entry, and a socket just opened.
LEMMA FreshSockets ==
  /\ NoSocket \in Socket /\ Len(NoSocket.rx) = 0 /\ ~NoSocket.open
  /\ Unbound \in Socket /\ Len(Unbound.rx) = 0 /\ Unbound.open /\ Unbound.local_port = 0
<1>1. NoSocket \in Socket /\ NoSocket.rx = <<>> /\ ~NoSocket.open /\ NoSocket.local_port = 0
  BY SocketAssumption DEF SocketAssumption, NoSocket, Socket
<1>2. Unbound \in Socket /\ Unbound.rx = NoSocket.rx /\ Unbound.open /\ Unbound.local_port = 0
  BY <1>1 DEF Unbound, Socket
<1> QED
  BY <1>1, <1>2

\* An open socket is bound to a port that is free.
LEMMA Rebound ==
  ASSUME NEW t, Sound(t), NEW i \in Idxs, t[i].open, NEW port \in 1 .. U16Max,
         \A j \in Idxs : t[j].open => t[j].local_port # port
  PROVE  Sound([t EXCEPT ![i].local_port = port])
<1> DEFINE s == [t[i] EXCEPT !.local_port = port]
<1>1. t[i] \in Socket /\ Len(t[i].rx) <= MAX_BACKLOG
  BY DEF Sound
<1>2. s \in Socket /\ s.open /\ s.local_port = port /\ s.rx = t[i].rx
  BY <1>1 DEF Socket
<1> HIDE DEF s
<1>3. Sound([t EXCEPT ![i] = s])
  BY <1>1, <1>2, Replace
<1> QED
  BY <1>3 DEF s

\* The queue of an open socket changes within its bound.
LEMMA Requeued ==
  ASSUME NEW t, Sound(t), NEW i \in Idxs, t[i].open, NEW q \in Seq(Data), Len(q) <= MAX_BACKLOG
  PROVE  Sound([t EXCEPT ![i].rx = q])
<1> DEFINE s == [t[i] EXCEPT !.rx = q]
<1>1. t[i] \in Socket
  BY DEF Sound
<1>2. s \in Socket /\ s.open /\ s.local_port = t[i].local_port /\ s.rx = q
  BY <1>1 DEF Socket
<1>3. \A j \in Idxs \ {i} : t[j].open /\ t[i].local_port # 0 => t[j].local_port # t[i].local_port
  BY DEF Sound
<1> HIDE DEF s
<1>4. Sound([t EXCEPT ![i] = s])
  BY <1>2, <1>3, Replace
<1> QED
  BY <1>4 DEF s

\* The search for an ephemeral port succeeds: the range is longer than the table,
\* so the ports in use leave one out.
LEMMA EphemeralIsFree ==
  ASSUME TableInv
  PROVE  EphemeralPort \in EphemeralPorts /\ ~port_in_use(EphemeralPort)
<1> DEFINE after(k) == PortAfter(next_ephemeral, k)
           tries == 0 .. Span - 1
           unused == {k \in tries : ~port_in_use(after(k))}
<1>1. /\ Span \in Nat /\ Span > MAX_SOCKETS
      /\ \A k \in tries : after(k) \in EphemeralPorts
      /\ \A k, l \in tries : after(k) = after(l) => k = l
  BY PortOrder DEF TableInv
<1> HIDE DEF after
<1>2. unused # {}
  <2> SUFFICES ASSUME \A k \in tries : port_in_use(after(k)) PROVE FALSE
    OBVIOUS
  <2> DEFINE owner == [k \in tries |-> CHOOSE i \in Idxs : table[i].local_port = after(k)]
  <2>1. \A k \in tries : \E i \in Idxs : table[i].local_port = after(k)
    BY DEF port_in_use, OpenSockets
  <2>2. owner \in [tries -> Idxs] /\ \A k \in tries : table[owner[k]].local_port = after(k)
    BY <2>1
  <2> HIDE DEF owner
  <2>3. /\ IsFiniteSet(tries) /\ Cardinality(tries) = Span
        /\ IsFiniteSet(Idxs) /\ Cardinality(Idxs) = MAX_SOCKETS
    <3>1. MAX_SOCKETS \in Nat
      BY SocketAssumption DEF SocketAssumption
    <3>2. IsFiniteSet(Idxs) /\ Cardinality(Idxs) = MAX_SOCKETS
      BY <3>1, FS_Interval DEF Idxs
    <3>3. IsFiniteSet(tries) /\ Cardinality(tries) = Span
      BY <1>1, FS_Interval
    <3> QED
      BY <3>2, <3>3
  <2>4. PICK k \in tries, l \in tries : k # l /\ owner[k] = owner[l]
    BY <1>1, <2>2, <2>3, FS_PigeonHole, SocketAssumption DEF SocketAssumption
  <2> QED
    BY <1>1, <2>2, <2>4
<1>3. Min(unused) \in unused
  BY <1>1, <1>2, MinOfNats
<1>4. EphemeralPort = after(Min(unused))
  BY <1>2 DEF EphemeralPort, after
<1> QED
  BY <1>1, <1>3, <1>4
-----------------------------------------------------------------------------
(* Every operation keeps the table sound. *)

\* bind, to a port given or an ephemeral one, takes a port nobody has.
LEMMA BindKeeps ==
  ASSUME TableInv, NEW idx \in Idxs, NEW port \in 0 .. U16Max, bind(idx, port)
  PROVE  TableInv'
<1>1. CASE port = 0
  <2>1. /\ next_ephemeral' = PortAfter(EphemeralPort, 1)
        /\ table' = IF table[idx].open
                    THEN [table EXCEPT ![idx].local_port = EphemeralPort] ELSE table
    BY <1>1 DEF bind
  <2>2. EphemeralPort \in EphemeralPorts /\ ~port_in_use(EphemeralPort)
    BY EphemeralIsFree
  <2>3. next_ephemeral' \in EphemeralPorts
    BY <2>1, <2>2, PortOrder
  <2>4. EphemeralPort \in 1 .. U16Max
    BY <2>2, SocketAssumption DEF SocketAssumption, EphemeralPorts
  <2>5. \A j \in Idxs : table[j].open => table[j].local_port # EphemeralPort
    BY <2>2 DEF port_in_use, OpenSockets
  <2>6. CASE table[idx].open
    <3>1. Sound([table EXCEPT ![idx].local_port = EphemeralPort])
      BY <2>4, <2>5, <2>6, Rebound DEF TableInv
    <3> QED
      BY <2>1, <2>3, <2>6, <3>1 DEF TableInv
  <2>7. CASE ~table[idx].open
    BY <2>1, <2>3, <2>7 DEF TableInv
  <2> QED
    BY <2>6, <2>7
<1>2. CASE port # 0 /\ table[idx].open /\ ~port_in_use(port)
  <2>1. table' = [table EXCEPT ![idx].local_port = port] /\ next_ephemeral' = next_ephemeral
    BY <1>2 DEF bind
  <2>2. \A j \in Idxs : table[j].open => table[j].local_port # port
    BY <1>2 DEF port_in_use, OpenSockets
  <2>3. port \in 1 .. U16Max
    BY <1>2, SocketAssumption DEF SocketAssumption
  <2>4. Sound([table EXCEPT ![idx].local_port = port])
    BY <1>2, <2>2, <2>3, Rebound DEF TableInv
  <2> QED
    BY <2>1, <2>4 DEF TableInv
<1>3. CASE port # 0 /\ ~(table[idx].open /\ ~port_in_use(port))
  BY <1>3 DEF bind, TableInv
<1> QED
  BY <1>1, <1>2, <1>3

\* deliver queues on an open socket with room.
LEMMA DeliverKeeps ==
  ASSUME TableInv, NEW port, NEW d \in Data, deliver(port, d), UNCHANGED next_ephemeral
  PROVE  TableInv'
<1> DEFINE i == Min(Owners(port))
<1>1. CASE Owners(port) # {} /\ Len(table[i].rx) < MAX_BACKLOG
  <2>1. Owners(port) \in SUBSET Nat
    BY SocketAssumption DEF SocketAssumption, Owners, OpenSockets, Idxs
  <2>2. i \in Idxs /\ table[i].open
    BY <1>1, <2>1, MinOfNats DEF Owners, OpenSockets
  <2>3. table' = [table EXCEPT ![i].rx = Append(table[i].rx, d)]
    BY <1>1 DEF deliver
  <2> HIDE DEF i
  <2>4. table[i].rx \in Seq(Data)
    BY <2>2 DEF TableInv, Sound, Socket
  <2>5. Append(table[i].rx, d) \in Seq(Data) /\ Len(Append(table[i].rx, d)) <= MAX_BACKLOG
    BY <1>1, <2>4, AppendProperties, LenProperties, SocketAssumption DEF SocketAssumption, i
  <2>6. Sound([table EXCEPT ![i].rx = Append(table[i].rx, d)])
    BY <2>2, <2>5, Requeued DEF TableInv
  <2> QED
    BY <2>3, <2>6 DEF TableInv
<1>2. CASE ~(Owners(port) # {} /\ Len(table[i].rx) < MAX_BACKLOG)
  BY <1>2 DEF deliver, TableInv
<1> QED
  BY <1>1, <1>2

\* recvfrom takes the oldest datagram.
LEMMA ReceiveKeeps == SockInv /\ RecvReturns => TableInv'
<1> SUFFICES ASSUME SockInv, RecvReturns PROVE TableInv'
  OBVIOUS
<1> DEFINE i == receiver.idx
<1>1. i \in Idxs /\ table[i].rx # <<>> /\ next_ephemeral' = next_ephemeral
  BY DEF SockInv, FilesInv, RecvReturns
<1>2. table' = [table EXCEPT ![i].rx = Tail(table[i].rx)]
  BY DEF RecvReturns
<1> HIDE DEF i
<1>3. table[i] \in Socket /\ table[i].rx \in Seq(Data) /\ Len(table[i].rx) <= MAX_BACKLOG
  BY <1>1 DEF SockInv, TableInv, Sound, Socket
<1>4. table[i].open
  BY <1>1, FreshSockets DEF SockInv, TableInv, Sound, NoSocket
<1>5. Tail(table[i].rx) \in Seq(Data) /\ Len(Tail(table[i].rx)) <= MAX_BACKLOG
  BY <1>1, <1>3, HeadTailProperties, LenProperties, SocketAssumption DEF SocketAssumption
<1>6. Sound([table EXCEPT ![i].rx = Tail(table[i].rx)])
  BY <1>1, <1>4, <1>5, Requeued DEF SockInv, TableInv
<1> QED
  BY <1>1, <1>2, <1>6 DEF SockInv, TableInv

\* Every step keeps the table sound.
LEMMA TableStep == SockInv /\ [Next]_vars => TableInv'
<1> SUFFICES ASSUME SockInv, [Next]_vars PROVE TableInv'
  OBVIOUS
<1>1. CASE UNCHANGED <<table, next_ephemeral>>
  BY <1>1 DEF SockInv, TableInv
<1>2. ASSUME NEW p \in Procs, sys_socket(p) PROVE TableInv'
  <2> DEFINE i == Min(FreeIdxs)
  <2>1. FreeIdxs \in SUBSET Nat /\ FreeIdxs # {}
    BY <1>2, SocketAssumption DEF SocketAssumption, FreeIdxs, Idxs, sys_socket
  <2>2. i \in Idxs
    BY <2>1, MinOfNats DEF FreeIdxs
  <2>3. table' = [table EXCEPT ![i] = Unbound] /\ next_ephemeral' = next_ephemeral
    BY <1>2 DEF sys_socket
  <2> HIDE DEF i
  <2>4. Sound([table EXCEPT ![i] = Unbound])
    BY <2>2, FreshSockets, Replace, SocketAssumption DEF SocketAssumption, SockInv, TableInv
  <2> QED
    BY <2>3, <2>4 DEF SockInv, TableInv
<1>3. ASSUME NEW p \in Procs, sys_close(p) PROVE TableInv'
  <2>1. PICK fd \in DOMAIN files[p] : close_fd(p, fd)
    BY <1>3 DEF sys_close
  <2> DEFINE i == files[p][fd]
  <2>2. next_ephemeral' = next_ephemeral
    BY <1>3 DEF sys_close
  <2>3. table' = IF i \in Idxs THEN [table EXCEPT ![i] = NoSocket] ELSE table
    BY <2>1 DEF close_fd
  <2> HIDE DEF i
  <2>4. i \in Idxs => Sound([table EXCEPT ![i] = NoSocket])
    BY FreshSockets, Replace, SocketAssumption DEF SocketAssumption, SockInv, TableInv
  <2> QED
    BY <2>2, <2>3, <2>4 DEF SockInv, TableInv
<1>4. ASSUME NEW p \in Procs, sys_bind(p) \/ sys_sendto(p) PROVE TableInv'
  <2>1. \/ \E idx \in Idxs, port \in 0 .. U16Max : bind(idx, port)
        \/ UNCHANGED <<table, next_ephemeral>>
    BY <1>4, SocketAssumption DEF SocketAssumption, sys_bind, sys_sendto, SocketIdxs
  <2> QED
    BY <1>1, <2>1, BindKeeps DEF SockInv
<1>5. CASE PollDelivers
  BY <1>5, DeliverKeeps DEF PollDelivers, SockInv
<1>6. CASE RecvReturns
  BY <1>6, ReceiveKeeps
<1> QED
  BY <1>1, <1>2, <1>3, <1>4, <1>5, <1>6
  DEF Next, ProcessCalls, vars, sys_openat, fork_current, exit_current, sys_recvfrom, RecvTimesOut

\* install_fd keeps the descriptors well formed.
LEMMA InstallKeeps ==
  ASSUME FilesInv, NEW p \in Procs, NEW kind \in Kinds, install_fd(p, kind)
  PROVE  files' \in [Procs -> Seq(Kinds)]
<1> DEFINE f == files[p]
           k == Min(ClosedFds(p))
           g == IF ClosedFds(p) # {} THEN [f EXCEPT ![k] = kind] ELSE Append(f, kind)
<1>1. f \in Seq(Kinds) /\ DOMAIN f = 1 .. Len(f)
  BY LenProperties DEF FilesInv
<1>2. g \in Seq(Kinds)
  <2>1. [f EXCEPT ![k] = kind] \in Seq(Kinds) \/ ClosedFds(p) = {}
    <3>1. ClosedFds(p) # {} => k \in 1 .. Len(f)
      <4>1. ClosedFds(p) \subseteq 1 .. Len(f) /\ ClosedFds(p) \in SUBSET Nat
        BY <1>1 DEF ClosedFds
      <4> QED
        BY <4>1, MinOfNats
    <3> HIDE DEF k, f
    <3> QED
      BY <1>1, <3>1, ExceptSeq
  <2>2. Append(f, kind) \in Seq(Kinds)
    BY <1>1, AppendProperties
  <2> QED
    BY <2>1, <2>2
<1>3. files' = [files EXCEPT ![p] = g]
  BY DEF install_fd
<1> HIDE DEF g
<1> QED
  BY <1>2, <1>3 DEF FilesInv

\* Every step keeps the descriptors and the receiver well formed.
LEMMA FilesStep == SockInv /\ [Next]_vars => FilesInv'
<1> SUFFICES ASSUME SockInv, [Next]_vars PROVE FilesInv'
  OBVIOUS
<1>1. FilesInv /\ files \in [Procs -> Seq(Kinds)] /\ live \subseteq Procs
  BY DEF SockInv, FilesInv
<1>2. CASE UNCHANGED <<files, live, receiver>>
  BY <1>1, <1>2 DEF FilesInv
<1>3. ASSUME NEW p \in Procs, sys_openat(p) \/ sys_socket(p) PROVE FilesInv'
  <2>1. \E kind \in Kinds : install_fd(p, kind)
    <3>1. CASE sys_openat(p)
      BY <3>1 DEF sys_openat, Kinds
    <3>2. CASE sys_socket(p)
      <4>1. FreeIdxs \in SUBSET Nat /\ FreeIdxs # {}
        BY <3>2, SocketAssumption DEF SocketAssumption, FreeIdxs, Idxs, sys_socket
      <4>2. Min(FreeIdxs) \in Kinds
        BY <4>1, MinOfNats DEF FreeIdxs, Kinds
      <4> QED
        BY <3>2, <4>2 DEF sys_socket
    <3> QED
      BY <1>3, <3>1, <3>2
  <2>2. files' \in [Procs -> Seq(Kinds)]
    BY <1>1, <2>1, InstallKeeps
  <2> QED
    BY <1>1, <1>3, <2>2 DEF sys_openat, sys_socket, FilesInv
<1>4. ASSUME NEW p \in Procs, sys_close(p) PROVE FilesInv'
  <2>1. PICK fd \in DOMAIN files[p] : close_fd(p, fd)
    BY <1>4 DEF sys_close
  <2> DEFINE g == [files[p] EXCEPT ![fd] = Closed]
  <2>2. files[p] \in Seq(Kinds) /\ fd \in 1 .. Len(files[p]) /\ Closed \in Kinds
    BY <1>1, <2>1, LenProperties DEF Kinds
  <2>3. g \in Seq(Kinds)
    BY <2>2, ExceptSeq
  <2>4. files' = [files EXCEPT ![p] = g]
    BY <2>1 DEF close_fd
  <2> HIDE DEF g
  <2> QED
    BY <1>1, <1>4, <2>3, <2>4 DEF sys_close, FilesInv
<1>5. ASSUME NEW p \in Procs, fork_current(p) PROVE FilesInv'
  BY <1>1, <1>5 DEF fork_current, FilesInv, Calls
<1>6. ASSUME NEW p \in Procs, exit_current(p) PROVE FilesInv'
  <2>1. <<>> \in Seq(Kinds)
    BY EmptySeq
  <2> QED
    BY <1>1, <1>6, <2>1 DEF exit_current, FilesInv, Calls
<1>7. ASSUME NEW p \in Procs, sys_recvfrom(p) PROVE FilesInv'
  BY <1>1, <1>7 DEF sys_recvfrom, FilesInv, Calls, SocketIdxs
<1>8. CASE RecvReturns \/ RecvTimesOut
  BY <1>1, <1>8 DEF RecvReturns, RecvTimesOut, FilesInv
<1> QED
  BY <1>2, <1>3, <1>4, <1>5, <1>6, <1>7, <1>8
  DEF Next, ProcessCalls, vars, sys_bind, sys_sendto, PollDelivers

\* The invariant holds in every reachable state.
THEOREM SockInvariance == Spec => []SockInv
<1>1. Init => SockInv
  <2> SUFFICES ASSUME Init PROVE SockInv
    OBVIOUS
  <2>1. Sound(table)
    BY FreshSockets, SocketAssumption DEF SocketAssumption, Init, Sound
  <2>2. next_ephemeral \in EphemeralPorts
    BY SocketAssumption DEF SocketAssumption, Init, EphemeralPorts
  <2>3. <<>> \in Seq(Kinds)
    BY EmptySeq
  <2>4. FilesInv
    BY <2>3 DEF Init, FilesInv
  <2> QED
    BY <2>1, <2>2, <2>4 DEF SockInv, TableInv
<1>2. SockInv /\ [Next]_vars => SockInv'
  BY TableStep, FilesStep DEF SockInv
<1> QED
  BY <1>1, <1>2, PTL DEF Spec

\* No port is bound twice, for every table and every ephemeral range longer than
\* it (bind, port_in_use, the ephemeral search).
THEOREM PortsUnique == Spec => []PortUnique
<1>1. SockInv => PortUnique
  BY DEF SockInv, TableInv, Sound, PortUnique, OpenSockets
<1> QED
  BY SockInvariance, <1>1, PTL

\* Backlogs stay bounded, closed entries empty and descriptors well formed
\* (deliver, close, install_fd).
THEOREM SocketTypes == Spec => []TypeOK
<1>1. SockInv => TypeOK
  <2> SUFFICES ASSUME SockInv PROVE TypeOK
    OBVIOUS
  <2>1. \A i \in Idxs : /\ table[i].local_port \in 0 .. U16Max
                        /\ table[i].rx \in Seq(Data) /\ Len(table[i].rx) <= MAX_BACKLOG
                        /\ ~table[i].open => table[i] = NoSocket
    BY DEF SockInv, TableInv, Sound, Socket
  <2>2. \A p \in Procs : Range(files[p]) \subseteq Idxs \cup {File, Closed}
    BY RangeOfSeq DEF SockInv, FilesInv, Kinds
  <2>3. receiver # Idle => receiver.proc \in live /\ receiver.idx \in Idxs
    BY DEF SockInv, FilesInv
  <2> QED
    BY <2>1, <2>2, <2>3 DEF SockInv, TableInv, FilesInv, EphemeralPorts, TypeOK
<1> QED
  BY SockInvariance, <1>1, PTL
-----------------------------------------------------------------------------
(* Who refers to which socket. *)

\* A process that does not exist has no descriptors.
DeadInv == \A p \in Procs \ live : files[p] = <<>>

OwnerInv == SockInv /\ DeadInv /\ ExclusiveUntilShared

\* Descriptor k of p, which was closed or did not exist, is the one that changes.
InstalledAt(p, kind, k) ==
    /\ k \in DOMAIN files[p] => files[p][k] = Closed
    /\ DOMAIN files'[p] = DOMAIN files[p] \cup {k}
    /\ files'[p][k] = kind
    /\ \A l \in DOMAIN files[p] \ {k} : files'[p][l] = files[p][l]
    /\ \A q \in Procs \ {p} : files'[q] = files[q]

\* install_fd changes one descriptor.
LEMMA InstallAt ==
  ASSUME FilesInv, NEW p \in Procs, NEW kind \in Kinds, install_fd(p, kind)
  PROVE  \E k : InstalledAt(p, kind, k)
<1> DEFINE f == files[p]
           m == Min(ClosedFds(p))
           g == IF ClosedFds(p) # {} THEN [f EXCEPT ![m] = kind] ELSE Append(f, kind)
           Changed(h, k) == /\ k \in DOMAIN f => f[k] = Closed
                            /\ DOMAIN h = DOMAIN f \cup {k}
                            /\ h[k] = kind
                            /\ \A l \in DOMAIN f \ {k} : h[l] = f[l]
<1>1. f \in Seq(Kinds) /\ DOMAIN f = 1 .. Len(f) /\ Len(f) \in Nat
  BY LenProperties DEF FilesInv
<1>2. \E k : Changed(g, k)
  <2>1. CASE ClosedFds(p) # {}
    <3>1. ClosedFds(p) \subseteq 1 .. Len(f) /\ ClosedFds(p) \in SUBSET Nat
      BY <1>1 DEF ClosedFds
    <3>2. m \in 1 .. Len(f) /\ f[m] = Closed
      BY <2>1, <3>1, MinOfNats DEF ClosedFds
    <3>3. g = [f EXCEPT ![m] = kind]
      BY <2>1
    <3> HIDE DEF m, f, g
    <3>4. Changed(g, m)
      BY <1>1, <3>2, <3>3
    <3> QED
      BY <3>4
  <2>2. CASE ClosedFds(p) = {}
    <3>1. g = Append(f, kind)
      BY <2>2
    <3> HIDE DEF f, g
    <3>2. /\ DOMAIN g = 1 .. Len(f) + 1 /\ g[Len(f) + 1] = kind
          /\ \A l \in 1 .. Len(f) : g[l] = f[l]
      BY <1>1, <3>1, AppendProperties
    <3>3. Changed(g, Len(f) + 1)
      BY <1>1, <3>2
    <3> QED
      BY <3>3
  <2> QED
    BY <2>1, <2>2
<1>3. files' = [files EXCEPT ![p] = g]
  BY DEF install_fd
<1> HIDE DEF g
<1>4. files'[p] = g /\ \A q \in Procs \ {p} : files'[q] = files[q]
  BY <1>3 DEF FilesInv
<1>5. \E k : InstalledAt(p, kind, k)
  <2>1. PICK k : Changed(g, k)
    BY <1>2
  <2>2. InstalledAt(p, kind, k)
    BY <1>4, <2>1 DEF InstalledAt
  <2> QED
    BY <2>2
<1> QED
  BY <1>5

\* Binding, sending and receiving open and close nothing.
LEMMA OpenKept ==
  ASSUME SockInv,
         \/ UNCHANGED table
         \/ \E idx \in Idxs, port \in 0 .. U16Max : bind(idx, port)
         \/ PollDelivers \/ RecvReturns
  PROVE  \A i \in Idxs : table'[i].open = table[i].open
<1>1. table \in [Idxs -> Socket]
  BY DEF SockInv, TableInv, Sound
<1>2. CASE UNCHANGED table
  BY <1>2
<1>3. ASSUME NEW idx \in Idxs, NEW port, bind(idx, port)
      PROVE  \A i \in Idxs : table'[i].open = table[i].open
  BY <1>1, <1>3 DEF bind, Socket
<1>4. CASE PollDelivers
  BY <1>1, <1>4 DEF PollDelivers, deliver, Socket
<1>5. CASE RecvReturns
  BY <1>1, <1>5 DEF RecvReturns, Socket
<1> QED
  BY <1>2, <1>3, <1>4, <1>5

\* The steps of bind and sendto are binds or leave the table alone.
LEMMA CallsThatBind ==
  ASSUME SockInv, NEW p \in Procs, sys_bind(p) \/ sys_sendto(p)
  PROVE  UNCHANGED table \/ \E idx \in Idxs, port \in 0 .. U16Max : bind(idx, port)
<1>1. SocketIdxs(p) \subseteq Idxs
  BY DEF SocketIdxs
<1>2. Ports \subseteq 0 .. U16Max /\ 0 \in 0 .. U16Max
  BY SocketAssumption DEF SocketAssumption
<1> QED
  BY <1>1, <1>2 DEF sys_bind, sys_sendto

\* The index a new socket gets is a free one.
LEMMA FreshIdx ==
  ASSUME FreeIdxs # {}
  PROVE  Min(FreeIdxs) \in Idxs /\ ~table[Min(FreeIdxs)].open
<1>1. FreeIdxs \in SUBSET Nat
  BY SocketAssumption DEF SocketAssumption, FreeIdxs, Idxs
<1>2. Min(FreeIdxs) \in FreeIdxs
  BY <1>1, MinOfNats
<1> QED
  BY <1>2 DEF FreeIdxs, OpenSockets

\* Only processes that exist get descriptors.
LEMMA DeadStep == SockInv /\ DeadInv /\ [Next]_vars => DeadInv'
<1> SUFFICES ASSUME SockInv, DeadInv, [Next]_vars PROVE DeadInv'
  OBVIOUS
<1>1. files \in [Procs -> Seq(Kinds)] /\ live \subseteq Procs
  BY DEF SockInv, FilesInv
<1>2. CASE UNCHANGED <<files, live>>
  BY <1>2 DEF DeadInv
<1>3. ASSUME NEW p \in Procs, sys_openat(p) \/ sys_socket(p) \/ sys_close(p)
      PROVE  DeadInv'
  <2>1. p \in live /\ live' = live
    BY <1>3 DEF sys_openat, sys_socket, sys_close, Calls
  <2>2. \A q \in Procs \ {p} : files'[q] = files[q]
    BY <1>1, <1>3 DEF sys_openat, sys_socket, sys_close, install_fd, close_fd
  <2> QED
    BY <2>1, <2>2 DEF DeadInv
<1>4. ASSUME NEW p \in Procs, fork_current(p) PROVE DeadInv'
  BY <1>1, <1>4 DEF fork_current, DeadInv
<1>5. ASSUME NEW p \in Procs, exit_current(p) PROVE DeadInv'
  BY <1>1, <1>5 DEF exit_current, DeadInv
<1> QED
  BY <1>2, <1>3, <1>4, <1>5 DEF Next, ProcessCalls, vars, sys_bind, sys_sendto,
     sys_recvfrom, PollDelivers, RecvReturns, RecvTimesOut

\* Until sockets are shared, no step gives a descriptor another one's socket.
LEMMA ExclusiveStep == OwnerInv /\ [Next]_vars => ExclusiveUntilShared'
<1> SUFFICES ASSUME OwnerInv, [Next]_vars, ~shared' PROVE ExclusiveUntilShared'
  BY DEF ExclusiveUntilShared
<1>1. /\ SockInv /\ FilesInv /\ DeadInv /\ ExclusiveUntilShared
      /\ files \in [Procs -> Seq(Kinds)]
      /\ table \in [Idxs -> Socket]
  BY DEF OwnerInv, SockInv, FilesInv, TableInv, Sound
<1>2. CASE /\ UNCHANGED <<files, shared>>
           /\ \A i \in Idxs : table'[i].open = table[i].open
  BY <1>1, <1>2 DEF ExclusiveUntilShared
<1>3. ASSUME NEW p \in Procs, sys_openat(p) PROVE ExclusiveUntilShared'
  <2>1. install_fd(p, File) /\ File \in Kinds /\ File \notin Idxs
    BY <1>3, SocketAssumption DEF sys_openat, File, Kinds, Idxs, SocketAssumption
  <2>2. PICK m : InstalledAt(p, File, m)
    BY <1>1, <2>1, InstallAt
  <2>3. UNCHANGED <<table, shared>>
    BY <1>3 DEF sys_openat
  <2>4. ASSUME NEW q \in Procs, NEW k \in DOMAIN files'[q], files'[q][k] \in Idxs
        PROVE  k \in DOMAIN files[q] /\ files'[q][k] = files[q][k]
    BY <2>1, <2>2, <2>4 DEF InstalledAt
  <2> QED
    BY <1>1, <2>3, <2>4 DEF ExclusiveUntilShared
<1>4. ASSUME NEW p \in Procs, sys_socket(p) PROVE ExclusiveUntilShared'
  <2> DEFINE idx == Min(FreeIdxs)
  <2>1. /\ install_fd(p, idx) /\ idx \in Idxs /\ idx \in Kinds /\ ~table[idx].open
        /\ table' = [table EXCEPT ![idx] = Unbound] /\ UNCHANGED shared
    BY <1>4, FreshIdx DEF sys_socket, Kinds
  <2> HIDE DEF idx
  <2>2. PICK m : InstalledAt(p, idx, m)
    BY <1>1, <2>1, InstallAt
  <2>3. ASSUME NEW q \in Procs, NEW k \in DOMAIN files'[q], files'[q][k] \in Idxs
        PROVE  \/ /\ k \in DOMAIN files[q] /\ files'[q][k] = files[q][k]
                  /\ files[q][k] # idx
               \/ q = p /\ k = m /\ files'[q][k] = idx
    BY <1>1, <2>1, <2>2, <2>3 DEF ExclusiveUntilShared, InstalledAt
  <2>4. table'[idx].open /\ \A i \in Idxs \ {idx} : table'[i] = table[i]
    BY <1>1, <2>1 DEF Unbound, NoSocket
  <2> QED
    BY <1>1, <2>1, <2>3, <2>4 DEF ExclusiveUntilShared
<1>5. ASSUME NEW p \in Procs, sys_close(p) PROVE ExclusiveUntilShared'
  <2>1. PICK fd \in DOMAIN files[p] : close_fd(p, fd)
    BY <1>5 DEF sys_close
  <2>2. UNCHANGED shared /\ Closed \notin Idxs
    BY <1>5, SocketAssumption DEF sys_close, Closed, Idxs, SocketAssumption
  <2>3. ASSUME NEW q \in Procs, NEW k \in DOMAIN files'[q], files'[q][k] \in Idxs
        PROVE  /\ k \in DOMAIN files[q] /\ files'[q][k] = files[q][k]
               /\ q # p \/ k # fd
    BY <1>1, <2>1, <2>2, <2>3 DEF close_fd
  <2>4. \A i \in Idxs : i # files[p][fd] => table'[i] = table[i]
    BY <1>1, <2>1 DEF close_fd
  <2> QED
    BY <1>1, <2>1, <2>2, <2>3, <2>4 DEF ExclusiveUntilShared
<1>6. ASSUME NEW p \in Procs, fork_current(p) PROVE ExclusiveUntilShared'
  <2>1. PICK c \in Procs \ live : files' = [files EXCEPT ![c] = files[p]]
    BY <1>6 DEF fork_current
  <2>2. UNCHANGED table /\ ~shared /\ SocketIdxs(p) = {}
    BY <1>6 DEF fork_current
  <2>3. \A k \in DOMAIN files[p] : files[p][k] \notin Idxs
    BY <1>1, <2>2, RangeOfSeq DEF SocketIdxs, Range
  <2>4. ASSUME NEW q \in Procs, NEW k \in DOMAIN files'[q], files'[q][k] \in Idxs
        PROVE  k \in DOMAIN files[q] /\ files'[q][k] = files[q][k]
    BY <1>1, <2>1, <2>3, <2>4
  <2> QED
    BY <1>1, <2>2, <2>4 DEF ExclusiveUntilShared
<1>7. ASSUME NEW p \in Procs, exit_current(p) PROVE ExclusiveUntilShared'
  <2>1. files' = [files EXCEPT ![p] = <<>>] /\ UNCHANGED <<table, shared>>
    BY <1>7 DEF exit_current
  <2>2. ASSUME NEW q \in Procs, NEW k \in DOMAIN files'[q]
        PROVE  k \in DOMAIN files[q] /\ files'[q][k] = files[q][k]
    BY <1>1, <2>1
  <2> QED
    BY <1>1, <2>1, <2>2 DEF ExclusiveUntilShared
<1>8. ASSUME NEW p \in Procs, sys_bind(p) \/ sys_sendto(p) PROVE ExclusiveUntilShared'
  BY <1>1, <1>2, <1>8, CallsThatBind, OpenKept DEF sys_bind, sys_sendto
<1>9. CASE PollDelivers \/ RecvReturns
  BY <1>1, <1>2, <1>9, OpenKept DEF PollDelivers, RecvReturns
<1> QED
  BY <1>2, <1>3, <1>4, <1>5, <1>6, <1>7, <1>8, <1>9
  DEF Next, ProcessCalls, vars, sys_recvfrom, RecvTimesOut

\* The invariant with the owners of the sockets holds in every reachable state.
THEOREM OwnerInvariance == Spec => []OwnerInv
<1>1. Init => DeadInv /\ ExclusiveUntilShared
  <2> SUFFICES ASSUME Init PROVE DeadInv /\ ExclusiveUntilShared
    OBVIOUS
  <2>1. \A p \in Procs : files[p] = <<>> /\ DOMAIN files[p] = {}
    BY DEF Init
  <2> QED
    BY <2>1 DEF DeadInv, ExclusiveUntilShared
<1>2. SockInv /\ SockInv' /\ DeadInv /\ ExclusiveUntilShared /\ [Next]_vars
         => DeadInv' /\ ExclusiveUntilShared'
  BY DeadStep, ExclusiveStep DEF OwnerInv
<1> QED
  BY <1>1, <1>2, SockInvariance, PTL DEF Spec, OwnerInv

\* A descriptor's socket is its own until a process forks with one open: table
\* entries and descriptors are reused without mixing sockets up (sys_socket,
\* install_fd, close_fd).
THEOREM SocketsExclusive == Spec => []ExclusiveUntilShared
<1>1. OwnerInv => ExclusiveUntilShared
  BY DEF OwnerInv
<1> QED
  BY OwnerInvariance, <1>1, PTL

\* Only exit leaves an open socket without a descriptor (exit_current; install_fd,
\* close_fd and fork never do).
THEOREM LossOnlyAtExit == Spec => LostOnlyAtExit
<1>1. ASSUME OwnerInv, Next, ~ \E p \in Procs : exit_current(p),
             NEW i \in Lost'
      PROVE  i \in Lost
  <2>1. /\ SockInv /\ FilesInv /\ DeadInv
        /\ files \in [Procs -> Seq(Kinds)]
        /\ table \in [Idxs -> Socket]
    BY <1>1 DEF OwnerInv, SockInv, FilesInv, TableInv, Sound
  <2>2. /\ i \in Idxs /\ table'[i].open
        /\ \A p \in Procs : \A k \in DOMAIN files'[p] : files'[p][k] # i
    BY <1>1 DEF Lost, OpenSockets, SocketIdxs, Range
  <2> SUFFICES /\ table[i].open
               /\ \A p \in Procs : \A k \in DOMAIN files[p] : files[p][k] # i
    BY <2>2 DEF Lost, OpenSockets, SocketIdxs, Range
  <2>3. File \notin Idxs /\ Closed \notin Idxs /\ File \in Kinds
    BY SocketAssumption DEF SocketAssumption, File, Closed, Idxs, Kinds
  <2>4. CASE UNCHANGED files /\ \A j \in Idxs : table'[j].open = table[j].open
    BY <2>2, <2>4
  <2>5. ASSUME NEW p \in Procs, NEW kind \in Kinds, install_fd(p, kind)
        PROVE  \A q \in Procs : \A k \in DOMAIN files[q] : files[q][k] # i
    <3>1. PICK m : InstalledAt(p, kind, m)
      BY <2>1, <2>5, InstallAt
    <3> QED
      <4>1. \A q \in Procs : \A k \in DOMAIN files[q] :
                k \in DOMAIN files'[q] /\ (files'[q][k] = files[q][k] \/ files[q][k] = Closed)
        BY <3>1 DEF InstalledAt
      <4> QED
        BY <2>2, <2>3, <4>1
  <2>6. ASSUME NEW p \in Procs, sys_openat(p)
        PROVE  /\ table[i].open
               /\ \A q \in Procs : \A k \in DOMAIN files[q] : files[q][k] # i
    BY <2>2, <2>3, <2>5, <2>6 DEF sys_openat
  <2>7. ASSUME NEW p \in Procs, sys_socket(p)
        PROVE  /\ table[i].open
               /\ \A q \in Procs : \A k \in DOMAIN files[q] : files[q][k] # i
    <3> DEFINE idx == Min(FreeIdxs)
    <3>1. /\ install_fd(p, idx) /\ idx \in Idxs /\ idx \in Kinds
          /\ table' = [table EXCEPT ![idx] = Unbound]
      BY <2>7, FreshIdx DEF sys_socket, Kinds
    <3> HIDE DEF idx
    <3>2. i # idx
      <4>1. PICK m : InstalledAt(p, idx, m)
        BY <2>1, <3>1, InstallAt
      <4> QED
        BY <2>2, <4>1 DEF InstalledAt
    <3> QED
      BY <2>1, <2>2, <2>5, <3>1, <3>2
  <2>8. ASSUME NEW p \in Procs, sys_close(p)
        PROVE  /\ table[i].open
               /\ \A q \in Procs : \A k \in DOMAIN files[q] : files[q][k] # i
    <3>1. PICK fd \in DOMAIN files[p] : close_fd(p, fd)
      BY <2>8 DEF sys_close
    <3>2. files[p][fd] # i /\ table'[i] = table[i]
      BY <2>1, <2>2, <3>1 DEF close_fd, NoSocket
    <3>3. ASSUME NEW q \in Procs, NEW k \in DOMAIN files[q], q # p \/ k # fd
          PROVE  k \in DOMAIN files'[q] /\ files'[q][k] = files[q][k]
      BY <2>1, <3>1, <3>3 DEF close_fd
    <3> QED
      BY <2>2, <3>2, <3>3
  <2>9. ASSUME NEW p \in Procs, fork_current(p)
        PROVE  /\ table[i].open
               /\ \A q \in Procs : \A k \in DOMAIN files[q] : files[q][k] # i
    <3>1. PICK c \in Procs \ live : files' = [files EXCEPT ![c] = files[p]]
      BY <2>9 DEF fork_current
    <3>2. UNCHANGED table /\ DOMAIN files[c] = {}
      BY <2>1, <2>9 DEF fork_current, DeadInv
    <3> QED
      BY <2>1, <2>2, <3>1, <3>2
  <2>10. ASSUME NEW p \in Procs, sys_bind(p) \/ sys_sendto(p)
         PROVE  UNCHANGED files /\ \A j \in Idxs : table'[j].open = table[j].open
    BY <2>1, <2>10, CallsThatBind, OpenKept DEF sys_bind, sys_sendto
  <2>11. CASE PollDelivers \/ RecvReturns
    BY <2>1, <2>4, <2>11, OpenKept DEF PollDelivers, RecvReturns
  <2> QED
    BY <1>1, <2>4, <2>6, <2>7, <2>8, <2>9, <2>10, <2>11
    DEF Next, ProcessCalls, sys_recvfrom, RecvTimesOut
<1>2. OwnerInv /\ [Next]_vars
         => [Lost' \subseteq Lost \/ \E p \in Procs : exit_current(p)]_vars
  BY <1>1
<1> QED
  BY <1>2, OwnerInvariance, PTL DEF Spec, LostOnlyAtExit
-----------------------------------------------------------------------------
(* The interface. *)

Entries == [ip : Ips, mac : Macs]

\* CacheIsLatest by places in the cache.
Latest(c, h) ==
    /\ c \in Seq(Entries) /\ Len(c) <= ARP_CACHE_LEN
    /\ h \in [Ips -> Macs \cup {NoMac}]
    /\ \A i, j \in 1 .. Len(c) : c[i].ip = c[j].ip => i = j
    /\ \A i \in 1 .. Len(c) : c[i].mac = h[c[i].ip]
    /\ \A host \in Ips : h[host] # NoMac /\ Len(c) < ARP_CACHE_LEN
                            => \E i \in 1 .. Len(c) : c[i].ip = host

CacheInv == Latest(arp_cache, heard)

\* Where datagrams go is where the gateway said, and stays so.
GatewayInv ==
    /\ gateway_mac # NoMac => gateway_mac \in announced
    /\ SentToGateway

\* The ring holds frames.
RingInv == ring \in Seq(WireFrames)

\* A count that has grown since the ping was sent grew by a reply that arrived
\* after it or lay in the ring; so would one that grows by a reply still there.
PingInv ==
    /\ ping_replies \in Nat /\ before \in Nat /\ phase \in {"arp", "ping", "up"}
    /\ phase = "ping" /\ ping_replies > before => since \/ stale
    /\ phase = "ping" /\ Echoes # {} => since \/ stale
    /\ phase = "arp" => verdict # "ping reply"
    /\ PingMeansReply

IfaceInv == RingInv /\ CacheInv /\ GatewayInv /\ PingInv

\* The interface comes up knowing nobody.
LEMMA IfaceInit == NetInit => IfaceInv
<1> SUFFICES ASSUME NetInit PROVE IfaceInv
  OBVIOUS
<1>1. CacheInv
  <2>1. arp_cache = <<>> /\ arp_cache \in Seq(Entries) /\ Len(arp_cache) = 0
    BY DEF NetInit
  <2>2. heard \in [Ips -> Macs \cup {NoMac}] /\ \A ip \in Ips : heard[ip] = NoMac
    BY DEF NetInit
  <2> QED
    BY <2>1, <2>2, InterfaceAssumption DEF InterfaceAssumption, CacheInv, Latest
<1> QED
  BY <1>1 DEF NetInit, IfaceInv, RingInv, GatewayInv, SentToGateway, PingInv, PingMeansReply

\* The ring through every step.
LEMMA RingStep == RingInv /\ [NetNext]_netVars => RingInv'
<1> SUFFICES ASSUME RingInv, [NetNext]_netVars PROVE RingInv'
  OBVIOUS
<1>1. CASE Arrive
  BY <1>1 DEF Arrive, RingInv
<1>2. CASE PollFrame
  BY <1>2 DEF PollFrame, RingInv
<1>3. CASE UNCHANGED ring
  BY <1>3 DEF RingInv
<1> QED
  BY <1>1, <1>2, <1>3 DEF NetNext, PollDrained, PollSucceeds, PollInVain, Up, rxRing, netVars

\* The frame a poll takes is one of the ring.
LEMMA HeadFrame ==
  ASSUME RingInv, PollFrame
  PROVE  Head(ring) \in WireFrames
BY DEF RingInv, PollFrame

\* Frames of each kind.
LEMMA FrameKinds ==
  ASSUME NEW f \in WireFrames
  PROVE  /\ f.kind = "arp" => f.ip \in Ips /\ f.mac \in Macs
         /\ f.kind = "udp" => f.port \in WirePorts /\ f.data \in Data
BY DEF WireFrames, ArpFrames, EchoReplies, UdpFrames

\* Gateway and ping through every step.
LEMMA GatewayStep == GatewayInv /\ [NetNext]_netVars => GatewayInv'
<1> SUFFICES ASSUME GatewayInv, [NetNext]_netVars PROVE GatewayInv'
  OBVIOUS
<1>1. CASE PollFrame
  BY <1>1 DEF PollFrame, handle_frame, HandleArp, HandleEchoReply, HandleUdp, iface,
              ResolvedBy, GatewayInv, SentToGateway
<1>2. CASE Arrive \/ PollDrained \/ PollSucceeds \/ PollInVain \/ UNCHANGED netVars
  BY <1>2 DEF Arrive, PollDrained, PollSucceeds, PollInVain, netVars, iface, GatewayInv,
              SentToGateway
<1>3. CASE Up
  BY <1>3 DEF Up, Receive, SendTo, OtherCall, iface, GatewayInv, SentToGateway
<1> QED
  BY <1>1, <1>2, <1>3 DEF NetNext

\* A reply counted after the ping is one that came after it, or lay in the ring.
LEMMA PingStep == RingInv /\ PingInv /\ [NetNext]_netVars => PingInv'
<1> SUFFICES ASSUME RingInv, PingInv, [NetNext]_netVars PROVE PingInv'
  OBVIOUS
<1>0. ping_replies \in Nat
  BY Zenon DEF PingInv
<1>1. CASE PollFrame
  <2>1. UNCHANGED <<phase, before, verdict, since, stale>>
    BY <1>1 DEF PollFrame, test
  <2>2. Echoes' # {} => Echoes # {}
    <3>1. ring \in Seq(WireFrames) /\ ring # <<>> /\ ring' = Tail(ring)
      BY <1>1 DEF PollFrame, RingInv
    <3>2. \A i \in DOMAIN ring' : i + 1 \in DOMAIN ring /\ ring'[i] = ring[i + 1]
      BY <3>1
    <3> QED
      BY <3>2 DEF Echoes
  <2>3. CASE HandleEchoReply(Head(ring))
    <3>1. Echoes # {}
      <4>1. 1 \in DOMAIN ring /\ Head(ring) = ring[1]
        BY <1>1 DEF PollFrame, RingInv
      <4> QED
        BY <2>3, <4>1 DEF HandleEchoReply, Echoes
    <3>2. ping_replies' \in Nat
      BY <1>0, <2>3 DEF HandleEchoReply
    <3> QED
      BY <2>1, <3>1, <3>2, Zenon DEF PingInv, PingMeansReply
  <2>4. CASE UNCHANGED ping_replies
    BY <2>1, <2>2, <2>4, Zenon DEF PingInv, PingMeansReply
  <2> QED
    BY <1>1, <2>3, <2>4 DEF PollFrame, handle_frame, HandleArp, HandleUdp, iface
<1>2. CASE Arrive
  <2>1. UNCHANGED <<phase, before, verdict, stale, ping_replies>>
    BY <1>2 DEF Arrive, test, iface
  <2>2. PICK f \in WireFrames : /\ ring' = Append(ring, f)
                                /\ since' = (since \/ (f.kind = "echo" /\ phase = "ping"))
    BY <1>2 DEF Arrive
  <2>3. Echoes' # {} => Echoes # {} \/ f.kind = "echo"
    <3>1. \A i \in DOMAIN ring' : \/ i \in DOMAIN ring /\ ring'[i] = ring[i]
                                  \/ ring'[i] = f
      BY <2>2 DEF RingInv
    <3> QED
      BY <3>1 DEF Echoes
  <2> QED
    BY <2>1, <2>2, <2>3, Zenon DEF PingInv, PingMeansReply
<1>3. CASE PollSucceeds
  <2>1. since' = since /\ ring' = ring /\ ping_replies' \in Nat /\ before' \in Nat
    BY <1>3 DEF PollSucceeds, rxRing, iface, PingInv
  <2>2. CASE phase = "arp"
    <3>1. phase' = "ping" /\ verdict' = verdict /\ ~(ping_replies' > before')
      BY <1>0, <1>3, <2>2 DEF PollSucceeds, iface
    <3>2. stale' = (Echoes # {}) /\ Echoes' = Echoes
      BY <1>3, <2>1, <2>2, Zenon DEF PollSucceeds, Echoes
    <3>3. verdict # "ping reply"
      BY <2>2 DEF PingInv
    <3> QED
      BY <2>1, <3>1, <3>2, <3>3, Zenon DEF PingInv, PingMeansReply
  <2>3. CASE phase = "ping"
    <3>1. phase' = "up" /\ phase' # "ping" /\ ping_replies > before /\ stale' = stale
      BY <1>3, <2>3 DEF PollSucceeds, Done
    <3>2. since \/ stale
      BY <2>3, <3>1, Zenon DEF PingInv
    <3> QED
      BY <2>1, <3>1, <3>2, Zenon DEF PingInv, PingMeansReply
  <2> QED
    BY <1>3, <2>2, <2>3 DEF PollSucceeds, PingInv
<1>4. CASE PollInVain
  <2>1. UNCHANGED <<before, stale, since, ring, ping_replies>>
    BY <1>4 DEF PollInVain, rxRing, iface
  <2>2. \/ UNCHANGED <<phase, verdict>>
        \/ phase' = "up" /\ phase' # "ping" /\ verdict' # "ping reply"
    BY <1>4 DEF PollInVain
  <2>3. Echoes' = Echoes
    BY <2>1 DEF Echoes
  <2> QED
    BY <2>1, <2>2, <2>3, Zenon DEF PingInv, PingMeansReply
<1>5. CASE PollDrained \/ Up \/ UNCHANGED netVars
  <2>1. UNCHANGED <<ring, since, ping_replies, phase, before, verdict, stale>>
    BY <1>5 DEF PollDrained, Up, netVars, rxRing, iface, test
  <2>2. Echoes' = Echoes
    BY <2>1 DEF Echoes
  <2> QED
    BY <2>1, <2>2, Zenon DEF PingInv, PingMeansReply
<1> QED
  BY <1>1, <1>2, <1>3, <1>4, <1>5 DEF NetNext

-----------------------------------------------------------------------------
(* The cache. *)

\* The entries of a cache name hosts.
LEMMA EntryFacts ==
  ASSUME NEW c \in Seq(Entries), NEW i \in 1 .. Len(c)
  PROVE  c[i] \in Entries /\ c[i].ip \in Ips
<1>1. c[i] \in Entries
  BY ElementOfSeq
<1> QED
  BY <1>1 DEF Entries

\* The entry of a host is updated in place.
LEMMA UpdateEntry ==
  ASSUME NEW c, NEW h, Latest(c, h), NEW ip \in Ips, NEW mac \in Macs,
         NEW k \in 1 .. Len(c), c[k].ip = ip
  PROVE  Latest([c EXCEPT ![k].mac = mac], [h EXCEPT ![ip] = mac])
<1> DEFINE e == [c[k] EXCEPT !.mac = mac]
           c2 == [c EXCEPT ![k] = e]
           h2 == [h EXCEPT ![ip] = mac]
<1>1. /\ c \in Seq(Entries) /\ c[k] \in Entries /\ h \in [Ips -> Macs \cup {NoMac}]
      /\ Len(c) \in Nat
  BY ElementOfSeq, LenProperties DEF Latest
<1>2. e \in Entries /\ e.ip = ip /\ e.mac = mac
  BY <1>1 DEF Entries
<1> HIDE DEF e
<1>3. /\ c2 \in Seq(Entries) /\ Len(c2) = Len(c)
      /\ \A i \in 1 .. Len(c) : c2[i] = IF i = k THEN e ELSE c[i]
  BY <1>1, <1>2, ExceptSeq
<1>4. h2 \in [Ips -> Macs \cup {NoMac}] /\ \A x \in Ips : h2[x] = IF x = ip THEN mac ELSE h[x]
  BY <1>1
<1> HIDE DEF c2, h2
<1>5. \A i \in 1 .. Len(c) : c2[i].ip = c[i].ip /\ c2[i].mac = h2[c[i].ip]
  <2> TAKE i \in 1 .. Len(c)
  <2>1. c[i] \in Entries /\ c[i].ip \in Ips /\ c[i].mac = h[c[i].ip] /\ (c[i].ip = ip => i = k)
    BY <1>1, EntryFacts DEF Latest
  <2> QED
    BY <1>2, <1>3, <1>4, <2>1
<1>6. ASSUME NEW host \in Ips, h2[host] # NoMac, Len(c) < ARP_CACHE_LEN
      PROVE  \E i \in 1 .. Len(c) : c2[i].ip = host
  <2>1. CASE host = ip
    BY <1>5, <2>1
  <2>2. CASE host # ip
    BY <1>4, <1>5, <1>6, <2>2 DEF Latest
  <2> QED
    BY <2>1, <2>2
<1>7. Latest(c2, h2)
  BY <1>3, <1>4, <1>5, <1>6 DEF Latest
<1> QED
  BY <1>7 DEF c2, h2, e

\* A new host is added to a cache that has room.
LEMMA AddEntry ==
  ASSUME NEW c, NEW h, Latest(c, h), NEW ip \in Ips, NEW mac \in Macs,
         \A i \in 1 .. Len(c) : c[i].ip # ip, Len(c) < ARP_CACHE_LEN
  PROVE  Latest(Append(c, [ip |-> ip, mac |-> mac]), [h EXCEPT ![ip] = mac])
<1> DEFINE e == [ip |-> ip, mac |-> mac]
           c2 == Append(c, e)
           h2 == [h EXCEPT ![ip] = mac]
           n == Len(c)
<1>1. /\ c \in Seq(Entries) /\ h \in [Ips -> Macs \cup {NoMac}] /\ n \in Nat
  BY LenProperties DEF Latest
<1>2. e \in Entries /\ e.ip = ip /\ e.mac = mac
  BY DEF Entries
<1> HIDE DEF e
<1>3. /\ c2 \in Seq(Entries) /\ Len(c2) = n + 1
      /\ \A i \in 1 .. n : c2[i] = c[i]
      /\ c2[n + 1] = e
  BY <1>1, <1>2, AppendProperties
<1>4. h2 \in [Ips -> Macs \cup {NoMac}] /\ \A x \in Ips : h2[x] = IF x = ip THEN mac ELSE h[x]
  BY <1>1
<1>5. \A i \in 1 .. n : c[i].ip \in Ips /\ c[i].mac = h[c[i].ip]
  BY <1>1, EntryFacts DEF Latest
<1> HIDE DEF c2, h2
<1>6. \A i \in 1 .. n + 1 : c2[i].mac = h2[c2[i].ip]
  BY <1>1, <1>2, <1>3, <1>4, <1>5
<1>7. \A i, j \in 1 .. n + 1 : c2[i].ip = c2[j].ip => i = j
  BY <1>1, <1>2, <1>3 DEF Latest
<1>8. ASSUME NEW host \in Ips, h2[host] # NoMac
      PROVE  \E i \in 1 .. n + 1 : c2[i].ip = host
  <2>1. CASE host = ip
    BY <1>1, <1>2, <1>3, <2>1
  <2>2. CASE host # ip
    <3>1. PICK i \in 1 .. n : c[i].ip = host
      BY <1>4, <1>8, <2>2 DEF Latest
    <3> QED
      BY <1>1, <1>3, <3>1
  <2> QED
    BY <2>1, <2>2
<1>9. n + 1 <= ARP_CACHE_LEN
  BY <1>1, InterfaceAssumption DEF InterfaceAssumption
<1>10. Latest(c2, h2)
  BY <1>3, <1>4, <1>6, <1>7, <1>8, <1>9 DEF Latest
<1> QED
  BY <1>10 DEF c2, h2, e

\* A full cache takes no new host.
LEMMA FullCache ==
  ASSUME NEW c, NEW h, Latest(c, h), NEW ip \in Ips, NEW mac \in Macs,
         \A i \in 1 .. Len(c) : c[i].ip # ip, ~(Len(c) < ARP_CACHE_LEN)
  PROVE  Latest(c, [h EXCEPT ![ip] = mac])
<1>1. \A i \in 1 .. Len(c) : c[i].ip \in Ips
  BY EntryFacts DEF Latest
<1> QED
  BY <1>1 DEF Latest

\* arp_insert keeps the cache what the hosts announced last.
LEMMA CacheStep == RingInv /\ CacheInv /\ [NetNext]_netVars => CacheInv'
<1> SUFFICES ASSUME RingInv, CacheInv, [NetNext]_netVars PROVE CacheInv'
  OBVIOUS
<1>1. CASE PollFrame /\ HandleArp(Head(ring))
  <2>1. PICK ip \in Ips, mac \in Macs : /\ arp_cache' = arp_insert(ip, mac)
                                        /\ heard' = [heard EXCEPT ![ip] = mac]
    BY <1>1, HeadFrame, FrameKinds DEF HandleArp
  <2> DEFINE known == {i \in DOMAIN arp_cache : arp_cache[i].ip = ip}
  <2>2. DOMAIN arp_cache = 1 .. Len(arp_cache) /\ Len(arp_cache) \in Nat
    BY LenProperties DEF CacheInv, Latest
  <2>3. CASE known # {}
    <3>1. PICK k \in 1 .. Len(arp_cache) : arp_cache[k].ip = ip
      BY <2>2, <2>3
    <3>2. known = {k} /\ k \in Nat
      BY <2>2, <3>1 DEF CacheInv, Latest
    <3> HIDE DEF known
    <3>3. Min(known) = k
      BY <3>2 DEF Min
    <3>4. arp_cache' = [arp_cache EXCEPT ![k].mac = mac]
      BY <2>1, <2>3, <3>3 DEF arp_insert, known
    <3>5. Latest([arp_cache EXCEPT ![k].mac = mac], [heard EXCEPT ![ip] = mac])
      BY <3>1, UpdateEntry, Zenon DEF CacheInv
    <3> QED
      BY <2>1, <3>4, <3>5, Zenon DEF CacheInv
  <2>4. CASE known = {}
    <3>1. \A i \in 1 .. Len(arp_cache) : arp_cache[i].ip # ip
      BY <2>2, <2>4
    <3>2. arp_cache' = IF Len(arp_cache) < ARP_CACHE_LEN
                       THEN Append(arp_cache, [ip |-> ip, mac |-> mac]) ELSE arp_cache
      BY <2>1, <2>4 DEF arp_insert
    <3>3. CASE Len(arp_cache) < ARP_CACHE_LEN
      <4>1. Latest(Append(arp_cache, [ip |-> ip, mac |-> mac]), [heard EXCEPT ![ip] = mac])
        BY <3>1, <3>3, AddEntry, Zenon DEF CacheInv
      <4> QED
        BY <2>1, <3>2, <3>3, <4>1, Zenon DEF CacheInv
    <3>4. CASE ~(Len(arp_cache) < ARP_CACHE_LEN)
      <4>1. Latest(arp_cache, [heard EXCEPT ![ip] = mac])
        BY <3>1, <3>4, FullCache, Zenon DEF CacheInv
      <4> QED
        BY <2>1, <3>2, <3>4, <4>1, Zenon DEF CacheInv
    <3> QED
      BY <3>3, <3>4
  <2> QED
    BY <2>3, <2>4
<1>2. CASE UNCHANGED <<arp_cache, heard>>
  BY <1>2 DEF CacheInv
<1> QED
  BY <1>1, <1>2 DEF NetNext, Arrive, PollFrame, handle_frame, HandleEchoReply, HandleUdp,
                    PollDrained, PollSucceeds, PollInVain, Up, iface, netVars

\* The invariant holds in every reachable state.
THEOREM IfaceInvariance == NetSpec => []IfaceInv
<1>1. IfaceInv /\ [NetNext]_netVars => IfaceInv'
  BY RingStep, CacheStep, GatewayStep, PingStep DEF IfaceInv
<1> QED
  BY IfaceInit, <1>1, PTL DEF NetSpec

\* The cache holds what the hosts announced last, for every number of hosts and
\* every cache length (arp_insert, handle_frame).
THEOREM CacheCorrect == NetSpec => []CacheIsLatest
<1>1. IfaceInv => CacheIsLatest
  <2> SUFFICES ASSUME IfaceInv PROVE CacheIsLatest
    OBVIOUS
  <2>1. DOMAIN arp_cache = 1 .. Len(arp_cache)
    BY LenProperties DEF IfaceInv, CacheInv, Latest
  <2> QED
    BY <2>1 DEF IfaceInv, CacheInv, Latest, CacheIsLatest, Range
<1> QED
  BY IfaceInvariance, <1>1, PTL

\* A datagram leaves only for an address the gateway gave (send_udp).
THEOREM GatewayOnly == NetSpec => []SentToGateway
<1>1. IfaceInv => SentToGateway
  BY DEF IfaceInv, GatewayInv
<1> QED
  BY IfaceInvariance, <1>1, PTL

\* "ping reply" is printed for a reply that arrived after the ping, or was not yet
\* handled when the ping was sent (self_test).
THEOREM PingAnswered == NetSpec => []PingMeansReply
<1>1. IfaceInv => PingMeansReply
  BY DEF IfaceInv, PingInv
<1> QED
  BY IfaceInvariance, <1>1, PTL
-----------------------------------------------------------------------------
(* The composition. *)

\* No socket is open while self_test runs.
BootInv ==
    /\ phase \in {"arp", "ping", "up"}
    /\ phase # "up" => \A i \in Idxs : ~table[i].open

\* A datagram that arrives during self_test finds no socket, so every step of
\* the composed system is a step of the socket table or none.
LEMMA StackStep ==
  ASSUME RingInv, BootInv, [NetNext]_netVars
  PROVE  [Next]_vars /\ BootInv'
<1>1. CASE UNCHANGED vars /\ phase' \in {phase, "ping", "up"} /\ (phase = "up" => phase' = "up")
  BY <1>1 DEF BootInv, vars
<1>2. CASE PollFrame
  <2> DEFINE f == Head(ring)
  <2>1. UNCHANGED phase /\ handle_frame(f)
    BY <1>2 DEF PollFrame, test
  <2>2. CASE HandleArp(f) \/ HandleEchoReply(f)
    BY <1>1, <2>1, <2>2 DEF HandleArp, HandleEchoReply
  <2>3. CASE HandleUdp(f)
    <3>1. PICK port \in WirePorts, d \in Data : deliver(port, d)
      BY <1>2, <2>3, HeadFrame, FrameKinds DEF HandleUdp
    <3>2. UNCHANGED <<next_ephemeral, files, live, receiver, shared, phase>>
      BY <2>1, <2>3 DEF HandleUdp
    <3>3. CASE phase # "up"
      <4>1. Owners(port) = {}
        BY <3>3 DEF BootInv, Owners, OpenSockets
      <4>2. UNCHANGED vars
        BY <3>1, <3>2, <4>1 DEF deliver, vars
      <4> QED
        BY <1>1, <3>2, <4>2
    <3>4. CASE phase = "up"
      <4>1. PollDelivers
        BY <1>2, <3>1, <3>2, <3>4 DEF PollFrame, PollDelivers
      <4> QED
        BY <3>2, <3>4, <4>1 DEF Next, BootInv
    <3> QED
      BY <3>3, <3>4
  <2> QED
    BY <2>1, <2>2, <2>3 DEF handle_frame
<1>3. CASE Arrive \/ PollDrained \/ PollSucceeds \/ PollInVain
  BY <1>1, <1>3 DEF Arrive, PollDrained, PollSucceeds, PollInVain, test
<1>4. CASE Up
  <2>1. Next \/ UNCHANGED vars
    BY <1>4 DEF Up, Receive, RecvPollsAgain, RecvFrom, SendTo, OtherCall, Next, ProcessCalls
  <2> QED
    BY <1>1, <1>4, <2>1 DEF Up, BootInv, test
<1>5. CASE UNCHANGED netVars
  BY <1>1, <1>5 DEF netVars, test
<1> QED
  BY <1>2, <1>3, <1>4, <1>5 DEF NetNext

\* The composed system implements the socket table's specification: frames of
\* other kinds, the self-test and its polls take no step the table does not
\* allow (handle_frame, self_test), so all theorems about the table hold of it.
THEOREM InterfaceRunsSockets == NetSpec => Spec
<1>1. NetInit => Init /\ BootInv
  BY DEF NetInit, Init, BootInv, NoSocket
<1>2. IfaceInv /\ BootInv /\ [NetNext]_netVars => [Next]_vars /\ BootInv'
  BY StackStep DEF IfaceInv
<1> QED
  BY <1>1, <1>2, IfaceInvariance, PTL DEF NetSpec, Spec

\* With the interface running, no port is bound twice and no two descriptors
\* share a socket before a fork does.
THEOREM SocketsUnderTraffic == NetSpec => [](PortUnique /\ ExclusiveUntilShared)
BY InterfaceRunsSockets, PortsUnique, SocketsExclusive, PTL
=============================================================================
