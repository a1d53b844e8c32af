---------------------------- MODULE NetInterface ----------------------------
(***************************************************************************)
(* The network interface (net/mod.rs) composed with the sockets above it:  *)
(* the ARP cache, the gateway's address, the boot-time self_test with its  *)
(* one ARP request and one ping, and handle_frame, which every poll calls, *)
(* the ones of self_test and the ones of recvfrom.                         *)
(*                                                                         *)
(* Other hosts are free: a frame of any kind may reach the receive ring at *)
(* any time, late, twice, unasked for, or never; a full ring drops it.     *)
(* Frames that handle_frame ignores or only answers are left out.          *)
(***************************************************************************)
EXTENDS Sockets

CONSTANTS
    Gateway,         \* GATEWAY_IP
    OtherIps,        \* other hosts
    Macs,
    ARP_CACHE_LEN,
    POLLS,           \* the 2000 polls of poll_until
    QUEUE_SIZE,      \* buffers of the receive ring
    MaxReplies       \* bound: echo replies that arrive

ASSUME InterfaceAssumption ==
    /\ {ARP_CACHE_LEN, POLLS, QUEUE_SIZE, MaxReplies} \subseteq Nat \ {0}
    /\ Gateway \notin OtherIps

VARIABLES
    ring,            \* frames the device has received and no poll has taken
    polling,         \* the hart is in poll
    phase,           \* of self_test: "arp", "ping", "up" when it has returned
    polls,           \* polls left in poll_until
    arp_cache,       \* arp_cache[..arp_len]
    gateway_mac,
    ping_replies,
    before,          \* ping_replies when the ping was sent
    verdict,         \* what self_test printed
    heard,           \* history: the address last announced for each host
    announced,       \* history: addresses in ARP replies from the gateway
    since,           \* history: an echo reply has arrived since the ping
    stale,           \* history: one was in the ring when the ping was sent
    sent_to          \* history: where the last datagram went

iface == <<arp_cache, gateway_mac, ping_replies, heard, announced>>
rxRing == <<ring, since>>
test == <<phase, polls, before, verdict, stale>>
netVars == <<iface, rxRing, polling, test, sent_to, vars>>

NoMac == "None"
Ips == OtherIps \cup {Gateway}

ArpFrames == [kind : {"arp"}, ip : Ips, mac : Macs, reply : BOOLEAN]
EchoReplies == [kind : {"echo"}]
UdpFrames == [kind : {"udp"}, port : WirePorts, data : Data]
WireFrames == ArpFrames \cup EchoReplies \cup UdpFrames

NetInit ==
    /\ Init
    /\ ring = <<>> /\ polling = TRUE
    /\ phase = "arp" /\ polls = POLLS /\ before = 0 /\ verdict = "none"
    /\ arp_cache = <<>>
    /\ gateway_mac = NoMac
    /\ ping_replies = 0
    /\ heard = [ip \in Ips |-> NoMac]
    /\ announced = {} /\ since = FALSE /\ stale = FALSE /\ sent_to = NoMac
-----------------------------------------------------------------------------
(* Received frames. *)

Echoes == {i \in DOMAIN ring : ring[i].kind = "echo"}

\* The device fills a buffer of the ring.
Arrive ==
    /\ Len(ring) < QUEUE_SIZE
    /\ \E f \in WireFrames :
        /\ f.kind = "echo" => ping_replies + Cardinality(Echoes) < MaxReplies
        /\ ring' = Append(ring, f)
        /\ since' = (since \/ (f.kind = "echo" /\ phase = "ping"))
    /\ UNCHANGED <<iface, polling, test, sent_to, vars>>

\* Mutant: a host already in the cache is added again.
InsertAnyway(ip, mac) ==
    IF Len(arp_cache) < ARP_CACHE_LEN
    THEN Append(arp_cache, [ip |-> ip, mac |-> mac]) ELSE arp_cache

\* Update the host's entry or add one; a full cache takes no new host.
arp_insert(ip, mac) ==
    LET known == {i \in DOMAIN arp_cache : arp_cache[i].ip = ip}
    IN  IF known # {} THEN [arp_cache EXCEPT ![Min(known)].mac = mac]
        ELSE IF Len(arp_cache) < ARP_CACHE_LEN
        THEN Append(arp_cache, [ip |-> ip, mac |-> mac]) ELSE arp_cache

\* Mutant: any ARP frame of the gateway gives its address.
AnyArpResolves(ip, mac, reply) == IF ip = Gateway THEN mac ELSE gateway_mac

\* The gateway's address is taken from ARP replies.
ResolvedBy(ip, mac, reply) == IF reply /\ ip = Gateway THEN mac ELSE gateway_mac

\* An ARP request for us is answered as well, whatever becomes of the answer.
HandleArp(f) ==
    /\ f.kind = "arp"
    /\ arp_cache' = arp_insert(f.ip, f.mac)
    /\ gateway_mac' = ResolvedBy(f.ip, f.mac, f.reply)
    /\ heard' = [heard EXCEPT ![f.ip] = f.mac]
    /\ announced' = announced \cup (IF f.reply /\ f.ip = Gateway THEN {f.mac} ELSE {})
    /\ UNCHANGED <<ping_replies, vars>>

\* Echo replies count when they come from the gateway, to whatever ping.
HandleEchoReply(f) ==
    /\ f.kind = "echo"
    /\ ping_replies' = ping_replies + 1
    /\ UNCHANGED <<arp_cache, gateway_mac, heard, announced, vars>>

HandleUdp(f) ==
    /\ f.kind = "udp"
    /\ deliver(f.port, f.data)
    /\ UNCHANGED <<next_ephemeral, files, live, receiver, shared>>
    /\ UNCHANGED iface

handle_frame(f) == HandleArp(f) \/ HandleEchoReply(f) \/ HandleUdp(f)

\* poll, in self_test and in recvfrom, nowhere else.  Its frames are copied
\* first and handled afterwards; nothing looks at the interface in between.
PollFrame ==
    /\ polling /\ ring # <<>>
    /\ phase # "up" \/ receiver # Idle
    /\ handle_frame(Head(ring))
    /\ ring' = Tail(ring)
    /\ UNCHANGED <<since, polling, test, sent_to>>

\* poll_rx posts the buffers again as it goes, so that poll returns only when it
\* has caught up with the device.
PollDrained ==
    /\ polling /\ ring = <<>>
    /\ polling' = FALSE
    /\ UNCHANGED <<iface, rxRing, test, sent_to, vars>>
-----------------------------------------------------------------------------
(* self_test. *)

\* Mutant: a reply counted before the ping ends the wait.
AnyReplyDone == IF phase = "arp" THEN gateway_mac # NoMac ELSE ping_replies > 0

\* What poll_until waits for.
Done == IF phase = "arp" THEN gateway_mac # NoMac ELSE ping_replies > before

\* A poll has returned and its wait is over: the gateway is pinged, or the test
\* is.
PollSucceeds ==
    /\ phase # "up" /\ ~polling /\ Done
    /\ IF phase = "arp"
       THEN /\ phase' = "ping" /\ polls' = POLLS /\ before' = ping_replies
            /\ stale' = (Echoes # {})
            /\ polling' = TRUE
            /\ UNCHANGED verdict
       ELSE /\ phase' = "up" /\ verdict' = "ping reply" /\ polls' = 0
            /\ UNCHANGED <<before, stale, polling>>
    /\ UNCHANGED <<iface, rxRing, sent_to, vars>>

\* Mutant: the polls are not counted.
PollForever ==
    /\ phase # "up" /\ ~polling /\ ~Done
    /\ polling' = TRUE
    /\ UNCHANGED <<iface, rxRing, test, sent_to, vars>>

\* A poll brought nothing; the last one gives up.
PollInVain ==
    /\ phase # "up" /\ ~polling /\ ~Done
    /\ polls' = polls - 1
    /\ polling' = (polls > 1)
    /\ IF polls > 1 THEN UNCHANGED <<phase, verdict>>
       ELSE phase' = "up" /\ verdict' = "timed out"
    /\ UNCHANGED <<before, stale, iface, rxRing, sent_to, vars>>

SelfTest == phase # "up" /\ (PollFrame \/ PollDrained \/ PollSucceeds \/ PollInVain)
-----------------------------------------------------------------------------
(* System calls on sockets, once the machine is up. *)

\* send_udp: ENETUNREACH without the gateway's address, with the port bound by
\* then; otherwise the datagram goes to that address.
SendTo(p) ==
    /\ sys_sendto(p)
    /\ sent_to' = IF gateway_mac = NoMac THEN sent_to ELSE gateway_mac

OtherCall(p) ==
    /\ sys_socket(p) \/ sys_close(p) \/ sys_bind(p)
    /\ UNCHANGED sent_to

\* recvfrom polls, looks at its queue, and polls again while its budget lasts.
RecvFrom(p) == sys_recvfrom(p) /\ polling' = TRUE

RecvPollsAgain ==
    /\ receiver # Idle /\ table[receiver.idx].rx = <<>>
    /\ polling' = TRUE
    /\ UNCHANGED vars

Receive ==
    /\ ~polling
    /\ \/ RecvPollsAgain
       \/ (RecvReturns \/ RecvTimesOut) /\ UNCHANGED polling
    /\ UNCHANGED sent_to

Up ==
    /\ phase = "up"
    /\ \/ Receive
       \/ \E p \in Procs : RecvFrom(p) /\ UNCHANGED sent_to
       \/ \E p \in Procs : (SendTo(p) \/ OtherCall(p)) /\ UNCHANGED polling
    /\ UNCHANGED <<iface, rxRing, test>>

NetNext == Arrive \/ PollFrame \/ PollDrained \/ PollSucceeds \/ PollInVain \/ Up

\* The hart executes self_test; other hosts owe it nothing, not even a pause.
NetSpec == NetInit /\ [][NetNext]_netVars /\ WF_netVars(SelfTest)
-----------------------------------------------------------------------------
(* Properties. *)

\* arp_insert: through requests and replies, changes of address and a full cache,
\* no host is in the cache twice, an entry is the address its host announced
\* last, and a host that was heard is missing only from a full cache, which never
\* outgrows its array.
CacheIsLatest ==
    /\ Len(arp_cache) <= ARP_CACHE_LEN
    /\ \A i, j \in DOMAIN arp_cache : arp_cache[i].ip = arp_cache[j].ip => i = j
    /\ \A e \in Range(arp_cache) : e.mac = heard[e.ip]
    /\ \A ip \in Ips : heard[ip] # NoMac /\ Len(arp_cache) < ARP_CACHE_LEN
                            => \E e \in Range(arp_cache) : e.ip = ip

\* self_test: "ping reply" is printed only for an echo reply of the gateway that
\* reached the receive ring after the ping was sent, or that lay there unhandled
\* at that moment: never for one that was counted before.  (Whether it answers
\* this ping is not known: id and sequence number are not compared.)
PingMeansReply == verdict = "ping reply" => since \/ stale

\* send_udp: a datagram leaves only for an address that the gateway gave in an
\* ARP reply, in the self-test or in any recvfrom after it.
SentToGateway == sent_to # NoMac => sent_to \in announced

\* poll_until: once no more frames arrive the boot-time test ends, whatever was
\* received until then, answers or none.  Without that it need not: frames that
\* come as fast as poll_rx takes them keep the hart inside one poll.
SelfTestEnds == <>[](ring = <<>>) => <>(phase = "up")
=============================================================================
