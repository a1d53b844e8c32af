------------------------------- MODULE Codecs -------------------------------
(***************************************************************************)
(* The packet formats of net/{ethernet,arp,ipv4,icmp,udp}.rs as functions  *)
(* on sequences of bytes.  Addresses keep their lengths.  A parser returns *)
(* None for what it rejects.  No received checksum is verified.            *)
(***************************************************************************)
EXTENDS Integers, SequencesExt

None == [ok |-> FALSE]

LOCAL Smaller(a, b) == IF a <= b THEN a ELSE b

\* u16::to_be_bytes, and back from bytes i and i + 1, counted from 0.
Bytes2(n) == <<n \div 256, n % 256>>
U16(data, i) == data[i + 1] * 256 + data[i + 2]

\* data[from..to]
Slice(data, from, to) == SubSeq(data, from + 1, to)

Patched(data, i, n) == [data EXCEPT ![i + 1] = n \div 256, ![i + 2] = n % 256]
-----------------------------------------------------------------------------
\* Mutant: carries out of 16 bits are lost.
CarryLost(sum) == sum % 65536

\* While the sum has more than 16 bits its high half is added to its low half;
\* a frame's sum needs that twice at most.
Carried(sum) ==
    LET once == (sum % 65536) + (sum \div 65536)
    IN  (once % 65536) + (once \div 65536)

\* A last odd byte is the high half of a word.
checksum(data) ==
    LET even == IF Len(data) % 2 = 0 THEN data ELSE Append(data, 0)
        words == [i \in 1 .. Len(even) \div 2 |-> U16(even, 2 * i - 2)]
    IN  65535 - Carried(FoldLeft(LAMBDA sum, w : sum + w, 0, words))
-----------------------------------------------------------------------------
ethernet_build(dst, src, ethertype, payload) == dst \o src \o Bytes2(ethertype) \o payload

ethernet_parse(frame) ==
    IF Len(frame) < 14 THEN None
    ELSE [ok |-> TRUE, dst |-> Slice(frame, 0, 6), src |-> Slice(frame, 6, 12),
          ethertype |-> U16(frame, 12), payload |-> Slice(frame, 14, Len(frame))]

arp_build(op, sender_mac, sender_ip, target_mac, target_ip) ==
    Bytes2(1) \o Bytes2(2048) \o <<6, 4>> \o Bytes2(op)
        \o sender_mac \o sender_ip \o target_mac \o target_ip

arp_parse(payload) ==
    IF Len(payload) < 28 \/ U16(payload, 0) # 1 \/ U16(payload, 2) # 2048 THEN None
    ELSE [ok |-> TRUE, op |-> U16(payload, 6), sender_mac |-> Slice(payload, 8, 14),
          sender_ip |-> Slice(payload, 14, 18), target_ip |-> Slice(payload, 24, 28)]

\* Version 4 without options, Don't Fragment, TTL 64.
ipv4_build(src, dst, proto, payload, ident) ==
    LET header == <<69, 0>> \o Bytes2(20 + Len(payload)) \o Bytes2(ident) \o Bytes2(16384)
                    \o <<64, proto, 0, 0>> \o src \o dst
    IN  Patched(header, 10, checksum(header)) \o payload

\* Mutant: whatever follows the packet in its frame is taken for payload.
ParseToFrameEnd(pkt) ==
    IF Len(pkt) < 20 THEN None
    ELSE [ok |-> TRUE, src |-> Slice(pkt, 12, 16), dst |-> Slice(pkt, 16, 20),
          proto |-> pkt[10], payload |-> Slice(pkt, 20, Len(pkt))]

ipv4_parse(pkt) ==
    LET ihl == (pkt[1] % 16) * 4
        end == Smaller(U16(pkt, 2), Len(pkt))
    IN  IF Len(pkt) < 20 \/ pkt[1] \div 16 # 4 THEN None
        ELSE IF ihl < 20 \/ Len(pkt) < ihl \/ end < ihl THEN None
        ELSE [ok |-> TRUE, src |-> Slice(pkt, 12, 16), dst |-> Slice(pkt, 16, 20),
              proto |-> pkt[10], payload |-> Slice(pkt, ihl, end)]

icmp_build(msg_type, id, seq, payload) ==
    LET msg == <<msg_type, 0, 0, 0>> \o Bytes2(id) \o Bytes2(seq) \o payload
    IN  Patched(msg, 2, checksum(msg))

icmp_parse(data) ==
    IF Len(data) < 8 THEN None
    ELSE [ok |-> TRUE, msg_type |-> data[1], id |-> U16(data, 4), seq |-> U16(data, 6),
          payload |-> Slice(data, 8, Len(data))]

\* What the checksum of a datagram covers.
PseudoHeader(src_ip, dst_ip, len) == src_ip \o dst_ip \o <<0, 17>> \o Bytes2(len)

\* A checksum of 0 would mean "none" and is sent as its equivalent.
udp_build(src_ip, dst_ip, src_port, dst_port, payload) ==
    LET len == 8 + Len(payload)
        dgram == Bytes2(src_port) \o Bytes2(dst_port) \o Bytes2(len) \o <<0, 0>> \o payload
        csum == checksum(PseudoHeader(src_ip, dst_ip, len) \o dgram)
    IN  Patched(dgram, 6, IF csum = 0 THEN 65535 ELSE csum)

udp_parse(data) ==
    LET len == U16(data, 4)
        end == IF len < 8 THEN 8 ELSE Smaller(len, Len(data))
    IN  IF Len(data) < 8 THEN None
        ELSE [ok |-> TRUE, src_port |-> U16(data, 0), dst_port |-> U16(data, 2),
              payload |-> Slice(data, 8, end)]
-----------------------------------------------------------------------------
(* The frames net/mod.rs puts together. *)

BROADCAST == [i \in 1 .. 6 |-> 255]

send_arp_request(mac, ip, target) ==
    ethernet_build(BROADCAST, mac, 2054, arp_build(1, mac, ip, [i \in 1 .. 6 |-> 0], target))

send_ping(mac, ip, target, target_mac, seq, ident, data) ==
    ethernet_build(target_mac, mac, 2048,
        ipv4_build(ip, target, 1, icmp_build(8, 19535, seq, data), ident))

send_udp(mac, ip, gw_mac, dst_ip, dst_port, src_port, payload, ident) ==
    ethernet_build(gw_mac, mac, 2048,
        ipv4_build(ip, dst_ip, 17, udp_build(ip, dst_ip, src_port, dst_port, payload), ident))

EchoReply(eth, mac, ip, ident) ==
    LET pkt == ipv4_parse(eth.payload)
        msg == icmp_parse(pkt.payload)
    IN  ethernet_build(eth.src, mac, 2048,
            ipv4_build(ip, pkt.src, 1, icmp_build(0, msg.id, msg.seq, msg.payload), ident))

ArpReply(a, mac, ip) ==
    ethernet_build(a.sender_mac, mac, 2054, arp_build(2, mac, ip, a.sender_mac, a.sender_ip))

\* What handle_frame returns to be sent: the answer to an ARP request for our
\* address or to an echo request sent to it, <<>> for any other frame.
Answer(frame, mac, ip, ident) ==
    LET eth == ethernet_parse(frame)
        a == arp_parse(eth.payload)
        pkt == ipv4_parse(eth.payload)
        msg == icmp_parse(pkt.payload)
    IN  IF ~eth.ok THEN <<>>
        ELSE IF eth.ethertype = 2054
        THEN IF a.ok /\ a.op = 1 /\ a.target_ip = ip THEN ArpReply(a, mac, ip) ELSE <<>>
        ELSE IF eth.ethertype = 2048
        THEN IF pkt.ok /\ pkt.dst = ip /\ pkt.proto = 1 /\ msg.ok /\ msg.msg_type = 8
             THEN EchoReply(eth, mac, ip, ident) ELSE <<>>
        ELSE <<>>
=============================================================================
