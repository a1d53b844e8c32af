--------------------------- MODULE MCNetInterface ---------------------------
(***************************************************************************)
(* The interface with one socket above it, and the packet formats below it *)
(* on payloads with odd lengths, carries, and a checksum that comes out 0. *)
(***************************************************************************)
EXTENDS NetInterface, Codecs

OurIp == <<10, 0, 2, 15>>
HostIp == <<10, 0, 2, 2>>
OurMac == <<82, 84, 0, 18, 52, 86>>
HostMac == <<82, 85, 10, 0, 2, 2>>

\* Two bytes that bring the sum of a datagram to its maximum.
ZeroSum == Bytes2(U16(udp_build(OurIp, HostIp, 7, 65535, <<0, 0>>), 6))

Payloads == {<<>>, <<255>>, <<1, 2>>, <<255, 255, 255>>, ZeroSum}

\* Short frames are padded on the wire.
Paddings == {<<>>, <<0, 0, 0>>}

UdpFrame(payload) == send_udp(OurMac, OurIp, HostMac, HostIp, 65535, 7, payload, 1)
EchoFrame(payload) == send_ping(OurMac, OurIp, HostIp, HostMac, 1, 65535, payload)
ArpFrame == send_arp_request(OurMac, OurIp, HostIp)

\* The payload a receiver finds in a frame.
Inside(frame) ==
    LET eth == ethernet_parse(frame)
        pkt == ipv4_parse(eth.payload)
        msg == IF pkt.proto = 17 THEN udp_parse(pkt.payload) ELSE icmp_parse(pkt.payload)
    IN  IF ~eth.ok THEN None ELSE IF ~pkt.ok THEN None
        ELSE IF ~msg.ok THEN None
        ELSE [ok |-> TRUE, eth |-> eth.ethertype, ip |-> pkt.src, data |-> msg.payload]

\* The formats depend on no state; they are looked at in the initial one.
AtBoot ==
    /\ phase = "arp" /\ polls = POLLS /\ polling /\ ring = <<>>
    /\ arp_cache = <<>> /\ ping_replies = 0

\* Frames of one host reach the other as they were meant, padded or cut short.
Arrives(payload, frame) ==
    /\ \A pad \in Paddings :
        Inside(frame \o pad) = [ok |-> TRUE, eth |-> 2048, ip |-> OurIp, data |-> payload]
    /\ \A n \in 0 .. Len(frame) - 1 :
        LET cut == Inside(SubSeq(frame, 1, n)) IN cut.ok => IsPrefix(cut.data, payload)

\* A ping is answered with its id, sequence number and data, an ARP request with
\* the address asked for, both to where they came from; no answer is answered.
EchoReturns(payload, pad) ==
    LET reply == Answer(EchoFrame(payload) \o pad, HostMac, HostIp, 2)
        eth == ethernet_parse(reply)
        pkt == ipv4_parse(eth.payload)
    IN  /\ eth.dst = OurMac /\ eth.src = HostMac
        /\ pkt.src = HostIp /\ pkt.dst = OurIp
        /\ icmp_parse(pkt.payload) =
            [ok |-> TRUE, msg_type |-> 0, id |-> 19535, seq |-> 1, payload |-> payload]
        /\ Answer(reply, OurMac, OurIp, 3) = <<>>

ArpReturns(pad) ==
    LET reply == Answer(ArpFrame \o pad, HostMac, HostIp, 2)
        eth == ethernet_parse(reply)
        a == arp_parse(eth.payload)
    IN  /\ eth.dst = OurMac /\ a.op = 2 /\ a.sender_ip = HostIp /\ a.sender_mac = HostMac
        /\ Answer(reply, OurMac, OurIp, 3) = <<>>

\* build and parse of each protocol, and handle_frame: between two hosts that run
\* this code, what one puts in a frame the other takes out, with padding behind
\* it or not; of a frame cut short it takes nothing or the beginning of the
\* payload; requests are answered by the host asked, once, to the asker.
FramesRoundTrip ==
    AtBoot =>
        /\ \A payload \in Payloads :
            Arrives(payload, UdpFrame(payload)) /\ Arrives(payload, EchoFrame(payload))
        /\ \A pad \in Paddings :
            ArpReturns(pad) /\ \A payload \in Payloads : EchoReturns(payload, pad)
        /\ \A frame \in {ArpFrame, EchoFrame(<<1, 2>>), UdpFrame(<<1, 2>>)} :
            Answer(frame, OurMac, OurIp, 2) = <<>>

\* "Build a UDP datagram (header + payload) with a correct checksum" (udp.rs): over
\* a header, a message or a datagram with its pseudo-header the one's-complement
\* sum is all ones, and no datagram carries the checksum 0.
ChecksumsVerify ==
    AtBoot =>
        \A payload \in Payloads :
            LET dgram == udp_build(OurIp, HostIp, 7, 65535, payload)
            IN  /\ checksum(PseudoHeader(OurIp, HostIp, Len(dgram)) \o dgram) = 0
                /\ U16(dgram, 6) # 0
                /\ checksum(icmp_build(8, 19535, 1, payload)) = 0
                /\ checksum(Slice(ipv4_build(OurIp, HostIp, 17, dgram, 65535), 0, 20)) = 0
=============================================================================
