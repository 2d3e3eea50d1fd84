---------------------------- MODULE OfflinePackets ----------------------------
(***************************************************************************)
(* What is exchanged before there is a connection: the offline packets of  *)
(* crates/raknet/src/packet.rs, what crates/raknet/src/server.rs answers   *)
(* them with, and the size of the datagrams that follows.  Which entries   *)
(* they make is ConnectionTable.  Pure operators over bytes: an i64 is its *)
(* eight bytes, an address [version, octets, port].                        *)
(***************************************************************************)
EXTENDS WireFormat

CONSTANTS
  Guid,      \* Inner.guid
  Motd,      \* bytes of the MOTD and what surrounds it
  Online,    \* Inner.online_mode
  MinMtu,    \* what datagrams may at least fill (576)
  MaxMtu     \* MAX_MTU (1492)

ASSUME OfflineAssumption ==
  /\ Guid \in Seq(0..255) /\ Len(Guid) = 8
  /\ Motd \in Seq(0..255) /\ Len(Motd) < 2^16
  /\ Online \in BOOLEAN
  /\ MinMtu \in 40..MaxMtu /\ MaxMtu \in 40..(2^16 - 1)

Magic == <<0, 255, 255, 0, 254, 254, 254, 254, 253, 253, 253, 253, 18, 52, 86, 120>>
RaknetProtocolVersion == 11
Flag(b) == IF b THEN <<1>> ELSE <<0>>

(***************************************************************************)
(* Addresses: the octets are inverted.  One of IPv6 is not read, and       *)
(* written without its octets.                                             *)
(***************************************************************************)
Inverted(octets) == [i \in DOMAIN octets |-> 255 - octets[i]]

WriteAddress(a) ==
  <<a.version>> \o (IF a.version = 4 THEN Inverted(a.octets) ELSE Zeros(4)) \o BE(2, a.port)

ReadAddress(buf, at) ==
  IF at + 7 > Len(buf) \/ buf[at + 1] # 4
    THEN NoPacket
    ELSE [version |-> 4, octets |-> Inverted(Slice(buf, at + 1, at + 5)),
          port |-> FromBE(Slice(buf, at + 5, at + 7))]

(***************************************************************************)
(* decode_offline, after the byte that names the packet                    *)
(***************************************************************************)
HasMagic(buf, at) == at + 16 <= Len(buf) /\ Slice(buf, at, at + 16) = Magic

DecodePing(buf) ==
  IF Len(buf) < 33 \/ ~HasMagic(buf, 9)
    THEN NoPacket
    ELSE [is |-> "ping", time |-> Slice(buf, 1, 9)]

\* The MTU is taken from the length, as a u16.
DecodeRequest1(buf) ==
  IF Len(buf) < 18 \/ ~HasMagic(buf, 1)
    THEN NoPacket
    ELSE [is |-> "request1", version |-> buf[18],
          mtu |-> Min({(Len(buf) - 18 + 28) % 2^16, MaxMtu})]

\* Mutant: the port is not passed over.
DecodeRequest2AtPort(buf) ==
  IF Len(buf) < 34 \/ ~HasMagic(buf, 1) \/ ReadAddress(buf, 17) = NoPacket
    THEN NoPacket
    ELSE [is |-> "request2", mtu |-> FromBE(Slice(buf, 22, 24))]

DecodeRequest2(buf) ==
  IF Len(buf) < 34 \/ ~HasMagic(buf, 1) \/ ReadAddress(buf, 17) = NoPacket
    THEN NoPacket
    ELSE [is |-> "request2", mtu |-> FromBE(Slice(buf, 24, 26))]

DecodeOffline(buf) ==
  CASE buf = <<>>  -> NoPacket
    [] buf[1] = 1  -> DecodePing(buf)
    [] buf[1] = 5  -> DecodeRequest1(buf)
    [] buf[1] = 7  -> DecodeRequest2(buf)
    [] OTHER       -> NoPacket

(***************************************************************************)
(* encode_offline                                                          *)
(***************************************************************************)
Ping(time) == <<1>> \o time \o Magic \o Zeros(8)
Pong(time) == <<28>> \o time \o Guid \o Magic \o BE(2, Len(Motd)) \o Motd
Reply1(mtu) == <<6>> \o Magic \o Guid \o Flag(Online) \o BE(2, mtu)
Reply2(client, mtu) ==
  <<8>> \o Magic \o Guid \o WriteAddress(client) \o BE(2, mtu) \o Flag(Online)
IncompatibleProtocol == <<21, RaknetProtocolVersion>> \o Magic \o Guid

(***************************************************************************)
(* handle_offline and build_datagrams                                      *)
(***************************************************************************)
\* The bytes that a packet is answered with, if it is answered.
Reply(client, buf) ==
  LET packet == DecodeOffline(buf)
  IN  CASE packet = NoPacket -> <<>>
        [] packet.is = "ping" -> Pong(packet.time)
        [] packet.is = "request1" ->
             IF packet.version = RaknetProtocolVersion
               THEN Reply1(Min({packet.mtu, MaxMtu})) ELSE IncompatibleProtocol
        [] packet.is = "request2" -> Reply2(client, Min({packet.mtu, MaxMtu}))

\* The mtu_size that a Request2 leaves, and the size up to which datagrams are filled.
MtuSize(request2) == Min({DecodeRequest2(request2).mtu, MaxMtu})
DatagramSize(mtuSize) == Max({mtuSize, MinMtu})

(***************************************************************************)
(* The client: it probes with requests of some length, and asks for the    *)
(* MTU that it is answered.                                                *)
(***************************************************************************)
Request1(version, probe) == <<5>> \o Magic \o <<version>> \o Zeros(probe - 18)
Request2(server, mtu) == <<7>> \o Magic \o WriteAddress(server) \o BE(2, mtu) \o Zeros(8)
MtuOfReply1(buf) == FromBE(Slice(buf, 26, 28))
MtuOfReply2(buf) == FromBE(Slice(buf, 32, 34))
=============================================================================
