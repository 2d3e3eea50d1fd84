------------------------------ MODULE WireFormat ------------------------------
(***************************************************************************)
(* What RakNet and the batch layer put on the wire: frames, datagrams and  *)
(* ACKs of crates/raknet/src/packet.rs, the cutting up of payloads of      *)
(* crates/raknet/src/server.rs, and batches of                             *)
(* crates/protocol/src/batch.rs.  Pure operators over bytes.               *)
(***************************************************************************)
EXTENDS VarInt, FiniteSetsExt

NoPacket == [failed |-> TRUE]

(***************************************************************************)
(* Frames                                                                  *)
(***************************************************************************)
\* Unreliable, UnreliableSequenced, Reliable, ReliableOrdered, ReliableSequenced
Reliability == 0..4
IsReliable(r) == r \in {2, 3, 4}
IsSequenced(r) == r \in {1, 4}
IsOrdered(r) == r \in {3, 4}

\* A frame: its reliability, the indices (of which it carries those that its
\* reliability calls for), <<count, id, index>> if it is a part, and its body.
Frame(r, reliable, sequence, order, split, body) ==
  [reliability |-> r,
   reliable    |-> IF IsReliable(r) THEN <<reliable>> ELSE <<>>,
   sequence    |-> IF IsSequenced(r) THEN <<sequence>> ELSE <<>>,
   order       |-> IF IsOrdered(r) THEN <<order>> ELSE <<>>,
   split       |-> split,
   body        |-> body]

U24s(numbers) == FlattenSeq([i \in DOMAIN numbers |-> LE(3, numbers[i])])

\* encode_frame, on channel 0.  The length is in bits, and 16 bits wide.
EncodeFrame(f) ==
  <<f.reliability + (IF f.split # <<>> THEN 16 ELSE 0)>>
    \o BE(2, (8 * Len(f.body)) % 2^16)
    \o U24s(f.reliable) \o U24s(f.sequence) \o U24s(f.order)
    \o (IF IsOrdered(f.reliability) THEN <<0>> ELSE <<>>)
    \o (IF f.split # <<>>
          THEN BE(4, f.split[1]) \o BE(2, f.split[2]) \o BE(4, f.split[3]) ELSE <<>>)
    \o f.body

\* The frame that begins after at bytes of buf and the position where it ends.
\* decode_frame fails where it would read past the buffer, which is when the
\* fields that the flags call for and the body do not fit.
DecodeFrame(buf, at) ==
  IF at + 3 > Len(buf) \/ buf[at + 1] % 8 \notin Reliability
    THEN NoPacket
    ELSE LET r     == buf[at + 1] % 8
             parts == (buf[at + 1] \div 16) % 2 = 1
             \* where the fields begin
             seq   == at + 3 + (IF IsReliable(r) THEN 3 ELSE 0)
             ord   == seq + (IF IsSequenced(r) THEN 3 ELSE 0)
             cut   == ord + (IF IsOrdered(r) THEN 4 ELSE 0)
             body  == cut + (IF parts THEN 10 ELSE 0)
             end   == body + (FromBE(Slice(buf, at + 1, at + 3)) + 7) \div 8
         IN  IF end > Len(buf)
               THEN NoPacket
               ELSE [frame |-> Frame(r, FromLE(Slice(buf, at + 3, at + 6)),
                                     FromLE(Slice(buf, seq, seq + 3)),
                                     FromLE(Slice(buf, ord, ord + 3)),
                                     IF parts THEN <<FromBE(Slice(buf, cut, cut + 4)),
                                                     FromBE(Slice(buf, cut + 4, cut + 6)),
                                                     FromBE(Slice(buf, cut + 6, cut + 10))>>
                                              ELSE <<>>,
                                     Slice(buf, body, end)),
                     at    |-> end]

(***************************************************************************)
(* Datagrams                                                               *)
(***************************************************************************)
FrameSetStart == 128

EncodeDatagram(d) ==
  <<FrameSetStart>> \o LE(3, d.number)
    \o FlattenSeq([i \in DOMAIN d.frames |-> EncodeFrame(d.frames[i])])

\* decode_datagram: frames until the end of the buffer; one that fails fails all.
TakeFrame(buf, d) ==
  IF d = NoPacket \/ d.at = Len(buf) THEN d
  ELSE LET next == DecodeFrame(buf, d.at)
       IN  IF next = NoPacket THEN NoPacket
           ELSE [frames |-> Append(d.frames, next.frame), at |-> next.at]

DecodeDatagram(buf) ==
  LET read[i \in 0..Len(buf)] ==
        IF i = 0 THEN [frames |-> <<>>, at |-> 4] ELSE TakeFrame(buf, read[i - 1])
      end == read[Len(buf)]
  IN  IF Len(buf) < 4 \/ buf[1] \notin FrameSetStart..(FrameSetStart + 15) \/ end = NoPacket
        THEN NoPacket
        ELSE [number |-> FromLE(Slice(buf, 1, 4)), frames |-> end.frames]

(***************************************************************************)
(* Payloads in frames (build_datagrams)                                    *)
(***************************************************************************)
ReliableOrdered == 3

\* Mutant: the number of parts is one too many when the last one is full.
SplitPlusOne(payload, mtu, id, reliable, order) ==
  LET chunk == Max({mtu - 24, 16})
      count == (Len(payload) + chunk - 1) \div chunk
  IN  [i \in 1..count |->
         Frame(ReliableOrdered, reliable, 0, order,
               <<Len(payload) \div chunk + 1, id, i - 1>>,
               Slice(payload, chunk * (i - 1), Min({chunk * i, Len(payload)})))]

\* split_payload: a part has the MTU, less the header of a datagram (4) and that
\* of a frame with every field (20).
SplitPayload(payload, mtu, id, reliable, order) ==
  LET chunk == Max({mtu - 24, 16})
      count == (Len(payload) + chunk - 1) \div chunk
  IN  [i \in 1..count |->
         Frame(ReliableOrdered, reliable, 0, order, <<count, id, i - 1>>,
               Slice(payload, chunk * (i - 1), Min({chunk * i, Len(payload)})))]

\* A payload that fits one datagram (less 14 for its headers) goes unsplit.
Frames(payload, mtu, id, reliable, order) ==
  IF Len(payload) <= mtu - 14
    THEN <<Frame(ReliableOrdered, reliable, 0, order, <<>>, payload)>>
    ELSE SplitPayload(payload, mtu, id, reliable, order)

\* The datagrams, numbered from first: a frame joins the last one if it fits.
Join(ds, f, mtu, first) ==
  IF ds # <<>> /\ Len(EncodeDatagram(Last(ds))) + Len(EncodeFrame(f)) <= mtu
    THEN [ds EXCEPT ![Len(ds)].frames = Append(@, f)]
    ELSE Append(ds, [number |-> first + Len(ds), frames |-> <<f>>])

Datagrams(frames, mtu, first) ==
  LET joined[i \in 0..Len(frames)] ==
        IF i = 0 THEN <<>> ELSE Join(joined[i - 1], frames[i], mtu, first)
  IN  joined[Len(frames)]

\* What feed_split puts together of parts, in whatever order they come; nothing
\* until all are there.
Reassemble(frames) ==
  IF frames[1].split = <<>> THEN frames[1].body
  ELSE LET count   == frames[1].split[1]
           Part(i) == FlattenSeq([k \in DOMAIN frames |->
                        IF frames[k].split[3] = i THEN frames[k].body ELSE <<>>])
       IN  IF {frames[k].split[3] : k \in DOMAIN frames} # 0..(count - 1)
             THEN <<>>
             ELSE FlattenSeq([i \in 1..count |-> Part(i - 1)])

(***************************************************************************)
(* ACKs: ranges <<start, end>>, a range of one number without its end.     *)
(***************************************************************************)
\* Mutant: a range of two is taken for a range of one.
EncodeAckShort(ranges) ==
  <<192>> \o BE(2, Len(ranges)) \o FlattenSeq([i \in DOMAIN ranges |->
    IF ranges[i][1] + 1 >= ranges[i][2] THEN <<1>> \o LE(3, ranges[i][1])
    ELSE <<0>> \o U24s(ranges[i])])

EncodeAck(ranges) ==
  <<192>> \o BE(2, Len(ranges)) \o FlattenSeq([i \in DOMAIN ranges |->
    IF ranges[i][1] = ranges[i][2] THEN <<1>> \o LE(3, ranges[i][1])
    ELSE <<0>> \o U24s(ranges[i])])

\* decode_ack: as many ranges as are announced.
TakeRange(buf, a) ==
  IF a = NoPacket \/ a.at + 1 > Len(buf) THEN NoPacket
  ELSE LET single == buf[a.at + 1] # 0
           end    == a.at + (IF single THEN 4 ELSE 7)
           start  == FromLE(Slice(buf, a.at + 1, a.at + 4))
       IN  IF end > Len(buf) THEN NoPacket
           ELSE [ranges |-> Append(a.ranges, <<start,
                    IF single THEN start ELSE FromLE(Slice(buf, a.at + 4, end))>>),
                 at     |-> end]

DecodeAck(buf) ==
  LET count == FromBE(Slice(buf, 1, 3))
      read[i \in 0..count] ==
        IF i = 0 THEN [ranges |-> <<>>, at |-> 3] ELSE TakeRange(buf, read[i - 1])
  IN  IF Len(buf) < 3 \/ read[count] = NoPacket THEN NoPacket ELSE read[count].ranges

(***************************************************************************)
(* Batches                                                                 *)
(***************************************************************************)
BatchMagic == 254

\* encode_batch
EncodeBatch(packets) ==
  <<BatchMagic>>
    \o FlattenSeq([i \in DOMAIN packets |-> WriteVarU32(Len(packets[i])) \o packets[i]])

\* decode_batch: packets until the end of the buffer.
TakePacket(buf, b) ==
  IF b = NoPacket \/ b.at = Len(buf) THEN b
  ELSE LET len == ReadVarU32(buf, b.at)
       IN  IF len = NoVarInt \/ len.at + len.value > Len(buf) THEN NoPacket
           ELSE [packets |-> Append(b.packets, Slice(buf, len.at, len.at + len.value)),
                 at      |-> len.at + len.value]

DecodeBatch(buf) ==
  LET read[i \in 0..Len(buf)] ==
        IF i = 0 THEN [packets |-> <<>>, at |-> 1] ELSE TakePacket(buf, read[i - 1])
      end == read[Len(buf)]
  IN  IF buf = <<>> \/ buf[1] # BatchMagic \/ end = NoPacket THEN NoPacket ELSE end.packets
=============================================================================
