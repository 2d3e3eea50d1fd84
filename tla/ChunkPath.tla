------------------------------- MODULE ChunkPath -------------------------------
(***************************************************************************)
(* A column on its way to a client: the handshake that agrees on an MTU,   *)
(* then the column, encoded by encode_chunk_column, cut into frames and    *)
(* datagrams by build_datagrams, put together and read on the other side;  *)
(* and the ACK that comes back.  What the columns are made of is the       *)
(* subchunk of SubChunkCodec.                                              *)
(***************************************************************************)
EXTENDS SubChunkCodec, OfflinePackets

CONSTANTS
  Places,     \* bound: the chunk coordinates
  Probes,     \* bound: the lengths of the client's Request1
  FirstNumber \* the number of the first datagram

ASSUME PathAssumption ==
  \* Blocks at an i32 are in as many chunks, and there is a radius.
  /\ Places \subseteq Int /\ \A place \in Places : -(2^28) <= place /\ place <= 2^28
  /\ Probes \subseteq 18..(2^16 - 29) /\ FirstNumber \in 0..(2^24 - 1)
  /\ MaxMtu < 2^13   \* the length of a frame is in bits, and has 16 (MAX_MTU is 1492)

Server == [version |-> 4, octets |-> <<127, 0, 0, 1>>, port |-> 19132]
Client == [version |-> 4, octets |-> <<10, 0, 255, 7>>, port |-> 49152]

\* The handshake of a client, in bytes: its probe, the answer, its second request.
SecondRequest(probe) ==
  Request2(Server, MtuOfReply1(Reply(Client, Request1(RaknetProtocolVersion, probe))))

\* The size up to which the datagrams to that client are filled.
SizeFor(probe) == DatagramSize(MtuSize(SecondRequest(probe)))
Sizes == {SizeFor(probe) : probe \in Probes}

\* The columns that are sent: the subchunk below, above and among empty ones.
Columns == {<<sub>>, <<sub, New>>, <<New, sub>>, <<New, sub, New>>}

\* The subchunks that a column lacks at its top are air.
At(subs, i) == IF i \in DOMAIN subs THEN subs[i] ELSE New

MaxLength == 2^30   \* bound: lengths (a u32 in the code)

\* A column is read back at its place, every block of every subchunk as it was, the
\* ones that calculate_needed_height leaves out included.
ColumnReadBack ==
  Aligned(sub) /\ Len(Encode(sub)) < MaxLength =>
    \A column \in Columns, x, z \in Places :
      LET read == ReadColumn(EncodeColumn(x, z, column))
      IN  /\ read.place = <<x, z>>
          /\ \A i \in DOMAIN column, c \in 0..(Cells - 1) :
               BlockOf(At(read.subs, i), c) = BlockOf(column[i], c)

Column == EncodeColumn(0, -1, <<sub, New>>)

\* What is sent as a payload: a column, a batch of one packet, a batch of two.
Payloads == {Column, EncodeBatch(<<Column>>), EncodeBatch(<<Column, Encode(sub)>>)}

Cut(payload, mtu) == Frames(payload, mtu, 7, 300, 70000)
Sent(payload, mtu) == Datagrams(Cut(payload, mtu), mtu, FirstNumber)

\* The datagrams of a payload have numbers of 24 bits left.
Numbered(payload, mtu) == FirstNumber + Len(Cut(payload, mtu)) <= 2^24

\* The handshake agrees: the two replies name one MTU, the second at the client's
\* address, and it is what datagrams are then filled to, but for the least size; a
\* ping is answered with its time, and a client of another version with the server's.
HandshakeAgrees ==
  /\ \A probe \in Probes :
       LET reply1 == Reply(Client, Request1(RaknetProtocolVersion, probe))
           reply2 == Reply(Client, SecondRequest(probe))
       IN  /\ MtuOfReply2(reply2) = MtuOfReply1(reply1)
           /\ ReadAddress(reply2, 25) = Client
           /\ SizeFor(probe) = Max({MtuOfReply2(reply2), MinMtu})
           /\ Reply(Client, Request1(RaknetProtocolVersion + 1, probe)) = IncompatibleProtocol
  /\ LET time == Zeros(4) \o BE(4, Len(Column))
     IN  Slice(Reply(Client, Ping(time)), 1, 9) = time

\* A payload arrives as it was, by however many datagrams within the MTU, in either
\* order; its parts carry its order index; and a batch is read as its packets.
PayloadCarried ==
  /\ \A payload \in Payloads, mtu \in Sizes : Numbered(payload, mtu) =>
       LET sent   == Sent(payload, mtu)
           wire   == [i \in DOMAIN sent |-> EncodeDatagram(sent[i])]
           heard  == [i \in DOMAIN wire |-> DecodeDatagram(wire[i])]
           frames == FlattenSeq([i \in DOMAIN heard |-> heard[i].frames])
       IN  /\ \A i \in DOMAIN wire : Len(wire[i]) <= mtu /\ heard[i] = sent[i]
           /\ \A i \in DOMAIN frames : frames[i].order = <<70000>>
           /\ Reassemble(frames) = payload /\ Reassemble(Reverse(frames)) = payload
  /\ Len(Column) < MaxLength /\ Len(Encode(sub)) < MaxLength =>
       DecodeBatch(EncodeBatch(<<Column, Encode(sub)>>)) = <<Column, Encode(sub)>>

\* The ranges of a set of numbers, as RecvQueue keeps them, in some order.
Ranges(numbers) ==
  SetToSeq({r \in numbers \X numbers : /\ r[1] <= r[2] /\ r[1]..r[2] \subseteq numbers
                                       /\ r[1] - 1 \notin numbers /\ r[2] + 1 \notin numbers})

\* An ACK of all datagrams but one names all of them but that one, so that
\* handle_ack keeps the one that was lost, and only that.
AcksNameTheRest ==
  \A mtu \in Sizes : Numbered(Column, mtu) =>
    LET sent    == Sent(Column, mtu)
        numbers == {sent[i].number : i \in DOMAIN sent}
    IN  \A lost \in numbers :
          LET acked == DecodeAck(EncodeAck(Ranges(numbers \ {lost})))
          IN  {n \in numbers : \E i \in DOMAIN acked : n \in acked[i][1]..acked[i][2]}
                = numbers \ {lost}
=============================================================================
