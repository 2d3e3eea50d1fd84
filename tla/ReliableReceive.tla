---------------------------- MODULE ReliableReceive ----------------------------
(***************************************************************************)
(* The receiving half of one RakNet connection: handle_frames of           *)
(* crates/raknet/src/server.rs with RecvQueue and the split reassembly of  *)
(* crates/raknet/src/connection.rs.  The client is external: it numbers    *)
(* its datagrams from 0, cuts or packs its messages into them, repeats a   *)
(* datagram under its own number, as this server's sender does, until an   *)
(* ACK names it.  Its datagrams arrive in any order, any number of times.  *)
(*                                                                         *)
(* handle_frames sends the ACK and the GamePacket events after it has      *)
(* released the lock, but only the inbound task runs it and only it sends  *)
(* these, so the handler is one step here; ConnectionTable has the         *)
(* interleaving with the timeout.                                          *)
(***************************************************************************)
EXTENDS Naturals, Sequences, FiniteSets, SequencesExt

CONSTANTS
  MaxMessages,    \* bound: messages the clients send, all together
  MaxDatagrams,   \* bound: datagrams one client numbers
  MaxParts,       \* bound: frames one message is split into
  MaxAckLosses,   \* bound: ACK datagrams the network loses
  MaxClients      \* bound: client processes that use the address in turn

ASSUME ReceiveBounds == /\ MaxMessages \in Nat /\ MaxDatagrams \in Nat
                        /\ MaxParts \in Nat \ {0} /\ MaxAckLosses \in Nat
                        /\ MaxClients \in Nat \ {0}

VARIABLES
  entry,          \* state of the address's entry in Inner.connections
  recv_queue,     \* RecvQueue.ranges: sequence of <<first, last>>
  split_packets,  \* split id -> partial message
  handed,         \* payloads of the present client's GamePacket events, in order
  datagrams,      \* the present client's datagrams: number s at datagrams[s + 1]
  sent,           \* the present client's messages, in order
  messages,       \* messages sent so far, by any client (MaxMessages)
  client,         \* is a client process there?
  clients,        \* client processes so far (MaxClients)
  unacked,        \* numbers the client still repeats
  acks,           \* ACKs in the network, each the set of numbers it names
  losses,         \* ACKs lost (MaxAckLosses)
  received,       \* history: numbers accepted since the entry was made
  arrived,        \* history: the present client's numbers read while Connected
  expired,        \* history: messages of which a partial was dropped
  fresh           \* history: the entry was made for the present client

connection == <<entry, recv_queue, split_packets>>
sender     == <<datagrams, sent, messages, client, clients>>
feedback   == <<unacked, acks, losses>>
history    == <<received, arrived, expired, fresh>>
vars == <<connection, handed, sender, feedback, history>>

SeqNum == 0 .. (MaxDatagrams - 1)
\* The body of a frame: which part of which message.  An unsplit frame has
\* parts = 1; a split one carries split, part and parts on the wire.
Frame == [message : 1..MaxMessages, split : Nat, part : Nat, parts : 1..MaxParts]

Init ==
  /\ entry = "Connected" /\ recv_queue = <<>>
  /\ split_packets = <<>>
  /\ handed = <<>>
  /\ datagrams = <<>> /\ sent = <<>> /\ messages = 0 /\ client = "up" /\ clients = 1
  /\ unacked = {} /\ acks = {} /\ losses = 0
  /\ received = {} /\ arrived = {} /\ expired = {} /\ fresh = TRUE

(***************************************************************************)
(* RecvQueue                                                               *)
(***************************************************************************)
\* Mutant: a gap is closed as if what is in it had come.
PushOverGap(ranges, seq) ==
  IF ranges # <<>> /\ seq > Last(ranges)[2]
    THEN [ranges EXCEPT ![Len(ranges)] = <<@[1], seq>>]
    ELSE Append(ranges, <<seq, seq>>)

\* push: only the range that was added last can grow, and only upwards.
Push(ranges, seq) ==
  IF ranges # <<>> /\ seq = Last(ranges)[2] + 1
    THEN [ranges EXCEPT ![Len(ranges)] = <<@[1], seq>>]
    ELSE Append(ranges, <<seq, seq>>)

\* Mutant: only the last range is looked at.
HoldsInLast(ranges, seq) ==
  ranges # <<>> /\ Last(ranges)[1] <= seq /\ seq <= Last(ranges)[2]

\* Mutant: a number below one that has come counts as received.
HoldsBelow(ranges, seq) == \E i \in DOMAIN ranges : seq <= ranges[i][2]

\* contains
Holds(ranges, seq) ==
  \E i \in DOMAIN ranges : ranges[i][1] <= seq /\ seq <= ranges[i][2]

\* The numbers an ACK made of the ranges names.
Covered(ranges) == UNION {ranges[i][1] .. ranges[i][2] : i \in DOMAIN ranges}

(***************************************************************************)
(* Split reassembly                                                        *)
(***************************************************************************)
Without(f, keys) == [k \in DOMAIN f \ keys |-> f[k]]
With(f, key, value) == [k \in DOMAIN f \cup {key} |-> IF k = key THEN value ELSE f[k]]

\* SplitPacket: how many parts it waits for, the frames it has, by part, and
\* whether it is older than SPLIT_PACKET_TIMEOUT.
SplitPacket(count) == [count |-> count, parts |-> <<>>, old |-> FALSE]

\* Mutant: the partial is looked up by its count.
PartialByCount(packets, f) ==
  LET like == {k \in DOMAIN packets : packets[k].count = f.parts}
      p == IF like # {} THEN packets[CHOOSE k \in like : TRUE] ELSE SplitPacket(f.parts)
  IN  [p EXCEPT !.parts = With(@, f.part, f)]

\* Mutant: the partial is reset when the counts agree.
PartialResetOnMatch(packets, f) ==
  LET p == IF f.split \in DOMAIN packets /\ packets[f.split].count # f.parts
             THEN packets[f.split] ELSE SplitPacket(f.parts)
  IN  [p EXCEPT !.parts = With(@, f.part, f)]

\* feed_split: the partial that f goes to, a new one if none is there or the
\* counts differ, with f in it.  (No client sends a part its count excludes.)
PartialWith(packets, f) ==
  LET p == IF f.split \in DOMAIN packets /\ packets[f.split].count = f.parts
             THEN packets[f.split] ELSE SplitPacket(f.parts)
  IN  [p EXCEPT !.parts = With(@, f.part, f)]

IsWhole(p) == Cardinality(DOMAIN p.parts) = p.count

\* Mutant: a completed partial stays in the map.
FeedKeeping(acc, f) ==
  LET p == PartialWith(acc.packets, f) IN
  IF f.parts = 1 THEN [acc EXCEPT !.done = Append(@, <<f>>)]
  ELSE [packets |-> With(acc.packets, f.split, p),
        done |-> IF IsWhole(p)
                   THEN Append(acc.done, [i \in 1..p.count |-> p.parts[i - 1]])
                   ELSE acc.done]

\* One frame of a frame set: acc has the partials and the completed payloads.
\* A payload is the sequence of the frames its body is made of.
Feed(acc, f) ==
  LET p == PartialWith(acc.packets, f) IN
  IF f.parts = 1 THEN [acc EXCEPT !.done = Append(@, <<f>>)]
  ELSE IF IsWhole(p)
    THEN [packets |-> Without(acc.packets, {f.split}),
          done |-> Append(acc.done, [i \in 1..p.count |-> p.parts[i - 1]])]
    ELSE [acc EXCEPT !.packets = With(@, f.split, p)]

\* The frames of one frame set, in turn.
FeedAll(packets, frames) == FoldLeft(Feed, [packets |-> packets, done |-> <<>>], frames)

\* expire_split_packets
Old(packets) == {k \in DOMAIN packets : packets[k].old}
Expire(packets) ==
  /\ split_packets' = Without(packets, Old(packets))
  /\ expired' = expired \cup UNION {{packets[k].parts[i].message :
                                     i \in DOMAIN packets[k].parts} : k \in Old(packets)}

(***************************************************************************)
(* The inbound task                                                        *)
(***************************************************************************)
\* handle_frames: datagram s of the client.  Without a Connected entry, or when
\* its number was accepted before, nothing is done and nothing acknowledged.
HandleFrames(s) ==
  /\ client = "up" /\ s < Len(datagrams)
  /\ entry = "Connected"
  /\ arrived' = arrived \cup {s}
  /\ IF Holds(recv_queue, s)
       THEN UNCHANGED <<recv_queue, split_packets, handed, acks, received, expired>>
       ELSE LET fed == FeedAll(split_packets, datagrams[s + 1])
            IN  /\ recv_queue' = Push(recv_queue, s)
                /\ received' = received \cup {s}
                /\ acks' = acks \cup {Covered(recv_queue')}
                /\ handed' = handed \o fed.done
                /\ Expire(fed.packets)
  /\ UNCHANGED <<entry, sender, unacked, losses, fresh>>

\* A Request1, of a client that opens a connection or a late copy of one.
Request1 ==
  /\ entry = "Connected"
  /\ entry' = "Handshaking"
  /\ UNCHANGED <<recv_queue, split_packets, handed, sender, feedback, history>>

\* The table's part of Request2: only a new entry starts from nothing.
HandleRequest2 ==
  /\ entry' = "Connected"
  /\ IF entry = "Absent"
       THEN recv_queue' = <<>> /\ split_packets' = <<>> /\ received' = {}
       ELSE UNCHANGED <<recv_queue, split_packets, received>>

\* The present client completes a handshake that a Request1 began.
Request2 ==
  /\ client = "up" /\ entry = "Handshaking"
  /\ HandleRequest2
  /\ UNCHANGED <<handed, sender, feedback, arrived, expired, fresh>>

\* A new client process at the same address connects: it numbers from 0.
Request2OfNewClient ==
  /\ client = "gone" /\ client' = "up"
  /\ clients' = clients + 1
  /\ HandleRequest2
  /\ fresh' = (entry = "Absent")
  /\ handed' = <<>> /\ arrived' = {}
  /\ datagrams' = <<>> /\ sent' = <<>> /\ unacked' = {} /\ acks' = {}
  /\ UNCHANGED <<messages, losses, expired>>

(***************************************************************************)
(* Time and the resend/timeout task                                        *)
(***************************************************************************)
\* More than SPLIT_PACKET_TIMEOUT has passed since partial k was begun.
SplitTimeout(k) ==
  /\ entry # "Absent"
  /\ k \in DOMAIN split_packets /\ ~split_packets[k].old
  /\ split_packets' = [split_packets EXCEPT ![k].old = TRUE]
  /\ UNCHANGED <<entry, recv_queue, handed, sender, feedback, history>>

\* timeout_stale: a Connected entry of which no frame set has come for the timeout
\* goes with all it holds (none of which is looked at before a new entry is made),
\* whether its client is gone or had nothing to say; of one that stays, the old
\* partials go.
TimeoutStale(isStale) ==
  /\ isStale => entry = "Connected"
  /\ entry' = IF isStale THEN "Absent" ELSE entry
  /\ IF entry' = "Absent" THEN UNCHANGED <<split_packets, expired>> ELSE Expire(split_packets)
  /\ UNCHANGED <<recv_queue, handed, sender, feedback, received, arrived, fresh>>

(***************************************************************************)
(* The client and the ACKs on their way to it                              *)
(***************************************************************************)
\* The client sends the datagrams ds, which hold the messages ms.
Number(ds, ms) ==
  /\ client = "up"
  /\ messages + Len(ms) <= MaxMessages /\ Len(datagrams) + Len(ds) <= MaxDatagrams
  /\ datagrams' = datagrams \o ds
  /\ unacked' = unacked \cup (Len(datagrams) .. (Len(datagrams) + Len(ds) - 1))
  /\ sent' = sent \o ms
  /\ messages' = messages + Len(ms)
  /\ UNCHANGED <<connection, handed, client, clients, acks, losses, history>>

\* One message in n datagrams, under a split id this client has not used.
Send(n) ==
  Number([i \in 1..n |-> <<[message |-> messages + 1, split |-> Len(datagrams),
                            part |-> i - 1, parts |-> n]>>],
         <<messages + 1>>)

\* Two small messages in one datagram.
SendPacked ==
  Number(<<[i \in 1..2 |-> [message |-> messages + i, split |-> 0, part |-> 0, parts |-> 1]]>>,
         <<messages + 1, messages + 2>>)

AckArrives(a) ==
  /\ a \in acks
  /\ acks' = acks \ {a}
  /\ unacked' = unacked \ a
  /\ UNCHANGED <<connection, handed, sender, losses, history>>

AckLost(a) ==
  /\ a \in acks /\ losses < MaxAckLosses
  /\ acks' = acks \ {a}
  /\ losses' = losses + 1
  /\ UNCHANGED <<connection, handed, sender, unacked, history>>

\* The client process ends without a word.
Leave ==
  /\ client = "up" /\ clients < MaxClients
  /\ client' = "gone"
  /\ UNCHANGED <<connection, handed, datagrams, sent, messages, clients, feedback, history>>

(***************************************************************************)
(* Specification                                                           *)
(***************************************************************************)
Next ==
  \/ \E s \in SeqNum : HandleFrames(s)
  \/ Request1 \/ Request2 \/ Request2OfNewClient
  \/ \E k \in DOMAIN split_packets : SplitTimeout(k)
  \/ \E isStale \in BOOLEAN : TimeoutStale(isStale)
  \/ \E n \in 1..MaxParts : Send(n)
  \/ SendPacked
  \/ \E a \in acks : AckArrives(a) \/ AckLost(a)
  \/ Leave

Spec == Init /\ [][Next]_vars

\* The client repeats what is not acknowledged and gets through (its handshake
\* too), as do ACKs that are not lost.
Fairness ==
  /\ \A s \in SeqNum : SF_vars(s \in unacked /\ HandleFrames(s))
  /\ WF_vars(Request2)
  /\ WF_vars(\E a \in acks : AckArrives(a))

FairSpec == Spec /\ Fairness

(***************************************************************************)
(* Properties                                                              *)
(***************************************************************************)
\* Types.
TypeOK ==
  /\ entry \in {"Absent", "Handshaking", "Connected"}
  /\ recv_queue \in Seq(SeqNum \X SeqNum)
  /\ \A k \in DOMAIN split_packets :
       LET p == split_packets[k] IN
       /\ k \in SeqNum /\ p.count \in 2..MaxParts /\ p.old \in BOOLEAN
       /\ DOMAIN p.parts \subseteq 0..(p.count - 1) /\ ~IsWhole(p)
       /\ \A i \in DOMAIN p.parts : p.parts[i] \in Frame
  /\ handed \in Seq(Seq(Frame)) /\ datagrams \in Seq(Seq(Frame))
  /\ sent \in Seq(1..MaxMessages) /\ messages \in 0..MaxMessages
  /\ client \in {"up", "gone"} /\ clients \in 1..MaxClients
  /\ unacked \subseteq SeqNum /\ acks \subseteq SUBSET SeqNum
  /\ losses \in 0..MaxAckLosses
  /\ received \subseteq SeqNum /\ arrived \subseteq SeqNum
  /\ expired \subseteq 1..MaxMessages /\ fresh \in BOOLEAN

\* Whatever the order of arrival, the ranges hold exactly the numbers accepted
\* since the entry was made: an ACK names nothing that has not come, and leaves
\* out nothing that has.
QueueIsReceived == Covered(recv_queue) = received

\* The numbers of the present client's datagrams that hold a part of m.
DatagramsOf(m) ==
  {s \in 0..(Len(datagrams) - 1) :
     \E i \in DOMAIN datagrams[s + 1] : datagrams[s + 1][i].message = m}

\* server.rs:49 "A fully-reassembled Bedrock batch payload received from a
\* client.": a payload handed up is one message of one client, all its parts, in
\* order, if the client's entry was made for it.  (Otherwise a partial that its
\* predecessor left may be completed with a part of its own.)
OnlyWholeMessages ==
  fresh => \A h \in DOMAIN handed : \A i \in DOMAIN handed[h] :
    LET f == handed[h][i] IN
    /\ f.message = handed[h][1].message
    /\ f.part = i - 1 /\ f.parts = Len(handed[h])

\* No message is handed up twice, however often its datagrams come.
NoDuplicates ==
  \A g, h \in DOMAIN handed : handed[g][1].message = handed[h][1].message => g = h

\* A message all of whose datagrams were read while Connected has been handed
\* up, unless a partial of it expired, if the client's entry was made for it.
\* (Otherwise its first datagrams may pass for repeats of its predecessor's.)
HeardIsHanded ==
  fresh => \A m \in {sent[i] : i \in DOMAIN sent} \ expired :
    DatagramsOf(m) \subseteq arrived
      => \E h \in DOMAIN handed : handed[h][1].message = m

\* PROGRESS.md:16 "ACK/NACK handling with periodic resend of un-ACKed reliable
\* datagrams": a client that repeats its datagrams sees them all acknowledged, if
\* its entry was made for it and not timed out, and no ACK is lost.  (Without an
\* entry its datagrams are ignored; and one that has been accepted is not
\* acknowledged again on its own account, so that whoever loses its ACK may repeat
\* it for ever.)
RepeatedIsAcknowledged ==
  <>[](client = "up" /\ fresh /\ entry # "Absent" /\ losses = 0 => unacked = {})
=============================================================================
