------------------------- MODULE ReliableReceiveProofs -------------------------
(***************************************************************************)
(* ReliableReceive, for every number of messages, datagrams, parts, losses *)
(* and clients.                                                            *)
(*                                                                         *)
(* The receive queue, whose ranges grow at one end only, holds what has    *)
(* been accepted, so that a number is accepted once and an ACK names       *)
(* nothing else (IInv).                                                    *)
(*                                                                         *)
(* No message is handed up twice, and of a client the entry was made for   *)
(* every payload is one whole message and nothing is forgotten (SInv).     *)
(* The argument follows first parts: each message has one, in one          *)
(* datagram, which is accepted once; so at most one partial or payload     *)
(* begins with it.  Parts with one split id are of one message of the      *)
(* client, so a partial does not mix messages unless a former client left  *)
(* it; and a frame that was read is in a partial until that is handed up   *)
(* or expires.                                                             *)
(***************************************************************************)
EXTENDS ReliableReceive, SequenceTheorems, FiniteSetTheorems, TLAPS

(***************************************************************************)
(* The receive queue                                                       *)
(***************************************************************************)
\* A range of the queue is not turned round; ranges need not be in order, nor apart.
Span == {r \in Nat \X Nat : r[1] <= r[2]}

IInv == recv_queue \in Seq(Span) /\ QueueIsReceived

\* push covers the new number, whether it grows the last range or starts another,
\* and covers no other.
LEMMA Pushed ==
  ASSUME NEW q \in Seq(Span), NEW s \in Nat
  PROVE  Push(q, s) \in Seq(Span) /\ Covered(Push(q, s)) = Covered(q) \cup {s}
<1>0. Len(q) \in Nat /\ DOMAIN q = 1..Len(q) /\ \A i \in 1..Len(q) : q[i] \in Span
      BY LenProperties
<1>1. CASE q # <<>> /\ s = Last(q)[2] + 1
  <2> DEFINE n == Len(q)
             p == [q EXCEPT ![n] = <<@[1], s>>]
  <2>1. n \in 1..n /\ q[n] \in Span /\ Last(q) = q[n]
        BY <1>0, <1>1, EmptySeq DEF Last
  <2>2. q[n][1] \in Nat /\ q[n][2] \in Nat /\ q[n][1] <= q[n][2] /\ s = q[n][2] + 1
        BY <1>1, <2>1 DEF Span
  <2>3. <<q[n][1], s>> \in Span
        BY <2>2 DEF Span
  <2>4. Push(q, s) = p
        BY <1>1 DEF Push
  <2>5. /\ p \in Seq(Span) /\ DOMAIN p = DOMAIN q /\ p[n] = <<q[n][1], s>>
        /\ \A i \in DOMAIN q : i # n => p[i] = q[i]
    <3>1. p \in [1..n -> Span]
          BY <1>0, <2>1, <2>3
    <3>2. QED
          BY <1>0, <2>1, <3>1
  <2>6. q[n][1] .. s = (q[n][1] .. q[n][2]) \cup {s}
        BY <2>2
  <2> HIDE DEF p
  <2>7. ASSUME NEW x PROVE x \in Covered(p) <=> x \in Covered(q) \cup {s}
    <3>1. x \in Covered(p) <=> \E i \in DOMAIN q : x \in p[i][1] .. p[i][2]
          BY <2>5 DEF Covered
    <3>2. x \in p[n][1] .. p[n][2] <=> x \in (q[n][1] .. q[n][2]) \cup {s}
          BY <2>5, <2>6
    <3>3. x \in Covered(q) <=> \E i \in DOMAIN q : x \in q[i][1] .. q[i][2]
          BY DEF Covered
    <3>4. n \in DOMAIN q
          BY <1>0, <2>1
    <3>5. QED
          BY <2>5, <3>1, <3>2, <3>3, <3>4
  <2>8. QED
        BY <2>4, <2>5, <2>7
<1>2. CASE ~(q # <<>> /\ s = Last(q)[2] + 1)
  <2> DEFINE p == Append(q, <<s, s>>)
  <2>1. Push(q, s) = p
        BY <1>2 DEF Push
  <2>2. <<s, s>> \in Span /\ s .. s = {s}
        BY DEF Span
  <2>3. /\ p \in Seq(Span) /\ DOMAIN p = 1..(Len(q) + 1) /\ p[Len(q) + 1] = <<s, s>>
        /\ \A i \in 1..Len(q) : p[i] = q[i]
        BY <2>2, AppendProperties
  <2> HIDE DEF p
  <2>4. ASSUME NEW x PROVE x \in Covered(p) <=> x \in Covered(q) \cup {s}
    <3>1. x \in Covered(p) <=> \E i \in 1..(Len(q) + 1) : x \in p[i][1] .. p[i][2]
          BY <2>3 DEF Covered
    <3>2. x \in Covered(q) <=> \E i \in 1..Len(q) : x \in q[i][1] .. q[i][2]
          BY <1>0 DEF Covered
    <3>3. x \in p[Len(q) + 1][1] .. p[Len(q) + 1][2] <=> x = s
          BY <2>2, <2>3
    <3>4. 1..(Len(q) + 1) = (1..Len(q)) \cup {Len(q) + 1}
          BY <1>0
    <3>5. QED
          BY <2>3, <3>1, <3>2, <3>3, <3>4
  <2>5. QED
        BY <2>1, <2>3, <2>4
<1>3. QED
      BY <1>1, <1>2

\* contains says yes to the numbers the ranges cover, and to no other.
LEMMA HoldsCovered ==
  ASSUME NEW q \in Seq(Span), NEW s \in Nat
  PROVE  Holds(q, s) <=> s \in Covered(q)
<1>1. \A i \in DOMAIN q : q[i][1] \in Nat /\ q[i][2] \in Nat
  <2>1. \A i \in DOMAIN q : q[i] \in Span
        BY LenProperties
  <2>2. QED
        BY <2>1 DEF Span
<1>2. \A i \in DOMAIN q : s \in q[i][1] .. q[i][2] <=> q[i][1] <= s /\ s <= q[i][2]
      BY <1>1
<1>3. s \in Covered(q) <=> \E i \in DOMAIN q : s \in q[i][1] .. q[i][2]
      BY DEF Covered
<1>4. QED
      BY <1>2, <1>3 DEF Holds

LEMMA SeqNumNat == SeqNum \subseteq Nat
  BY ReceiveBounds DEF SeqNum

\* Every step but the two that accept a datagram or make the entry anew leaves the
\* queue, and the record of it, as they are.
LEMMA QueueStep ==
  ASSUME [Next]_vars
  PROVE  \/ \E s \in SeqNum : HandleFrames(s) /\ ~Holds(recv_queue, s)
         \/ recv_queue' = <<>> /\ received' = {}
         \/ UNCHANGED <<recv_queue, received>>
<1>1. CASE \E s \in SeqNum : HandleFrames(s)
      BY <1>1 DEF HandleFrames
<1>2. CASE Request1 \/ Request2 \/ Request2OfNewClient
      BY <1>2 DEF Request1, Request2, Request2OfNewClient, HandleRequest2, history
<1>3. CASE \/ \E k \in DOMAIN split_packets : SplitTimeout(k)
           \/ \E isStale \in BOOLEAN : TimeoutStale(isStale)
      BY <1>3 DEF SplitTimeout, TimeoutStale, history
<1>4. CASE (\E n \in 1..MaxParts : Send(n)) \/ SendPacked \/ Leave
      BY <1>4 DEF Send, SendPacked, Number, Leave, connection, history
<1>5. CASE \E a \in acks : AckArrives(a) \/ AckLost(a)
      BY <1>5 DEF AckArrives, AckLost, connection, history
<1>6. CASE UNCHANGED vars
      BY <1>6 DEF vars, connection, history
<1>7. QED
      BY <1>1, <1>2, <1>3, <1>4, <1>5, <1>6 DEF Next

LEMMA StepIInv ==
  ASSUME IInv, [Next]_vars
  PROVE  IInv'
<1>1. ASSUME NEW s \in SeqNum, HandleFrames(s), ~Holds(recv_queue, s) PROVE IInv'
  <2>1. recv_queue' = Push(recv_queue, s) /\ received' = received \cup {s}
        BY <1>1 DEF HandleFrames
  <2>2. QED
        BY <2>1, SeqNumNat, Pushed DEF IInv, QueueIsReceived
<1>2. CASE recv_queue' = <<>> /\ received' = {}
      BY <1>2 DEF IInv, QueueIsReceived, Covered
<1>3. CASE UNCHANGED <<recv_queue, received>>
      BY <1>3 DEF IInv, QueueIsReceived
<1>4. QED
      BY QueueStep, <1>1, <1>2, <1>3

\* The invariant.
THEOREM Invariance == Spec => []IInv
<1>1. Init => IInv
      BY DEF Init, IInv, QueueIsReceived, Covered
<1>2. QED
      BY <1>1, StepIInv, PTL DEF Spec

\* In whatever order numbers come, and however the ranges are broken up, the queue
\* holds those that were accepted.
THEOREM QueueCorrect == Spec => []QueueIsReceived
<1>1. IInv => QueueIsReceived
      BY DEF IInv
<1>2. QED
      BY <1>1, Invariance, PTL

\* A number that the entry has accepted is not accepted again: a datagram that
\* repeats it leaves queue, partials and payloads alone and is not acknowledged.
RepeatsAreIgnored ==
  [][\A s \in received : HandleFrames(s) => UNCHANGED <<connection, handed, acks>>]_vars

\* The same, of every behaviour.
THEOREM AcceptedOnce == Spec => RepeatsAreIgnored
<1>1. IInv /\ [Next]_vars =>
        [\A s \in received : HandleFrames(s) => UNCHANGED <<connection, handed, acks>>]_vars
  <2> SUFFICES ASSUME IInv, NEW s \in received, HandleFrames(s)
               PROVE  UNCHANGED <<connection, handed, acks>>
      OBVIOUS
  <2>1. recv_queue \in Seq(Span) /\ s \in Covered(recv_queue)
        BY DEF IInv, QueueIsReceived
  <2>2. s \in Nat
    <3>1. PICK i \in DOMAIN recv_queue : s \in recv_queue[i][1] .. recv_queue[i][2]
          BY <2>1 DEF Covered
    <3>2. recv_queue[i] \in Span
          BY <2>1, <3>1, LenProperties
    <3>3. QED
          BY <3>1, <3>2 DEF Span
  <2>3. Holds(recv_queue, s)
        BY <2>1, <2>2, HoldsCovered
  <2>4. QED
        BY <2>3 DEF HandleFrames, connection
<1>2. QED
      BY <1>1, Invariance, PTL DEF Spec, RepeatsAreIgnored

(***************************************************************************)
(* The invariant: what the client numbered and what was made of it         *)
(***************************************************************************)
\* The numbers of the present client's datagrams, and the frames of one of them.
Numbers == 0 .. (Len(datagrams) - 1)
FramesAt(s) == {datagrams[s + 1][i] : i \in DOMAIN datagrams[s + 1]}

\* The present client's messages are the last Len(sent) ones.
Own(m) == m \in Nat /\ m <= messages /\ messages < m + Len(sent)

\* Part q of the message that f is a part of.
PartOf(f, q) == [message |-> f.message, split |-> f.split, part |-> q, parts |-> f.parts]

\* A frame of datagram s; the other parts of a split one are in the datagrams around.
WellCut(s, f) ==
  /\ f \in Frame /\ Own(f.message) /\ f.part < f.parts
  /\ f.parts > 1 => /\ f.split + f.part = s /\ f.split + f.parts <= Len(datagrams)
                    /\ \A q \in 0..(f.parts - 1) :
                         datagrams[f.split + q + 1] = <<PartOf(f, q)>>

\* A datagram is one frame, or two that are not split.
OneOrTwo(d) ==
  \/ \E f \in Frame : d = <<f>>
  \/ \E f, g \in Frame : /\ d = <<f, g>> /\ f.message # g.message
                         /\ f.parts = 1 /\ g.parts = 1

\* The count of messages, and which are the present client's.
Counted ==
  /\ messages \in 0..MaxMessages /\ sent \in Seq(1..MaxMessages) /\ Len(sent) <= messages
  /\ \A i \in DOMAIN sent : sent[i] + Len(sent) = messages + i

\* What the client has numbered: every message is somewhere, in one place.
Sending ==
  /\ Counted
  /\ datagrams \in Seq(Seq(Frame)) /\ Len(datagrams) <= MaxDatagrams
  /\ \A s \in Numbers : OneOrTwo(datagrams[s + 1]) /\ \A f \in FramesAt(s) : WellCut(s, f)
  /\ \A s, t \in Numbers : \A f \in FramesAt(s), g \in FramesAt(t) :
       f.message = g.message => s + g.part = t + f.part
  /\ \A m \in Nat : Own(m) => \E s \in Numbers : \E f \in FramesAt(s) : f.message = m

\* f is a frame of the present client, in a datagram among seen.
From(f, seen) == \E s \in Numbers \cap seen : f \in FramesAt(s)

\* The frame at part i of the partial under split id k.
Kept(k, p, i, seen) ==
  LET f == p.parts[i] IN
  /\ f \in Frame /\ f.split = k /\ f.part = i /\ f.parts = p.count /\ f.message <= messages
  /\ Own(f.message) => From(f, seen)
  /\ fresh => Own(f.message)

\* The partial under split id k.
FormedPartial(k, p, seen) ==
  /\ p = [count |-> p.count, parts |-> p.parts, old |-> p.old]
  /\ k \in SeqNum /\ p.count \in 2..MaxParts /\ p.old \in BOOLEAN
  /\ DOMAIN p.parts # {} /\ DOMAIN p.parts \subseteq 0..(p.count - 1)
  /\ \A i \in DOMAIN p.parts : Kept(k, p, i, seen)

GoodPartial(k, p, seen) == FormedPartial(k, p, seen) /\ ~IsWhole(p)

\* Has the partial a first part, which is one of message m?
Begins(p, m) == 0 \in DOMAIN p.parts /\ p.parts[0].message = m

\* No two partials begin with the same message.
GoodPartials(packets, seen) ==
  /\ \A k \in DOMAIN packets : GoodPartial(k, packets[k], seen)
  /\ \A k, l \in DOMAIN packets : \A m \in 1..messages :
       Begins(packets[k], m) /\ Begins(packets[l], m) => k = l

\* All parts of one message, in order.
WholeMessage(b) == \A i \in DOMAIN b :
  b[i].message = b[1].message /\ b[i].part = i - 1 /\ b[i].parts = Len(b)

\* A payload begins with a first part, which no partial has; without a change of client
\* behind the entry's back it is a whole message.
GoodPayload(b, packets, seen) ==
  /\ b \in Seq(Frame) /\ b # <<>> /\ b[1].part = 0 /\ b[1].message <= messages
  /\ Own(b[1].message) => From(b[1], seen)
  /\ \A k \in DOMAIN packets : ~Begins(packets[k], b[1].message)
  /\ fresh => WholeMessage(b)

\* No two payloads begin with the same message.
GoodPayloads(payloads, packets, seen) ==
  /\ payloads \in Seq(Seq(Frame))
  /\ \A h \in DOMAIN payloads : GoodPayload(payloads[h], packets, seen)
  /\ \A g, h \in DOMAIN payloads : payloads[g][1].message = payloads[h][1].message => g = h

\* Is f a part of a partial?
IsKept(f, packets) ==
  /\ f.parts > 1 /\ f.split \in DOMAIN packets /\ f.part \in DOMAIN packets[f.split].parts
  /\ packets[f.split].parts[f.part] = f

\* Has message m been handed up?
IsHandedUp(m, payloads) == \E h \in DOMAIN payloads : payloads[h][1].message = m

\* Every frame that has been seen is kept, or its message was handed up or lost.
Accounted(payloads, packets, seen, lost) ==
  \A s \in Numbers \cap seen : \A f \in FramesAt(s) :
    \/ f.message \in lost
    \/ IsHandedUp(f.message, payloads)
    \/ IsKept(f, packets)

\* What is kept and handed up when the datagrams in seen have been read, and the
\* messages in lost expired.
Sorted(payloads, packets, seen, lost) ==
  /\ GoodPartials(packets, seen)
  /\ GoodPayloads(payloads, packets, seen)
  /\ fresh => Accounted(payloads, packets, seen, lost)

\* What the connection has made of the datagrams; for a client the entry was made for, the
\* numbers accepted are its own.
Reading ==
  /\ entry \in {"Absent", "Handshaking", "Connected"} /\ fresh \in BOOLEAN
  /\ received \subseteq SeqNum /\ arrived \subseteq Numbers
  /\ fresh => arrived = received
  /\ expired \subseteq 1..MaxMessages
  /\ Sorted(handed, split_packets, received, expired)

\* The queue, and types.
Rest ==
  /\ IInv
  /\ recv_queue \in Seq(SeqNum \X SeqNum)
  /\ client \in {"up", "gone"} /\ clients \in 1..MaxClients
  /\ client = "gone" => clients < MaxClients
  /\ unacked \subseteq SeqNum /\ acks \subseteq SUBSET SeqNum
  /\ losses \in 0..MaxAckLosses

\* The inductive invariant.
SInv == Sending /\ Reading /\ Rest

(***************************************************************************)
(* The client numbers datagrams                                            *)
(***************************************************************************)
\* The frames of a datagram.
FramesIn(d) == {d[i] : i \in DOMAIN d}

\* The ranges of a frame's fields.
LEMMA FrameFields ==
  ASSUME NEW f \in Frame
  PROVE  /\ f.message \in 1..MaxMessages /\ f.split \in Nat /\ f.part \in Nat
         /\ f.parts \in 1..MaxParts /\ f.parts \in Nat \ {0} /\ f.message \in Nat \ {0}
  BY ReceiveBounds DEF Frame

\* A number of the client's is that of a datagram, which is a sequence of frames.
LEMMA FramesOf ==
  ASSUME NEW s \in Numbers, datagrams \in Seq(Seq(Frame))
  PROVE  /\ s \in Nat /\ s + 1 \in 1..Len(datagrams) /\ datagrams[s + 1] \in Seq(Frame)
         /\ FramesAt(s) = FramesIn(datagrams[s + 1]) /\ FramesAt(s) \subseteq Frame
<1>1. s \in Nat /\ s + 1 \in 1..Len(datagrams)
      BY LenProperties DEF Numbers
<1>2. datagrams[s + 1] \in Seq(Frame)
      BY <1>1, ElementOfSeq
<1>3. QED
      BY <1>1, <1>2, LenProperties DEF FramesAt, FramesIn

\* What a client that goes on finds as it was.
Goes(n) ==
  /\ Len(datagrams') = Len(datagrams) + n
  /\ \A s \in Numbers : datagrams'[s + 1] = datagrams[s + 1]
  /\ messages \in Nat /\ messages' \in Nat /\ messages <= messages'
  /\ \A m \in Nat : m <= messages => (Own(m)' <=> Own(m))

\* A function from 1..n is a sequence.
LEMMA IsSeq ==
  ASSUME NEW S, NEW n \in Nat, NEW q \in [1..n -> S]
  PROVE  q \in Seq(S)
  BY SeqDef, Zenon

\* The client's messages are still the last ones when it numbers more.
LEMMA NumberCounts ==
  ASSUME Counted, NEW ds, NEW ms \in Seq(Nat), Number(ds, ms),
         \A i \in 1..Len(ms) : ms[i] = messages + i
  PROVE  /\ Counted' /\ messages' = messages + Len(ms)
         /\ \A m \in Nat : Own(m)' <=> (Own(m) \/ m \in (messages + 1)..(messages + Len(ms)))
<1> DEFINE k == Len(ms)
           l == Len(sent)
<1>1. /\ k \in Nat /\ l \in Nat /\ messages \in Nat /\ l <= messages
      /\ sent \in Seq(1..MaxMessages) /\ DOMAIN sent = 1..l /\ DOMAIN ms = 1..k
      /\ \A i \in 1..l : sent[i] \in 1..MaxMessages
      /\ \A i \in 1..l : sent[i] + l = messages + i
  <2>1. sent \in Seq(1..MaxMessages) /\ messages \in Nat /\ l <= messages
        BY ReceiveBounds DEF Counted
  <2>2. l \in Nat /\ DOMAIN sent = 1..l /\ k \in Nat /\ DOMAIN ms = 1..k
        BY <2>1, LenProperties
  <2>3. \A i \in 1..l : sent[i] \in 1..MaxMessages
        BY <2>1, ElementOfSeq
  <2>4. QED
        BY <2>1, <2>2, <2>3 DEF Counted
<1>2. /\ messages' = messages + k /\ messages + k <= MaxMessages /\ MaxMessages \in Nat
      /\ sent' = sent \o ms
      BY ReceiveBounds DEF Number
<1>3. \A i \in 1..k : ms[i] = messages + i
      OBVIOUS
<1> HIDE DEF k, l
<1>4. \A i \in 1..k : ms[i] \in 1..MaxMessages
      BY <1>1, <1>2, <1>3
<1>5. ms \in Seq(1..MaxMessages)
  <2>1. ms \in [1..k -> Nat]
        BY LenProperties DEF k
  <2>2. ms \in [1..k -> 1..MaxMessages]
        BY <1>4, <2>1
  <2>3. QED
        BY <1>1, <2>2, IsSeq
<1>6. /\ sent' \in Seq(1..MaxMessages) /\ Len(sent') = l + k
      /\ \A i \in 1..(l + k) : sent'[i] = IF i <= l THEN sent[i] ELSE ms[i - l]
      BY <1>1, <1>2, <1>5, ConcatProperties DEF k, l
<1>7. DOMAIN sent' = 1..(l + k)
      BY <1>6, LenProperties
<1>8. ASSUME NEW i \in 1..(l + k) PROVE sent'[i] + (l + k) = (messages + k) + i
  <2>1. CASE i <= l
    <3>1. i \in 1..l /\ sent'[i] = sent[i] /\ i \in Nat
          BY <1>1, <1>6, <2>1
    <3>2. sent[i] + l = messages + i /\ sent[i] \in Nat
          BY <1>1, <1>2, <3>1
    <3>3. \A x, y \in Nat : x + l = messages + y => x + (l + k) = (messages + k) + y
          BY <1>1
    <3>4. sent[i] + (l + k) = (messages + k) + i
          BY <3>1, <3>2, <3>3
    <3>5. QED
          BY <3>1, <3>4
  <2>2. CASE ~(i <= l)
    <3>1. i - l \in 1..k /\ sent'[i] = ms[i - l] /\ i \in Nat
          BY <1>1, <1>6, <2>2
    <3>2. ms[i - l] = messages + (i - l)
          BY <1>3, <3>1
    <3>3. QED
          BY <1>1, <3>1, <3>2
  <2>3. QED
        BY <2>1, <2>2
<1>9. Counted'
  <2>1. messages' \in 0..MaxMessages /\ Len(sent') <= messages'
        BY <1>1, <1>2, <1>6
  <2>2. \A i \in DOMAIN sent' : sent'[i] + Len(sent') = messages' + i
        BY <1>2, <1>6, <1>7, <1>8
  <2>3. QED
        BY <1>6, <2>1, <2>2 DEF Counted
<1>10. \A m \in Nat : Own(m)' <=> (Own(m) \/ m \in (messages + 1)..(messages + k))
       BY <1>1, <1>2, <1>6 DEF Own, l
<1>11. QED
       BY <1>2, <1>9, <1>10 DEF k

\* The datagrams there were keep number and frames, and the new ones follow them.
LEMMA NumberGrows ==
  ASSUME datagrams \in Seq(Seq(Frame)), NEW ds \in Seq(Seq(Frame)), NEW ms, Number(ds, ms),
         NEW L, L = Len(datagrams)
  PROVE  /\ datagrams' \in Seq(Seq(Frame)) /\ Len(datagrams') = L + Len(ds)
         /\ L + Len(ds) <= MaxDatagrams
         /\ \A s \in Numbers : /\ s \in Nat /\ s < L /\ s \in Numbers'
                               /\ datagrams'[s + 1] = datagrams[s + 1]
                               /\ FramesAt(s)' = FramesAt(s)
         /\ \A j \in 1..Len(ds) : /\ L + j - 1 \in Numbers'
                                  /\ datagrams'[L + j] = ds[j]
                                  /\ FramesAt(L + j - 1)' = FramesIn(ds[j])
         /\ \A s \in Numbers' \ Numbers : s - L + 1 \in 1..Len(ds) /\ s = L + (s - L + 1) - 1
<1> DEFINE n == Len(ds)
<1>1. L \in Nat /\ n \in Nat
      BY LenProperties
<1>2. /\ datagrams' \in Seq(Seq(Frame)) /\ Len(datagrams') = L + n
      /\ \A i \in 1..(L + n) : datagrams'[i] = IF i <= L THEN datagrams[i] ELSE ds[i - L]
      BY ConcatProperties DEF Number
<1>3. L + n <= MaxDatagrams
      BY DEF Number
<1>4. Numbers = 0..(L - 1) /\ Numbers' = 0..(L + n - 1)
      BY <1>2 DEF Numbers
<1> HIDE DEF n
<1>5. ASSUME NEW s \in Numbers
      PROVE  s \in Nat /\ s < L /\ s \in Numbers' /\ datagrams'[s + 1] = datagrams[s + 1]
  <2>1. s \in Nat /\ s + 1 \in 1..(L + n) /\ s + 1 <= L /\ s < L /\ s \in Numbers'
        BY <1>1, <1>4
  <2>2. QED
        BY <1>2, <2>1
<1>6. ASSUME NEW j \in 1..n
      PROVE  L + j - 1 \in Numbers' /\ datagrams'[L + j] = ds[j] /\ (L + j - 1) + 1 = L + j
  <2>1. /\ L + j \in 1..(L + n) /\ ~(L + j <= L) /\ (L + j) - L = j
        /\ L + j - 1 \in Numbers' /\ (L + j - 1) + 1 = L + j
        BY <1>1, <1>4
  <2>2. QED
        BY <1>2, <2>1
<1>7. \A s \in Numbers' \ Numbers : s - L + 1 \in 1..n /\ s = L + (s - L + 1) - 1
      BY <1>1, <1>4
<1>8. \A s \in Numbers : FramesAt(s)' = FramesAt(s)
      BY <1>5 DEF FramesAt
<1>9. \A j \in 1..n : FramesAt(L + j - 1)' = FramesIn(ds[j])
  <2>1. ASSUME NEW j \in 1..n PROVE FramesAt(L + j - 1)' = FramesIn(ds[j])
    <3> DEFINE s == L + j - 1
    <3>1. datagrams'[s + 1] = ds[j]
          BY <1>6
    <3> HIDE DEF s
    <3>2. FramesAt(s)' = FramesIn(ds[j])
          BY <3>1 DEF FramesAt, FramesIn
    <3>3. QED
          BY <3>2 DEF s
  <2>2. QED
        BY <2>1
<1>10. QED
  <2>1. \A j \in 1..n : L + j - 1 \in Numbers' /\ datagrams'[L + j] = ds[j]
        BY <1>6
  <2>2. QED
        BY <1>2, <1>3, <1>5, <1>7, <1>8, <1>9, <2>1 DEF n

\* The datagrams ds hold the messages ms, which are new.
Holding(ds, ms) ==
  /\ \A i \in 1..Len(ms) : ms[i] = messages + i
  /\ \A j \in 1..Len(ds) : OneOrTwo(ds[j]) /\ \A f \in FramesIn(ds[j]) :
       /\ f \in Frame /\ f.message \in (messages + 1)..(messages + Len(ms)) /\ f.part < f.parts
       /\ f.parts > 1 => /\ f.split = Len(datagrams) /\ f.part = j - 1 /\ f.parts = Len(ds)
                         /\ \A q \in 0..(f.parts - 1) : ds[q + 1] = <<PartOf(f, q)>>
  /\ \A i, j \in 1..Len(ds) : \A e \in FramesIn(ds[i]), f \in FramesIn(ds[j]) :
       e.message = f.message => i + f.part = j + e.part
  /\ \A m \in (messages + 1)..(messages + Len(ms)) :
       \E j \in 1..Len(ds) : \E f \in FramesIn(ds[j]) : f.message = m

\* The client numbers well-formed datagrams ds that hold its messages ms.
LEMMA Numbering ==
  ASSUME Sending, NEW ds \in Seq(Seq(Frame)), NEW ms \in Seq(Nat), Number(ds, ms),
         Holding(ds, ms)
  PROVE  Sending' /\ Goes(Len(ds))
<1>0. PICK L : L = Len(datagrams)
      OBVIOUS
<1> DEFINE n == Len(ds)
           k == Len(ms)
           At(j) == L + j - 1
<1>1. /\ L \in Nat /\ n \in Nat /\ k \in Nat /\ messages \in Nat
      BY <1>0, LenProperties, ReceiveBounds DEF Sending, Counted
<1>2. /\ Counted' /\ messages' = messages + k
      /\ \A m \in Nat : Own(m)' <=> (Own(m) \/ m \in (messages + 1)..(messages + k))
      BY NumberCounts DEF Sending, Holding
<1>3. /\ datagrams' \in Seq(Seq(Frame)) /\ Len(datagrams') = L + n /\ L + n <= MaxDatagrams
      /\ \A s \in Numbers : /\ s \in Nat /\ s < L /\ s \in Numbers'
                            /\ datagrams'[s + 1] = datagrams[s + 1]
                            /\ FramesAt(s)' = FramesAt(s)
      /\ \A j \in 1..n : /\ At(j) \in Numbers' /\ datagrams'[L + j] = ds[j]
                         /\ FramesAt(At(j))' = FramesIn(ds[j])
      /\ \A s \in Numbers' : s \in Numbers \/ \E j \in 1..n : s = At(j)
  <2>1. datagrams \in Seq(Seq(Frame))
        BY DEF Sending
  <2>2. datagrams' \in Seq(Seq(Frame)) /\ Len(datagrams') = L + n /\ L + n <= MaxDatagrams
        BY <1>0, <2>1, NumberGrows
  <2>3. \A s \in Numbers : /\ s \in Nat /\ s < L /\ s \in Numbers'
                            /\ datagrams'[s + 1] = datagrams[s + 1]
                            /\ FramesAt(s)' = FramesAt(s)
        BY <1>0, <2>1, NumberGrows
  <2>4. \A j \in 1..n : At(j) \in Numbers' /\ datagrams'[L + j] = ds[j]
        BY <1>0, <2>1, NumberGrows
  <2>5. \A j \in 1..n : FramesAt(At(j))' = FramesIn(ds[j])
        BY <1>0, <2>1, NumberGrows
  <2>6. ASSUME NEW s \in Numbers', ~(s \in Numbers) PROVE \E j \in 1..n : s = At(j)
    <3>1. s - L + 1 \in 1..n /\ s = At(s - L + 1)
          BY <1>0, <2>1, <2>6, NumberGrows
    <3>2. QED
          BY <3>1
  <2>7. QED
        BY <2>2, <2>3, <2>4, <2>5, <2>6
<1>4. \A j \in 1..n : At(j) + 1 = L + j /\ At(j) \in Nat
      BY <1>1
<1>5. \A m \in Nat : m <= messages => (Own(m)' <=> Own(m))
      BY <1>1, <1>2
<1>6. Goes(n)
      BY <1>0, <1>1, <1>2, <1>3, <1>5 DEF Goes
<1>7. ASSUME NEW j \in 1..n
      PROVE  /\ OneOrTwo(ds[j])
             /\ \A f \in FramesIn(ds[j]) :
                  /\ f \in Frame /\ f.message \in (messages + 1)..(messages + k) /\ f.part < f.parts
                  /\ f.parts > 1 =>
                       /\ f.split = L /\ f.part = j - 1 /\ f.parts = n
                       /\ \A q \in 0..(f.parts - 1) : ds[q + 1] = <<PartOf(f, q)>>
      BY <1>0 DEF Holding
<1> HIDE DEF n, k, At
<1>8. \A s \in Numbers' : OneOrTwo(datagrams'[s + 1])
  <2>1. ASSUME NEW s \in Numbers PROVE OneOrTwo(datagrams'[s + 1])
    <3>1. OneOrTwo(datagrams[s + 1])
          BY DEF Sending
    <3>2. QED
          BY <1>3, <3>1
  <2>2. ASSUME NEW j \in 1..n PROVE OneOrTwo(datagrams'[At(j) + 1])
    <3>1. At(j) + 1 = L + j
          BY <1>4
    <3>2. QED
          BY <1>3, <1>7, <3>1
  <2>3. QED
        BY <1>3, <2>1, <2>2
<1>9. ASSUME NEW s \in Numbers, NEW f \in FramesAt(s) PROVE WellCut(s, f)'
  <2>1. WellCut(s, f)
        BY <1>9 DEF Sending
  <2>2. f \in Frame /\ Own(f.message)'
        BY <1>2, <2>1, FrameFields DEF WellCut
  <2>3. ASSUME f.parts > 1, NEW q \in 0..(f.parts - 1)
        PROVE  /\ f.split + f.parts <= L + n
               /\ datagrams'[f.split + q + 1] = <<PartOf(f, q)>>
    <3>1. /\ f.split + f.parts <= L /\ f.split \in Nat /\ f.parts \in Nat
          /\ datagrams[f.split + q + 1] = <<PartOf(f, q)>>
          BY <1>0, <2>1, <2>3, FrameFields DEF WellCut
    <3>2. f.split + q \in 0..(L - 1)
          BY <1>1, <3>1
    <3>3. f.split + q \in Numbers
          BY <1>0, <3>2 DEF Numbers
    <3>4. datagrams'[(f.split + q) + 1] = datagrams[(f.split + q) + 1]
          BY <1>3, <3>3
    <3>5. f.split + f.parts <= L + n
          BY <1>1, <3>1
    <3>6. QED
          BY <3>1, <3>4, <3>5
  <2>4. f.parts > 1 => f.split + f.part = s /\ f.split + f.parts <= L + n
    <3>1. f.parts > 1 => f.split + f.part = s /\ f.split + f.parts <= L
          BY <1>0, <2>1 DEF WellCut
    <3>2. QED
          BY <1>1, <2>2, <3>1, FrameFields
  <2>5. QED
        BY <1>3, <2>1, <2>2, <2>3, <2>4 DEF WellCut
<1>10. ASSUME NEW j \in 1..n, NEW f \in FramesIn(ds[j]) PROVE WellCut(At(j), f)'
  <2>1. /\ f \in Frame /\ f.message \in (messages + 1)..(messages + k) /\ f.part < f.parts
        /\ f.parts > 1 => /\ f.split = L /\ f.part = j - 1 /\ f.parts = n
                          /\ \A q \in 0..(f.parts - 1) : ds[q + 1] = <<PartOf(f, q)>>
        BY <1>7, <1>10
  <2>2. Own(f.message)'
        BY <1>2, <2>1, FrameFields
  <2>3. ASSUME f.parts > 1, NEW q \in 0..(f.parts - 1)
        PROVE  datagrams'[f.split + q + 1] = <<PartOf(f, q)>>
    <3>1. f.parts = n /\ q + 1 \in 1..n /\ L + (q + 1) = L + q + 1
          BY <1>1, <2>1, <2>3
    <3>2. datagrams'[L + (q + 1)] = ds[q + 1]
          BY <1>3, <3>1
    <3>3. f.split = L /\ ds[q + 1] = <<PartOf(f, q)>>
          BY <2>1, <2>3
    <3>4. QED
          BY <3>1, <3>2, <3>3
  <2>4. f.parts > 1 => f.split + f.part = At(j) /\ f.split + f.parts <= L + n
        BY <1>1, <2>1 DEF At
  <2>5. QED
        BY <1>3, <2>1, <2>2, <2>3, <2>4 DEF WellCut
<1>11. \A s \in Numbers' : \A f \in FramesAt(s)' : WellCut(s, f)'
  <2>1. ASSUME NEW s \in Numbers' PROVE \A f \in FramesAt(s)' : WellCut(s, f)'
        BY <1>3, <1>9, <1>10
  <2>2. QED
        BY <2>1
<1>12. ASSUME NEW r \in Numbers, NEW e \in FramesAt(r) PROVE e.message <= messages /\ e \in Frame
       BY <1>12 DEF Sending, WellCut, Own
<1>13. ASSUME NEW j \in 1..n, NEW e \in FramesIn(ds[j])
       PROVE  ~(e.message <= messages) /\ e \in Frame
  <2>1. e.message \in (messages + 1)..(messages + k) /\ e \in Frame
        BY <1>7, <1>13
  <2>2. QED
        BY <1>1, <2>1
<1>14. ASSUME NEW s \in Numbers', NEW t \in Numbers',
              NEW f \in FramesAt(s)', NEW g \in FramesAt(t)', f.message = g.message
       PROVE  s + g.part = t + f.part
  <2>1. CASE s \in Numbers /\ t \in Numbers
        BY <1>3, <1>14, <2>1 DEF Sending
  <2>2. ASSUME NEW i \in 1..n, NEW j \in 1..n, s = At(i), t = At(j)
        PROVE  s + g.part = t + f.part
    <3>1. f \in FramesIn(ds[i]) /\ g \in FramesIn(ds[j])
          BY <1>3, <1>14, <2>2
    <3>2. i + g.part = j + f.part
          BY <1>14, <3>1 DEF Holding, n
    <3>3. f.part \in Nat /\ g.part \in Nat
          BY <1>13, <3>1, FrameFields
    <3>4. \A x, y \in Nat : i + x = j + y => (L + i - 1) + x = (L + j - 1) + y
          BY <1>1
    <3>5. QED
          BY <2>2, <3>2, <3>3, <3>4 DEF At
  <2>3. ASSUME s \in Numbers, NEW j \in 1..n, t = At(j) PROVE FALSE
    <3>1. f \in FramesAt(s) /\ g \in FramesIn(ds[j])
          BY <1>3, <1>14, <2>3
    <3>2. QED
          BY <1>12, <1>13, <1>14, <2>3, <3>1
  <2>4. ASSUME t \in Numbers, NEW j \in 1..n, s = At(j) PROVE FALSE
    <3>1. g \in FramesAt(t) /\ f \in FramesIn(ds[j])
          BY <1>3, <1>14, <2>4
    <3>2. QED
          BY <1>12, <1>13, <1>14, <2>4, <3>1
  <2>5. QED
        BY <1>3, <2>1, <2>2, <2>3, <2>4
<1>15. ASSUME NEW m \in Nat, Own(m)' PROVE \E s \in Numbers' : \E f \in FramesAt(s)' : f.message = m
  <2>1. CASE Own(m)
    <3>1. PICK s \in Numbers : \E f \in FramesAt(s) : f.message = m
          BY <2>1 DEF Sending
    <3>2. QED
          BY <1>3, <3>1
  <2>2. CASE m \in (messages + 1)..(messages + k)
    <3>1. PICK j \in 1..n : \E f \in FramesIn(ds[j]) : f.message = m
          BY <2>2 DEF Holding, n, k
    <3>2. At(j) \in Numbers' /\ FramesAt(At(j))' = FramesIn(ds[j])
          BY <1>3
    <3>3. QED
          BY <3>1, <3>2
  <2>3. QED
        BY <1>2, <1>15, <2>1, <2>2
<1>16. QED
  <2>1. \A s, t \in Numbers' : \A f \in FramesAt(s)', g \in FramesAt(t)' :
          f.message = g.message => s + g.part = t + f.part
        BY <1>14
  <2>2. \A m \in Nat : Own(m)' => \E s \in Numbers' : \E f \in FramesAt(s)' : f.message = m
        BY <1>15
  <2>3. Sending'
        BY <1>2, <1>3, <1>8, <1>11, <2>1, <2>2 DEF Sending, OneOrTwo
  <2>4. QED
        BY <1>6, <2>3 DEF n

\* The frames of a datagram of one, and of two.
LEMMA TwoIn ==
  /\ \A e : FramesIn(<<e>>) = {e}
  /\ \A e, f : FramesIn(<<e, f>>) = {e, f}
  BY DEF FramesIn

\* One message, cut into n datagrams.
LEMMA SendNumbers ==
  ASSUME Sending, NEW n \in 1..MaxParts, Send(n)
  PROVE  Sending' /\ Goes(n)
<1> DEFINE F(i) == [message |-> messages + 1, split |-> Len(datagrams), part |-> i - 1, parts |-> n]
           ds == [i \in 1..n |-> <<F(i)>>]
           ms == <<messages + 1>>
<1>1. /\ n \in Nat /\ n # 0 /\ messages \in Nat /\ Len(datagrams) \in Nat
      BY LenProperties, ReceiveBounds DEF Sending, Counted
<1>2. /\ ms \in Seq(Nat) /\ Len(ms) = 1 /\ ms[1] = messages + 1
      BY <1>1
<1>3. messages + 1 <= MaxMessages /\ MaxMessages \in Nat
      BY <1>2, ReceiveBounds DEF Send, Number
<1>4. \A i \in 1..n : F(i) \in Frame
      BY <1>1, <1>3 DEF Frame
<1>5. ds \in [1..n -> Seq(Frame)] /\ DOMAIN ds = 1..n
      BY <1>4
<1>6. ds \in Seq(Seq(Frame)) /\ Len(ds) = n
  <2>1. ds \in Seq(Seq(Frame))
        BY <1>1, <1>5, IsSeq
  <2>2. QED
        BY <1>1, <1>5, <2>1, LenProperties
<1>7. Number(ds, ms)
      BY DEF Send
<1>8. \A i \in 1..n : /\ ds[i] = <<F(i)>> /\ FramesIn(ds[i]) = {F(i)}
                      /\ F(i).message = messages + 1 /\ F(i).split = Len(datagrams)
                      /\ F(i).part = i - 1 /\ F(i).parts = n
                      /\ \A q \in 0..(n - 1) : PartOf(F(i), q) = F(q + 1)
      BY <1>1, TwoIn DEF PartOf
<1> HIDE DEF ds, F
<1>9. \A j \in 1..n : OneOrTwo(ds[j])
      BY <1>4, <1>8 DEF OneOrTwo
<1>10. ASSUME NEW j \in 1..n
       PROVE  LET f == F(j) IN
              /\ f \in Frame /\ f.part < f.parts
              /\ f.message \in (messages + 1)..(messages + Len(ms))
              /\ f.split = Len(datagrams) /\ f.part = j - 1 /\ f.parts = Len(ds)
              /\ \A q \in 0..(f.parts - 1) : ds[q + 1] = <<PartOf(f, q)>>
  <2>1. F(j).part < F(j).parts /\ F(j).message \in (messages + 1)..(messages + 1)
        BY <1>1, <1>8
  <2>2. ASSUME NEW q \in 0..(n - 1) PROVE ds[q + 1] = <<PartOf(F(j), q)>>
    <3>1. q + 1 \in 1..n
          BY <1>1
    <3>2. QED
          BY <1>8, <3>1
  <2>3. QED
        BY <1>2, <1>4, <1>6, <1>8, <2>1, <2>2
<1>11. \A i, j \in 1..n : i + F(j).part = j + F(i).part
       BY <1>1, <1>8
<1>12. \A m \in (messages + 1)..(messages + Len(ms)) : m = F(1).message /\ 1 \in 1..n
       BY <1>1, <1>2, <1>8
<1>13. \A i \in 1..Len(ms) : ms[i] = messages + i
       BY <1>2
<1>14. Holding(ds, ms)
  <2>1. \A j \in 1..Len(ds) : OneOrTwo(ds[j]) /\ \A f \in FramesIn(ds[j]) :
          /\ f \in Frame /\ f.message \in (messages + 1)..(messages + Len(ms)) /\ f.part < f.parts
          /\ f.parts > 1 => /\ f.split = Len(datagrams) /\ f.part = j - 1 /\ f.parts = Len(ds)
                            /\ \A q \in 0..(f.parts - 1) : ds[q + 1] = <<PartOf(f, q)>>
    <3>1. ASSUME NEW j \in 1..n, NEW f \in FramesIn(ds[j]) PROVE f = F(j)
          BY <1>8, <3>1
    <3>2. QED
          BY <1>6, <1>9, <1>10, <3>1
  <2>2. \A i, j \in 1..Len(ds) : \A e \in FramesIn(ds[i]), f \in FramesIn(ds[j]) :
          e.message = f.message => i + f.part = j + e.part
    <3>1. ASSUME NEW i \in 1..n, NEW j \in 1..n,
                 NEW e \in FramesIn(ds[i]), NEW f \in FramesIn(ds[j])
          PROVE  i + f.part = j + e.part
      <4>1. e = F(i) /\ f = F(j)
            BY <1>8, <3>1
      <4>2. QED
            BY <1>11, <4>1
    <3>2. QED
          BY <1>6, <3>1
  <2>3. \A m \in (messages + 1)..(messages + Len(ms)) :
          \E j \in 1..Len(ds) : \E f \in FramesIn(ds[j]) : f.message = m
    <3>1. 1 \in 1..Len(ds) /\ F(1) \in FramesIn(ds[1])
          BY <1>1, <1>6, <1>8
    <3>2. QED
          BY <1>12, <3>1
  <2>4. QED
        BY <1>13, <2>1, <2>2, <2>3 DEF Holding
<1>15. QED
       BY <1>2, <1>6, <1>7, <1>14, Numbering

\* Two messages in one datagram.
LEMMA SendPackedNumbers ==
  ASSUME Sending, SendPacked
  PROVE  Sending' /\ Goes(1)
<1> DEFINE F(i) == [message |-> messages + i, split |-> 0, part |-> 0, parts |-> 1]
           ds == <<[i \in 1..2 |-> F(i)]>>
           ms == <<messages + 1, messages + 2>>
<1>1. messages \in Nat /\ Len(datagrams) \in Nat
      BY LenProperties, ReceiveBounds DEF Sending, Counted
<1>2. /\ ms \in Seq(Nat) /\ Len(ms) = 2 /\ ms[1] = messages + 1 /\ ms[2] = messages + 2
      BY <1>1
<1>3. messages + 2 <= MaxMessages /\ MaxMessages \in Nat
      BY <1>2, ReceiveBounds DEF SendPacked, Number
<1>4. F(1) \in Frame /\ F(2) \in Frame
      BY <1>1, <1>3, ReceiveBounds DEF Frame
<1>5. [i \in 1..2 |-> F(i)] = <<F(1), F(2)>>
      OBVIOUS
<1>6. /\ ds \in Seq(Seq(Frame)) /\ Len(ds) = 1 /\ ds[1] = <<F(1), F(2)>>
      /\ FramesIn(ds[1]) = {F(1), F(2)}
      BY <1>4, <1>5, TwoIn
<1>7. Number(ds, ms)
      BY DEF SendPacked
<1>8. \A i \in {1, 2} : /\ F(i).message = messages + i /\ F(i).part = 0 /\ F(i).parts = 1
      OBVIOUS
<1> HIDE DEF ds, F
<1>9. F(1).message # F(2).message
      BY <1>1, <1>8
<1>10. OneOrTwo(ds[1])
       BY <1>4, <1>6, <1>8, <1>9 DEF OneOrTwo
<1>11. \A f \in FramesIn(ds[1]) :
         /\ f \in Frame /\ f.message \in (messages + 1)..(messages + Len(ms)) /\ f.part < f.parts
         /\ ~(f.parts > 1) /\ f.part = 0
  <2>1. \A i \in {1, 2} : F(i).message \in (messages + 1)..(messages + 2)
        BY <1>1, <1>8
  <2>2. QED
        BY <1>2, <1>4, <1>6, <1>8, <2>1
<1>12. \A m \in (messages + 1)..(messages + Len(ms)) : m = F(1).message \/ m = F(2).message
       BY <1>1, <1>2, <1>8
<1>13. \A i \in 1..Len(ms) : ms[i] = messages + i
       BY <1>2
<1>14. \A j \in 1..Len(ds) : j = 1
       BY <1>6
<1>15. \A m \in (messages + 1)..(messages + Len(ms)) :
         \E j \in 1..Len(ds) : \E f \in FramesIn(ds[j]) : f.message = m
       BY <1>6, <1>12
<1>16. \A i, j \in 1..Len(ds) : \A e \in FramesIn(ds[i]), f \in FramesIn(ds[j]) :
         e.message = f.message => i + f.part = j + e.part
       BY <1>11, <1>14
<1>17. Holding(ds, ms)
       BY <1>10, <1>11, <1>13, <1>14, <1>15, <1>16 DEF Holding
<1>18. QED
       BY <1>2, <1>6, <1>7, <1>17, Numbering

(***************************************************************************)
(* The frames of a datagram, fed in turn                                   *)
(***************************************************************************)
\* What the frames of a datagram are fed to.
Base(packets) == [packets |-> packets, done |-> <<>>]

\* A datagram of one frame feeds it.
LEMMA FeedOne ==
  ASSUME NEW packets, NEW f, NEW d, d = <<f>>
  PROVE  FeedAll(packets, d) = Feed(Base(packets), f)
<1> DEFINE b == Base(packets)
           Step(g) == [S \in SUBSET {1} |->
                         IF S = {} THEN b ELSE Feed(g[S \ {Max(S)}], d[Max(S)])]
<1> HIDE DEF b
<1>1. DOMAIN d = {1} /\ d[1] = f
      OBVIOUS
<1>2. Max({1}) = 1
      BY DEF Max
<1>3. ASSUME NEW g, g = Step(g) PROVE g[{1}] = Feed(b, f)
  <2>1. g[{}] = b
        BY <1>3
  <2>2. g[{1}] = Feed(g[{1} \ {Max({1})}], d[Max({1})])
        BY <1>3
  <2>3. {1} \ {Max({1})} = {}
        BY <1>2
  <2>4. QED
        BY <2>1, <2>2, <2>3, <1>1, <1>2
<1>4. \E g : g = Step(g)
  <2> DEFINE h == [S \in SUBSET {1} |-> IF S = {} THEN b ELSE Feed(b, f)]
  <2>1. ASSUME NEW S \in SUBSET {1} PROVE Step(h)[S] = h[S]
    <3>1. CASE S = {}
          BY <3>1
    <3>2. CASE S = {1}
          BY <1>1, <1>2, <3>2
    <3>3. QED
          BY <3>1, <3>2
  <2>2. Step(h) = h
        BY <2>1
  <2>3. QED
        BY <2>2
<1>5. FeedAll(packets, d) = (CHOOSE g : g = Step(g))[{1}]
      BY <1>1 DEF b, FeedAll, Base, FoldLeft, MapThenFoldSet
<1>6. QED
      BY <1>3, <1>4, <1>5 DEF b

\* A datagram of two frames feeds the first, then the second.
LEMMA FeedTwo ==
  ASSUME NEW packets, NEW e, NEW f, NEW d, d = <<e, f>>
  PROVE  FeedAll(packets, d) = Feed(Feed(Base(packets), e), f)
<1> DEFINE b == Base(packets)
           Step(g) == [S \in SUBSET {1, 2} |->
                         IF S = {} THEN b ELSE Feed(g[S \ {Max(S)}], d[Max(S)])]
<1> HIDE DEF b
<1>1. DOMAIN d = {1, 2} /\ d[1] = e /\ d[2] = f
      OBVIOUS
<1>2. Max({1}) = 1 /\ Max({2}) = 2 /\ Max({1, 2}) = 2
      BY DEF Max
<1>3. {1} \ {1} = {} /\ {2} \ {2} = {} /\ {1, 2} \ {2} = {1}
      OBVIOUS
<1>4. ASSUME NEW g, g = Step(g) PROVE g[{1, 2}] = Feed(Feed(b, e), f)
  <2>1. g[{}] = b
        BY <1>4
  <2>2. g[{1}] = Feed(g[{1} \ {Max({1})}], d[Max({1})])
        BY <1>4
  <2>3. g[{1, 2}] = Feed(g[{1, 2} \ {Max({1, 2})}], d[Max({1, 2})])
        BY <1>4
  <2>4. QED
        BY <2>1, <2>2, <2>3, <1>1, <1>2, <1>3
<1>5. \E g : g = Step(g)
  <2> DEFINE h == [S \in SUBSET {1, 2} |->
                     IF S = {} THEN b
                     ELSE IF S = {1} THEN Feed(b, e)
                     ELSE IF S = {2} THEN Feed(b, f) ELSE Feed(Feed(b, e), f)]
  <2>1. ASSUME NEW S \in SUBSET {1, 2} PROVE Step(h)[S] = h[S]
    <3>1. CASE S = {}
          BY <3>1
    <3>2. CASE S = {1}
          BY <1>1, <1>2, <1>3, <3>2
    <3>3. CASE S = {2}
          BY <1>1, <1>2, <1>3, <3>3
    <3>4. CASE S = {1, 2}
          BY <1>1, <1>2, <1>3, <3>4
    <3>5. QED
          BY <3>1, <3>2, <3>3, <3>4
  <2>2. Step(h) = h
        BY <2>1
  <2>3. QED
        BY <2>2
<1>6. FeedAll(packets, d) = (CHOOSE g : g = Step(g))[{1, 2}]
      BY <1>1 DEF b, FeedAll, Base, FoldLeft, MapThenFoldSet
<1>7. QED
      BY <1>4, <1>5, <1>6 DEF b

\* A partial whose parts are among those it waits for is whole when it has them all.
LEMMA Whole ==
  ASSUME NEW p, p.count \in Nat, DOMAIN p.parts \subseteq 0..(p.count - 1)
  PROVE  IsWhole(p) <=> DOMAIN p.parts = 0..(p.count - 1)
<1> DEFINE n == p.count
           S == 0..(n - 1)
<1>1. n - 1 \in Int /\ 0 \in Int
      OBVIOUS
<1>2. /\ IsFiniteSet(S)
      /\ Cardinality(S) = IF 0 > n - 1 THEN 0 ELSE (n - 1) - 0 + 1
  <2> HIDE DEF n
  <2>1. QED
        BY <1>1, FS_Interval, Zenon
<1>3. Cardinality(0..(p.count - 1)) = p.count
      BY <1>2
<1>4. QED
      BY <1>2, <1>3, FS_Subset DEF IsWhole

\* The payload made of a whole partial.
PayloadOf(p) == [i \in 1..p.count |-> p.parts[i - 1]]

\* What comes of a datagram: its frame, or both, is handed up; or its part completes a
\* partial, which goes; or its part is stored.
LEMMA Fed ==
  ASSUME NEW packets, NEW d, OneOrTwo(d)
  PROVE  LET fed == FeedAll(packets, d) IN
         \/ \E f \in Frame : /\ d = <<f>> /\ f.parts = 1
                             /\ fed.packets = packets /\ fed.done = <<<<f>>>>
         \/ \E f, g \in Frame : /\ d = <<f, g>> /\ f.message # g.message
                                /\ f.parts = 1 /\ g.parts = 1
                                /\ fed.packets = packets /\ fed.done = Append(<<<<f>>>>, <<g>>)
         \/ \E f \in Frame : /\ d = <<f>> /\ f.parts # 1
                             /\ IsWhole(PartialWith(packets, f))
                             /\ fed.packets = Without(packets, {f.split})
                             /\ fed.done = <<PayloadOf(PartialWith(packets, f))>>
         \/ \E f \in Frame : /\ d = <<f>> /\ f.parts # 1
                             /\ ~IsWhole(PartialWith(packets, f))
                             /\ fed.packets = With(packets, f.split, PartialWith(packets, f))
                             /\ fed.done = <<>>
<1> DEFINE fed == FeedAll(packets, d)
<1>1. ASSUME NEW f \in Frame, d = <<f>> PROVE fed = Feed(Base(packets), f)
      BY <1>1, FeedOne
<1>2. ASSUME NEW f \in Frame, NEW g \in Frame, d = <<f, g>>
      PROVE  fed = Feed(Feed(Base(packets), f), g)
      BY <1>2, FeedTwo
<1>3. ASSUME NEW acc, NEW f \in Frame, f.parts = 1,
             acc = [packets |-> acc.packets, done |-> acc.done]
      PROVE  Feed(acc, f) = [packets |-> acc.packets, done |-> Append(acc.done, <<f>>)]
  <2>1. Feed(acc, f) = [acc EXCEPT !.done = Append(@, <<f>>)]
        BY <1>3 DEF Feed
  <2>2. QED
        BY <1>3, <2>1
<1>4. ASSUME NEW f \in Frame, f.parts # 1
      PROVE  Feed(Base(packets), f) =
               IF IsWhole(PartialWith(packets, f))
                 THEN [packets |-> Without(packets, {f.split}),
                       done |-> <<PayloadOf(PartialWith(packets, f))>>]
                 ELSE [packets |-> With(packets, f.split, PartialWith(packets, f)), done |-> <<>>]
  <2>1. Base(packets).packets = packets /\ Base(packets).done = <<>>
        BY DEF Base
  <2>2. ASSUME NEW b PROVE Append(<<>>, b) = <<b>>
        OBVIOUS
  <2>3. ASSUME NEW q PROVE [Base(packets) EXCEPT !.packets = q] = [packets |-> q, done |-> <<>>]
        BY DEF Base
  <2>4. CASE IsWhole(PartialWith(packets, f))
        BY <1>4, <2>1, <2>2, <2>4 DEF Feed, PayloadOf
  <2>5. CASE ~IsWhole(PartialWith(packets, f))
        BY <1>4, <2>1, <2>3, <2>5 DEF Feed
  <2>6. QED
        BY <2>4, <2>5
<1>5. ASSUME NEW f \in Frame, f.parts = 1
      PROVE  Feed(Base(packets), f) = [packets |-> packets, done |-> <<<<f>>>>]
      BY <1>3, <1>5 DEF Base
<1>6. ASSUME NEW f \in Frame, NEW g \in Frame, f.parts = 1, g.parts = 1
      PROVE  Feed(Feed(Base(packets), f), g) =
               [packets |-> packets, done |-> Append(<<<<f>>>>, <<g>>)]
  <2> DEFINE acc == [packets |-> packets, done |-> <<<<f>>>>]
  <2>1. /\ acc = [packets |-> acc.packets, done |-> acc.done]
        /\ acc.packets = packets /\ acc.done = <<<<f>>>>
        OBVIOUS
  <2>2. Feed(Base(packets), f) = acc
        BY <1>5, <1>6
  <2> HIDE DEF acc
  <2>3. Feed(acc, g) = [packets |-> acc.packets, done |-> Append(acc.done, <<g>>)]
        BY <1>3, <1>6, <2>1
  <2>4. QED
        BY <2>1, <2>2, <2>3
<1>7. CASE \E f, g \in Frame : d = <<f, g>> /\ f.message # g.message /\ f.parts = 1 /\ g.parts = 1
  <2>1. PICK f \in Frame, g \in Frame :
          d = <<f, g>> /\ f.message # g.message /\ f.parts = 1 /\ g.parts = 1
        BY <1>7
  <2>2. fed = [packets |-> packets, done |-> Append(<<<<f>>>>, <<g>>)]
        BY <1>2, <1>6, <2>1, Zenon
  <2> HIDE DEF fed
  <2>3. fed.packets = packets /\ fed.done = Append(<<<<f>>>>, <<g>>)
        BY <2>2
  <2>4. QED
        BY <2>1, <2>3 DEF fed
<1>8. CASE \E f \in Frame : d = <<f>>
  <2>1. PICK f \in Frame : d = <<f>>
        BY <1>8
  <2>2. fed = Feed(Base(packets), f)
        BY <1>1, <2>1
  <2> HIDE DEF fed
  <2>3. CASE f.parts = 1
    <3>1. fed.packets = packets /\ fed.done = <<<<f>>>>
          BY <1>5, <2>2, <2>3
    <3>2. QED
          BY <2>1, <2>3, <3>1 DEF fed
  <2>4. CASE f.parts # 1 /\ IsWhole(PartialWith(packets, f))
    <3>1. /\ fed.packets = Without(packets, {f.split})
          /\ fed.done = <<PayloadOf(PartialWith(packets, f))>>
          BY <1>4, <2>2, <2>4
    <3>2. QED
          BY <2>1, <2>4, <3>1 DEF fed
  <2>5. CASE f.parts # 1 /\ ~IsWhole(PartialWith(packets, f))
    <3>1. fed = [packets |-> With(packets, f.split, PartialWith(packets, f)), done |-> <<>>]
          BY <1>4, <2>2, <2>5
    <3>2. /\ fed.packets = With(packets, f.split, PartialWith(packets, f))
          /\ fed.done = <<>>
          BY <3>1
    <3>3. QED
          BY <2>1, <2>5, <3>2 DEF fed
  <2>6. QED
        BY <2>3, <2>4, <2>5 DEF fed
<1>9. QED
      BY <1>7, <1>8 DEF OneOrTwo

(***************************************************************************)
(* Partials and payloads                                                   *)
(***************************************************************************)
\* Frame f of datagram s, which the client numbered.
LEMMA Numbered ==
  ASSUME Sending, NEW s \in Numbers, NEW f \in FramesAt(s)
  PROVE  /\ s \in Nat /\ s \in SeqNum /\ f \in Frame /\ Own(f.message) /\ f.message <= messages
         /\ f.part < f.parts
         /\ f.parts > 1 => /\ f.split + f.part = s /\ f.split \in SeqNum /\ f.split \in Numbers
                           /\ datagrams[f.split + 1] = <<PartOf(f, 0)>>
                           /\ f.split + f.parts <= Len(datagrams)
<1>1. /\ f \in Frame /\ Own(f.message) /\ f.part < f.parts
      /\ f.parts > 1 => /\ f.split + f.part = s /\ f.split + f.parts <= Len(datagrams)
                        /\ \A q \in 0..(f.parts - 1) : datagrams[f.split + q + 1] = <<PartOf(f, q)>>
      BY DEF Sending, WellCut
<1>2. Len(datagrams) \in Nat /\ Len(datagrams) <= MaxDatagrams /\ MaxDatagrams \in Nat
      BY LenProperties, ReceiveBounds DEF Sending
<1>3. Numbers \subseteq SeqNum /\ Numbers \subseteq Nat
      BY <1>2 DEF Numbers, SeqNum
<1>4. ASSUME f.parts > 1 PROVE f.split \in Numbers /\ datagrams[f.split + 1] = <<PartOf(f, 0)>>
  <2>1. f.split \in Nat /\ f.parts \in Nat
        BY <1>1, FrameFields
  <2>2. f.split \in Numbers
        BY <1>1, <1>2, <1>4, <2>1 DEF Numbers
  <2>3. 0 \in 0..(f.parts - 1) /\ f.split + 0 + 1 = f.split + 1
        BY <1>4, <2>1
  <2>4. datagrams[f.split + 0 + 1] = <<PartOf(f, 0)>>
        BY <1>1, <1>4, <2>3
  <2>5. QED
        BY <2>2, <2>3, <2>4
<1>5. f.message <= messages
      BY <1>1 DEF Own
<1>6. QED
      BY <1>1, <1>3, <1>4, <1>5

\* Two parts with one split id are of one message.
LEMMA SameSplit ==
  ASSUME Sending, NEW s \in Numbers, NEW t \in Numbers,
         NEW f \in FramesAt(s), NEW g \in FramesAt(t),
         f.parts > 1, g.parts > 1, f.split = g.split
  PROVE  f.message = g.message /\ f.parts = g.parts
<1>1. <<PartOf(f, 0)>> = <<PartOf(g, 0)>>
      BY Numbered
<1>2. PartOf(f, 0) = PartOf(g, 0)
      BY <1>1
<1>3. QED
      BY <1>2 DEF PartOf

\* A frame of a datagram not seen is none of those seen, and of another message if
\* both are first parts.
LEMMA Unseen ==
  ASSUME Sending, NEW seen, NEW s \in Numbers, s \notin seen, NEW f \in FramesAt(s),
         NEW e, From(e, seen), e.part = f.part
  PROVE  e.message # f.message
<1>1. PICK t \in Numbers \cap seen : e \in FramesAt(t)
      BY DEF From
<1>2. SUFFICES ASSUME e.message = f.message PROVE FALSE
      OBVIOUS
<1>3. t + f.part = s + e.part
      BY <1>1, <1>2 DEF Sending
<1>4. s \in Nat /\ t \in Nat /\ f.part \in Nat
      BY <1>1, Numbered, FrameFields
<1>5. s = t
      BY <1>3, <1>4
<1>6. QED
      BY <1>1, <1>5

\* Is the partial that f goes to there?
Joins(packets, f) == f.split \in DOMAIN packets /\ packets[f.split].count = f.parts

\* The partial that f goes to has f and, if it was there, the parts it had.
LEMMA PartialShape ==
  ASSUME NEW packets, NEW seen, GoodPartials(packets, seen), NEW f \in Frame,
         NEW p, p = PartialWith(packets, f)
  PROVE  /\ p = [count |-> p.count, parts |-> p.parts, old |-> p.old]
         /\ p.count = f.parts /\ p.old \in BOOLEAN
         /\ f.part \in DOMAIN p.parts /\ p.parts[f.part] = f
         /\ ~Joins(packets, f) => DOMAIN p.parts = {f.part}
         /\ Joins(packets, f) =>
              /\ DOMAIN p.parts = DOMAIN packets[f.split].parts \cup {f.part}
              /\ \A i \in DOMAIN packets[f.split].parts :
                   i # f.part => p.parts[i] = packets[f.split].parts[i]
<1>1. CASE Joins(packets, f)
  <2> DEFINE q == packets[f.split]
  <2>1. q = [count |-> q.count, parts |-> q.parts, old |-> q.old] /\ q.old \in BOOLEAN
        BY <1>1 DEF Joins, GoodPartials, GoodPartial, FormedPartial
  <2>2. p = [q EXCEPT !.parts = With(@, f.part, f)]
        BY <1>1 DEF PartialWith, Joins
  <2>3. q.count = f.parts
        BY <1>1 DEF Joins
  <2> HIDE DEF q
  <2>4. p = [count |-> q.count, parts |-> With(q.parts, f.part, f), old |-> q.old]
        BY <2>1, <2>2
  <2>5. p.count = q.count /\ p.parts = With(q.parts, f.part, f) /\ p.old = q.old
        BY <2>4
  <2>6. /\ DOMAIN p.parts = DOMAIN q.parts \cup {f.part} /\ p.parts[f.part] = f
        /\ \A i \in DOMAIN q.parts : i # f.part => p.parts[i] = q.parts[i]
    <3>1. \A g : /\ DOMAIN With(g, f.part, f) = DOMAIN g \cup {f.part}
                 /\ With(g, f.part, f)[f.part] = f
                 /\ \A i \in DOMAIN g : i # f.part => With(g, f.part, f)[i] = g[i]
          BY DEF With
    <3>2. QED
          BY <2>5, <3>1
  <2>7. p = [count |-> p.count, parts |-> p.parts, old |-> p.old] /\ p.old \in BOOLEAN
        BY <2>1, <2>4, <2>5
  <2>8. p.count = f.parts /\ f.part \in DOMAIN p.parts
        BY <2>3, <2>5, <2>6
  <2>9. QED
        BY <1>1, <2>6, <2>7, <2>8 DEF q
<1>2. CASE ~Joins(packets, f)
  <2>1. p = [SplitPacket(f.parts) EXCEPT !.parts = With(@, f.part, f)]
        BY <1>2 DEF PartialWith, Joins
  <2>2. p = [count |-> f.parts, parts |-> With(<<>>, f.part, f), old |-> FALSE]
        BY <2>1 DEF SplitPacket
  <2>3. p.count = f.parts /\ p.parts = With(<<>>, f.part, f) /\ p.old = FALSE
        BY <2>2
  <2>4. DOMAIN p.parts = {f.part} /\ p.parts[f.part] = f
    <3>1. DOMAIN With(<<>>, f.part, f) = {f.part} /\ With(<<>>, f.part, f)[f.part] = f
          BY DEF With
    <3>2. QED
          BY <2>3, <3>1
  <2>5. QED
        BY <1>2, <2>2, <2>3, <2>4
<1>3. QED
      BY <1>1, <1>2

\* Whatever has been seen is a frame of a datagram that has.
LEMMA KeptGrows ==
  ASSUME NEW k, NEW p, NEW i, NEW seen, NEW more, seen \subseteq more, Kept(k, p, i, seen)
  PROVE  Kept(k, p, i, more)
  BY DEF Kept, From

\* f is in partial p.
Has(p, f) == p.count = f.parts /\ f.part \in DOMAIN p.parts /\ p.parts[f.part] = f

\* Part i of p was in the partial that f joined.
Inherits(p, i, packets, f) ==
  /\ Joins(packets, f) /\ i \in DOMAIN packets[f.split].parts
  /\ p.parts[i] = packets[f.split].parts[i]

\* The partial that a split frame goes to is made of parts that belong there.
LEMMA PartialParts ==
  ASSUME Sending, NEW packets, NEW seen, GoodPartials(packets, seen),
         NEW s \in Numbers, s \notin seen, NEW f \in FramesAt(s), f.parts > 1,
         NEW p, p = PartialWith(packets, f)
  PROVE  /\ FormedPartial(f.split, p, seen \cup {s}) /\ Has(p, f)
         /\ \A i \in DOMAIN p.parts : i # f.part => Inherits(p, i, packets, f)
<1>1. /\ f \in Frame /\ Own(f.message) /\ f.message <= messages /\ f.part < f.parts
      /\ f.parts \in 1..MaxParts /\ f.part \in Nat
      BY Numbered, FrameFields
<1>2. /\ p = [count |-> p.count, parts |-> p.parts, old |-> p.old]
      /\ p.count = f.parts /\ p.old \in BOOLEAN
      /\ f.part \in DOMAIN p.parts /\ p.parts[f.part] = f
      /\ ~Joins(packets, f) => DOMAIN p.parts = {f.part}
      /\ Joins(packets, f) =>
           /\ DOMAIN p.parts = DOMAIN packets[f.split].parts \cup {f.part}
           /\ \A i \in DOMAIN packets[f.split].parts :
                i # f.part => p.parts[i] = packets[f.split].parts[i]
      BY <1>1, PartialShape
<1>3. p.count \in 2..MaxParts /\ f.part \in 0..(p.count - 1)
      BY <1>1, <1>2, ReceiveBounds
<1>4. ASSUME Joins(packets, f)
      PROVE  /\ DOMAIN packets[f.split].parts \subseteq 0..(p.count - 1)
             /\ \A i \in DOMAIN packets[f.split].parts : Kept(f.split, packets[f.split], i, seen)
      BY <1>2, <1>4 DEF Joins, GoodPartials, GoodPartial, FormedPartial
<1>5. DOMAIN p.parts \subseteq 0..(p.count - 1)
      BY <1>2, <1>3, <1>4
<1>6. ASSUME NEW i \in DOMAIN p.parts, i # f.part
      PROVE  /\ Joins(packets, f) /\ i \in DOMAIN packets[f.split].parts
             /\ p.parts[i] = packets[f.split].parts[i]
      BY <1>2, <1>6
<1>7. ASSUME NEW i \in DOMAIN p.parts PROVE Kept(f.split, p, i, seen \cup {s})
  <2>1. CASE i = f.part
    <3>1. From(f, seen \cup {s})
          BY DEF From
    <3>2. QED
          BY <1>1, <1>2, <2>1, <3>1 DEF Kept
  <2>2. CASE i # f.part
    <3>1. /\ Joins(packets, f) /\ i \in DOMAIN packets[f.split].parts
          /\ p.parts[i] = packets[f.split].parts[i]
          BY <1>6, <2>2
    <3>2. Kept(f.split, packets[f.split], i, seen)
          BY <1>4, <3>1
    <3>3. Kept(f.split, packets[f.split], i, seen \cup {s})
          BY <3>2, KeptGrows
    <3>4. packets[f.split].count = p.count
          BY <1>2, <3>1 DEF Joins
    <3>5. QED
          BY <3>1, <3>3, <3>4 DEF Kept
  <2>3. QED
        BY <2>1, <2>2
<1>8. FormedPartial(f.split, p, seen \cup {s})
  <2>1. f.split \in SeqNum /\ DOMAIN p.parts # {}
        BY <1>1, <1>2, <1>3, Numbered
  <2>2. QED
        BY <1>2, <1>3, <1>5, <1>7, <2>1 DEF FormedPartial
<1>9. QED
      BY <1>2, <1>6, <1>8 DEF Has, Inherits

\* What is good stays so when more has been seen.
LEMMA GoodGrows ==
  ASSUME NEW packets, NEW payloads, NEW seen, NEW more, seen \subseteq more
  PROVE  /\ \A k : \A p : GoodPartial(k, p, seen) => GoodPartial(k, p, more)
         /\ GoodPartials(packets, seen) => GoodPartials(packets, more)
         /\ \A b : GoodPayload(b, packets, seen) => GoodPayload(b, packets, more)
         /\ GoodPayloads(payloads, packets, seen) => GoodPayloads(payloads, packets, more)
<1>1. \A e : From(e, seen) => From(e, more)
      BY DEF From
<1>2. \A k : \A p : \A i : Kept(k, p, i, seen) => Kept(k, p, i, more)
      BY <1>1 DEF Kept
<1>3. \A k : \A p : GoodPartial(k, p, seen) => GoodPartial(k, p, more)
      BY <1>2 DEF GoodPartial, FormedPartial
<1>4. \A b : GoodPayload(b, packets, seen) => GoodPayload(b, packets, more)
      BY <1>1 DEF GoodPayload
<1>5. QED
      BY <1>3, <1>4 DEF GoodPartials, GoodPayloads

\* Which message the partial that f goes to begins with: the one it began with
\* before, or f's, which no partial began with.
LEMMA BeginsWith ==
  ASSUME Sending, NEW packets, NEW seen, GoodPartials(packets, seen),
         NEW s \in Numbers, s \notin seen, NEW f \in FramesAt(s), f.parts > 1,
         NEW m, Begins(PartialWith(packets, f), m)
  PROVE  \/ f.split \in DOMAIN packets /\ Begins(packets[f.split], m)
         \/ f.part = 0 /\ f.message = m
<1>0. PICK p : p = PartialWith(packets, f)
      OBVIOUS
<1>1. Has(p, f) /\ \A i \in DOMAIN p.parts : i # f.part => Inherits(p, i, packets, f)
      BY <1>0, PartialParts
<1>2. 0 \in DOMAIN p.parts /\ p.parts[0].message = m
      BY <1>0 DEF Begins
<1>3. CASE f.part = 0
      BY <1>1, <1>2, <1>3 DEF Has
<1>4. CASE f.part # 0
      BY <1>1, <1>2, <1>4 DEF Inherits, Joins, Begins
<1>5. QED
      BY <1>3, <1>4

\* No partial begins with the message of a first part that has not been seen, and
\* no payload.
LEMMA NoneBegins ==
  ASSUME Sending, NEW packets, NEW payloads, NEW seen,
         GoodPartials(packets, seen), GoodPayloads(payloads, packets, seen),
         NEW s \in Numbers, s \notin seen, NEW f \in FramesAt(s), f.part = 0
  PROVE  /\ \A k \in DOMAIN packets : ~Begins(packets[k], f.message)
         /\ \A h \in DOMAIN payloads : payloads[h][1].message # f.message
<1>1. Own(f.message)
      BY Numbered
<1>2. ASSUME NEW k \in DOMAIN packets, Begins(packets[k], f.message) PROVE FALSE
  <2> DEFINE e == packets[k].parts[0]
  <2>1. e.message = f.message /\ e.part = 0 /\ (Own(e.message) => From(e, seen))
        BY <1>2 DEF Begins, GoodPartials, GoodPartial, FormedPartial, Kept
  <2> HIDE DEF e
  <2>2. QED
        BY <1>1, <2>1, Unseen
<1>3. ASSUME NEW h \in DOMAIN payloads, payloads[h][1].message = f.message PROVE FALSE
  <2> DEFINE e == payloads[h][1]
  <2>1. e.message = f.message /\ e.part = 0 /\ (Own(e.message) => From(e, seen))
        BY <1>3 DEF GoodPayloads, GoodPayload
  <2> HIDE DEF e
  <2>2. QED
        BY <1>1, <2>1, Unseen
<1>4. QED
      BY <1>2, <1>3

\* A part is stored.
LEMMA Storing ==
  ASSUME Sending, NEW packets, NEW payloads, NEW seen,
         GoodPartials(packets, seen), GoodPayloads(payloads, packets, seen),
         NEW s \in Numbers, s \notin seen, NEW f \in FramesAt(s), f.parts > 1,
         NEW p, p = PartialWith(packets, f), ~IsWhole(p)
  PROVE  /\ GoodPartials(With(packets, f.split, p), seen \cup {s})
         /\ GoodPayloads(payloads, With(packets, f.split, p), seen \cup {s})
<1> DEFINE q == With(packets, f.split, p)
           more == seen \cup {s}
<1>1. GoodPartial(f.split, p, more)
      BY PartialParts DEF GoodPartial
<1>2. \A m : Begins(p, m) => \/ f.split \in DOMAIN packets /\ Begins(packets[f.split], m)
                             \/ f.part = 0 /\ f.message = m
      BY BeginsWith
<1>3. f.part = 0 => /\ \A k \in DOMAIN packets : ~Begins(packets[k], f.message)
                    /\ \A h \in DOMAIN payloads : payloads[h][1].message # f.message
      BY NoneBegins
<1>4. /\ \A k \in DOMAIN packets : GoodPartial(k, packets[k], more)
      /\ GoodPayloads(payloads, packets, more)
      BY GoodGrows DEF GoodPartials
<1>5. /\ DOMAIN q = DOMAIN packets \cup {f.split} /\ q[f.split] = p
      /\ \A k \in DOMAIN packets : k # f.split => q[k] = packets[k]
      BY DEF With
<1> HIDE DEF q, more
<1>6. GoodPartials(q, more)
  <2>1. \A k \in DOMAIN q : GoodPartial(k, q[k], more)
        BY <1>1, <1>4, <1>5
  <2>2. ASSUME NEW k \in DOMAIN q, NEW l \in DOMAIN q, NEW m \in 1..messages,
               Begins(q[k], m), Begins(q[l], m)
        PROVE  k = l
    <3>1. ASSUME NEW j \in DOMAIN packets, Begins(packets[j], m), Begins(p, m) PROVE j = f.split
          BY <1>2, <1>3, <3>1, <2>2 DEF GoodPartials
    <3>2. CASE k # f.split /\ l # f.split
          BY <1>5, <2>2, <3>2 DEF GoodPartials
    <3>3. CASE k = f.split \/ l = f.split
          BY <1>5, <2>2, <3>1, <3>3
    <3>4. QED
          BY <3>2, <3>3
  <2>3. QED
        BY <2>1, <2>2 DEF GoodPartials
<1>7. GoodPayloads(payloads, q, more)
  <2>1. ASSUME NEW h \in DOMAIN payloads PROVE GoodPayload(payloads[h], q, more)
    <3>1. GoodPayload(payloads[h], packets, more)
          BY <1>4 DEF GoodPayloads
    <3>2. ASSUME NEW k \in DOMAIN q, Begins(q[k], payloads[h][1].message) PROVE FALSE
          BY <1>2, <1>3, <1>5, <3>1, <3>2 DEF GoodPayload
    <3>3. QED
          BY <3>1, <3>2 DEF GoodPayload
  <2>2. QED
        BY <1>4, <2>1 DEF GoodPayloads
<1>8. QED
      BY <1>6, <1>7 DEF q, more

\* Partials are dropped.
LEMMA Dropping ==
  ASSUME NEW packets, NEW payloads, NEW seen, NEW K,
         GoodPartials(packets, seen), GoodPayloads(payloads, packets, seen)
  PROVE  /\ GoodPartials(Without(packets, K), seen)
         /\ GoodPayloads(payloads, Without(packets, K), seen)
<1> DEFINE q == Without(packets, K)
<1>1. DOMAIN q = DOMAIN packets \ K /\ \A k \in DOMAIN q : q[k] = packets[k]
      BY DEF Without
<1> HIDE DEF q
<1>2. GoodPartials(q, seen)
      BY <1>1 DEF GoodPartials
<1>3. \A b : GoodPayload(b, packets, seen) => GoodPayload(b, q, seen)
      BY <1>1 DEF GoodPayload
<1>4. GoodPayloads(payloads, q, seen)
      BY <1>3 DEF GoodPayloads
<1>5. QED
      BY <1>2, <1>4 DEF q

\* A payload is handed up that begins with a message of its own.
LEMMA Handing ==
  ASSUME NEW packets, NEW payloads, NEW seen, NEW b,
         GoodPayloads(payloads, packets, seen), GoodPayload(b, packets, seen),
         \A h \in DOMAIN payloads : payloads[h][1].message # b[1].message
  PROVE  GoodPayloads(Append(payloads, b), packets, seen)
<1> DEFINE a == Append(payloads, b)
           n == Len(payloads)
<1>1. payloads \in Seq(Seq(Frame)) /\ b \in Seq(Frame)
      BY DEF GoodPayloads, GoodPayload
<1>2. /\ a \in Seq(Seq(Frame)) /\ Len(a) = n + 1 /\ a[n + 1] = b /\ n \in Nat
      /\ \A i \in 1..n : a[i] = payloads[i]
      BY <1>1, AppendProperties, LenProperties
<1>3. DOMAIN a = 1..(n + 1) /\ DOMAIN payloads = 1..n
      BY <1>1, <1>2, LenProperties
<1> HIDE DEF a, n
<1>4. \A h \in DOMAIN a : h \in DOMAIN payloads \/ h = n + 1
      BY <1>2, <1>3
<1>5. \A h \in DOMAIN payloads : a[h] = payloads[h]
      BY <1>2, <1>3
<1>6. \A h \in DOMAIN a : GoodPayload(a[h], packets, seen)
      BY <1>2, <1>4, <1>5 DEF GoodPayloads
<1>7. \A g, h \in DOMAIN a : a[g][1].message = a[h][1].message => g = h
      BY <1>2, <1>4, <1>5 DEF GoodPayloads
<1>8. QED
      BY <1>2, <1>6, <1>7 DEF GoodPayloads, a

\* A whole partial makes a payload of which no message has been handed up.
LEMMA Completing ==
  ASSUME Sending, NEW packets, NEW payloads, NEW seen,
         GoodPartials(packets, seen), GoodPayloads(payloads, packets, seen),
         NEW s \in Numbers, s \notin seen, NEW f \in FramesAt(s), f.parts > 1,
         NEW p, p = PartialWith(packets, f), IsWhole(p), NEW b, b = PayloadOf(p)
  PROVE  /\ GoodPayload(b, Without(packets, {f.split}), seen \cup {s})
         /\ \A h \in DOMAIN payloads : payloads[h][1].message # b[1].message
         /\ fresh => b[1].message = f.message
<1> DEFINE more == seen \cup {s}
           n == p.count
           m == b[1].message
<1>1. FormedPartial(f.split, p, more) /\ Has(p, f)
      BY PartialParts
<1>2. n \in Nat /\ n >= 2 /\ DOMAIN p.parts = 0..(n - 1)
  <2>1. n \in 2..MaxParts /\ DOMAIN p.parts \subseteq 0..(n - 1)
        BY <1>1 DEF FormedPartial
  <2>2. n \in Nat /\ n >= 2
        BY <2>1, ReceiveBounds
  <2>3. QED
        BY <2>1, <2>2, Whole
<1>3. \A i \in 0..(n - 1) : Kept(f.split, p, i, more)
      BY <1>1, <1>2 DEF FormedPartial
<1> HIDE DEF n, more
<1>4. \A i \in 0..(n - 1) : p.parts[i] \in Frame
      BY <1>3 DEF Kept
<1>5. /\ DOMAIN b = 1..n /\ \A i \in 1..n : b[i] = p.parts[i - 1] /\ i - 1 \in 0..(n - 1)
      /\ b \in [1..n -> Frame]
  <2>1. b = [i \in 1..n |-> p.parts[i - 1]]
        BY DEF PayloadOf, n
  <2>2. \A i \in 1..n : i - 1 \in 0..(n - 1)
        BY <1>2
  <2>3. QED
        BY <1>4, <2>1, <2>2
<1>6. b \in Seq(Frame) /\ Len(b) = n
  <2>1. b \in Seq(Frame)
        BY <1>2, <1>5, IsSeq
  <2>2. QED
        BY <1>2, <1>5, <2>1, LenProperties
<1>7. b # <<>> /\ b[1] = p.parts[0] /\ 0 \in 0..(n - 1)
  <2>1. 1 \in 1..n /\ 1 - 1 = 0 /\ 0 \in 0..(n - 1)
        BY <1>2
  <2>2. b[1] = p.parts[1 - 1]
        BY <1>5, <2>1
  <2>3. QED
        BY <1>2, <1>6, <2>1, <2>2
<1>8. /\ b[1] \in Frame /\ b[1].part = 0 /\ m <= messages /\ (Own(m) => From(b[1], more))
      /\ m \in 1..messages /\ Begins(p, m)
  <2>1. /\ b[1] \in Frame /\ b[1].part = 0 /\ m <= messages /\ (Own(m) => From(b[1], more))
        BY <1>3, <1>7 DEF Kept
  <2>2. m \in 1..messages
        BY <2>1, ReceiveBounds DEF Frame, Sending, Counted
  <2>3. QED
        BY <1>2, <1>7, <2>1, <2>2 DEF Begins
<1>9. \/ f.split \in DOMAIN packets /\ Begins(packets[f.split], m)
      \/ f.part = 0 /\ f.message = m
      BY <1>8, BeginsWith
<1>10. f.part = 0 => /\ \A k \in DOMAIN packets : ~Begins(packets[k], f.message)
                     /\ \A h \in DOMAIN payloads : payloads[h][1].message # f.message
       BY NoneBegins
<1>11. ASSUME NEW k \in DOMAIN packets, k # f.split PROVE ~Begins(packets[k], m)
       BY <1>8, <1>9, <1>10, <1>11 DEF GoodPartials
<1>12. ASSUME NEW h \in DOMAIN payloads PROVE payloads[h][1].message # m
  <2>1. f.split \in DOMAIN packets => ~Begins(packets[f.split], payloads[h][1].message)
        BY <1>12 DEF GoodPayloads, GoodPayload
  <2>2. QED
        BY <1>9, <1>10, <2>1
<1>13. ASSUME fresh, NEW i \in 0..(n - 1) PROVE p.parts[i].message = f.message
  <2> DEFINE e == p.parts[i]
  <2>1. e.split = f.split /\ e.parts = n /\ Own(e.message) /\ (Own(e.message) => From(e, more))
        BY <1>3, <1>13 DEF Kept, n
  <2> HIDE DEF e
  <2>2. PICK t \in Numbers : e \in FramesAt(t)
        BY <2>1 DEF From
  <2>3. e.parts > 1
        BY <1>2, <2>1
  <2>4. QED
        BY <2>1, <2>2, <2>3, SameSplit DEF e
<1>14. ASSUME fresh PROVE WholeMessage(b) /\ m = f.message
  <2>1. m = f.message
        BY <1>7, <1>13, <1>14
  <2>2. ASSUME NEW i \in 1..n
        PROVE  b[i].message = m /\ b[i].part = i - 1 /\ b[i].parts = Len(b)
    <3>1. b[i] = p.parts[i - 1] /\ i - 1 \in 0..(n - 1)
          BY <1>5
    <3>2. Kept(f.split, p, i - 1, more) /\ p.parts[i - 1].message = f.message
          BY <1>3, <1>13, <1>14, <3>1
    <3>3. QED
          BY <1>6, <2>1, <3>1, <3>2 DEF Kept, n
  <2>3. QED
        BY <1>5, <2>1, <2>2 DEF WholeMessage
<1>15. GoodPayload(b, Without(packets, {f.split}), more)
  <2> DEFINE q == Without(packets, {f.split})
  <2>1. DOMAIN q = DOMAIN packets \ {f.split} /\ \A k \in DOMAIN q : q[k] = packets[k]
        BY DEF Without
  <2> HIDE DEF q
  <2>2. \A k \in DOMAIN q : ~Begins(q[k], m)
        BY <1>11, <2>1
  <2>3. GoodPayload(b, q, more)
        BY <1>6, <1>7, <1>8, <1>14, <2>2 DEF GoodPayload
  <2>4. QED
        BY <2>3 DEF q
<1>16. QED
       BY <1>12, <1>14, <1>15 DEF more

\* A frame that is not split is a payload of its own.
LEMMA Alone ==
  ASSUME Sending, NEW packets, NEW payloads, NEW seen,
         GoodPartials(packets, seen), GoodPayloads(payloads, packets, seen),
         NEW s \in Numbers, s \notin seen, NEW f \in FramesAt(s), f.parts = 1,
         NEW b, b = <<f>>
  PROVE  /\ GoodPayload(b, packets, seen \cup {s}) /\ b[1].message = f.message
         /\ \A h \in DOMAIN payloads : payloads[h][1].message # b[1].message
<1>1. /\ f \in Frame /\ Own(f.message) /\ f.message <= messages /\ f.part < f.parts
      /\ f.part \in Nat
      BY Numbered, FrameFields
<1>2. b \in Seq(Frame) /\ b # <<>> /\ b[1] = f /\ Len(b) = 1 /\ DOMAIN b = {1}
      BY <1>1
<1>3. f.part = 0
      BY <1>1
<1>4. From(f, seen \cup {s})
      BY DEF From
<1>5. WholeMessage(b)
      BY <1>2, <1>3 DEF WholeMessage
<1>6. /\ \A k \in DOMAIN packets : ~Begins(packets[k], f.message)
      /\ \A h \in DOMAIN payloads : payloads[h][1].message # f.message
      BY <1>3, NoneBegins
<1>7. GoodPayload(b, packets, seen \cup {s})
      BY <1>1, <1>2, <1>3, <1>4, <1>5, <1>6 DEF GoodPayload
<1>8. QED
      BY <1>2, <1>6, <1>7

\* A frame that is kept stays so when another part joins the partial.
LEMMA StaysKept ==
  ASSUME Sending, NEW packets, NEW seen, GoodPartials(packets, seen),
         NEW s \in Numbers, s \notin seen, NEW f \in FramesAt(s), f.parts > 1,
         NEW p, p = PartialWith(packets, f),
         NEW t \in Numbers, t \in seen, NEW e \in FramesAt(t), IsKept(e, packets)
  PROVE  IF e.split = f.split
           THEN Has(p, e) /\ e.message = f.message /\ e.parts = f.parts
           ELSE e.split \in DOMAIN packets /\ Has(packets[e.split], e)
<1>1. e.parts > 1 /\ e.split \in DOMAIN packets /\ Has(packets[e.split], e)
  <2>1. /\ e.parts > 1 /\ e.split \in DOMAIN packets /\ e.part \in DOMAIN packets[e.split].parts
        /\ packets[e.split].parts[e.part] = e
        BY DEF IsKept
  <2>2. Kept(e.split, packets[e.split], e.part, seen)
        BY <2>1 DEF GoodPartials, GoodPartial, FormedPartial
  <2>3. packets[e.split].count = e.parts
        BY <2>1, <2>2 DEF Kept
  <2>4. QED
        BY <2>1, <2>3 DEF Has
<1>2. CASE e.split = f.split
  <2>1. e.message = f.message /\ e.parts = f.parts
        BY <1>1, <1>2, SameSplit
  <2>2. Joins(packets, f)
        BY <1>1, <1>2, <2>1 DEF Joins, Has
  <2>3. e.part # f.part
    <3>1. e.split + e.part = t /\ f.split + f.part = s
          BY <1>1, Numbered
    <3>2. QED
          BY <1>2, <3>1
  <2>4. f \in Frame
        BY Numbered
  <2>5. /\ p.count = f.parts
        /\ DOMAIN p.parts = DOMAIN packets[f.split].parts \cup {f.part}
        /\ \A i \in DOMAIN packets[f.split].parts :
             i # f.part => p.parts[i] = packets[f.split].parts[i]
        BY <2>2, <2>4, PartialShape
  <2>6. QED
        BY <1>1, <1>2, <2>1, <2>3, <2>5 DEF Has
<1>3. QED
      BY <1>1, <1>2

\* Nothing that was seen is forgotten when a part is stored.
LEMMA StoringAccounts ==
  ASSUME Sending, NEW packets, NEW payloads, NEW seen, NEW lost,
         GoodPartials(packets, seen), Accounted(payloads, packets, seen, lost),
         NEW s \in Numbers, s \notin seen, NEW f \in FramesAt(s), f.parts > 1,
         FramesAt(s) = {f}, NEW p, p = PartialWith(packets, f)
  PROVE  Accounted(payloads, With(packets, f.split, p), seen \cup {s}, lost)
<1> DEFINE q == With(packets, f.split, p)
<1>1. /\ DOMAIN q = DOMAIN packets \cup {f.split} /\ q[f.split] = p
      /\ \A k \in DOMAIN packets : k # f.split => q[k] = packets[k]
      BY DEF With
<1> HIDE DEF q
<1>2. IsKept(f, q)
  <2>1. Has(p, f)
        BY PartialParts
  <2>2. QED
        BY <1>1, <2>1 DEF Has, IsKept
<1>3. ASSUME NEW t \in Numbers, t \in seen, NEW e \in FramesAt(t), IsKept(e, packets)
      PROVE  IsKept(e, q)
  <2>1. e.parts > 1
        BY <1>3 DEF IsKept
  <2>2. CASE e.split = f.split
    <3>1. Has(p, e)
          BY <1>3, <2>2, StaysKept
    <3>2. QED
          BY <1>1, <2>1, <2>2, <3>1 DEF Has, IsKept
  <2>3. CASE e.split # f.split
    <3>1. e.split \in DOMAIN packets /\ Has(packets[e.split], e)
          BY <1>3, <2>3, StaysKept
    <3>2. QED
          BY <1>1, <2>1, <2>3, <3>1 DEF Has, IsKept
  <2>4. QED
        BY <2>2, <2>3
<1>4. Accounted(payloads, q, seen \cup {s}, lost)
      BY <1>2, <1>3 DEF Accounted
<1>5. QED
      BY <1>4 DEF q

\* What has been handed up stays so, and the last payload is.
LEMMA Appended ==
  ASSUME NEW payloads \in Seq(Seq(Frame)), NEW b \in Seq(Frame), NEW a, a = Append(payloads, b)
  PROVE  /\ a \in Seq(Seq(Frame)) /\ IsHandedUp(b[1].message, a)
         /\ \A m : IsHandedUp(m, payloads) => IsHandedUp(m, a)
<1> DEFINE n == Len(payloads)
<1>1. /\ a \in Seq(Seq(Frame)) /\ Len(a) = n + 1 /\ a[n + 1] = b /\ n \in Nat
      /\ \A i \in 1..n : a[i] = payloads[i]
      BY AppendProperties, LenProperties
<1>2. DOMAIN a = 1..(n + 1) /\ DOMAIN payloads = 1..n
      BY <1>1, LenProperties
<1> HIDE DEF n
<1>3. n + 1 \in DOMAIN a /\ \A h \in DOMAIN payloads : h \in DOMAIN a /\ a[h] = payloads[h]
      BY <1>1, <1>2
<1>4. QED
      BY <1>1, <1>3 DEF IsHandedUp

\* Nothing that was seen is forgotten when what is no longer kept is handed up, with
\* the messages of one more datagram.
LEMMA HandingAccounts ==
  ASSUME NEW packets, NEW payloads, NEW seen, NEW lost, NEW s, NEW q, NEW a,
         Accounted(payloads, packets, seen, lost),
         \A m : IsHandedUp(m, payloads) => IsHandedUp(m, a),
         \A t \in Numbers \cap seen : \A e \in FramesAt(t) :
           IsKept(e, packets) => IsKept(e, q) \/ IsHandedUp(e.message, a),
         \A f \in FramesAt(s) : IsHandedUp(f.message, a)
  PROVE  Accounted(a, q, seen \cup {s}, lost)
  BY DEF Accounted

\* A partial is completed: its parts are of the message that is handed up.
LEMMA CompletingAccounts ==
  ASSUME Sending, NEW packets, NEW payloads \in Seq(Seq(Frame)), NEW seen, NEW lost,
         GoodPartials(packets, seen), Accounted(payloads, packets, seen, lost),
         NEW s \in Numbers, s \notin seen, NEW f \in FramesAt(s), f.parts > 1,
         FramesAt(s) = {f}, NEW b \in Seq(Frame), b[1].message = f.message
  PROVE  Accounted(Append(payloads, b), Without(packets, {f.split}), seen \cup {s}, lost)
<1> DEFINE q == Without(packets, {f.split})
           a == Append(payloads, b)
<1>0. PICK p : p = PartialWith(packets, f)
      OBVIOUS
<1>1. DOMAIN q = DOMAIN packets \ {f.split} /\ \A k \in DOMAIN q : q[k] = packets[k]
      BY DEF Without
<1>2. IsHandedUp(f.message, a) /\ \A m : IsHandedUp(m, payloads) => IsHandedUp(m, a)
      BY Appended
<1> HIDE DEF q, a
<1>3. ASSUME NEW t \in Numbers, t \in seen, NEW e \in FramesAt(t), IsKept(e, packets)
      PROVE  IsKept(e, q) \/ IsHandedUp(e.message, a)
  <2>1. CASE e.split = f.split
    <3>1. e.message = f.message
          BY <1>0, <1>3, <2>1, StaysKept
    <3>2. QED
          BY <1>2, <3>1
  <2>2. CASE e.split # f.split
    <3>1. e.split \in DOMAIN q /\ q[e.split] = packets[e.split]
          BY <1>1, <1>3, <2>2 DEF IsKept
    <3>2. QED
          BY <1>3, <3>1 DEF IsKept
  <2>3. QED
        BY <2>1, <2>2
<1>4. Accounted(a, q, seen \cup {s}, lost)
      BY <1>2, <1>3, HandingAccounts
<1>5. QED
      BY <1>4 DEF q, a

\* Partials are dropped: the messages of their parts are lost.
LEMMA DroppingAccounts ==
  ASSUME NEW packets, NEW payloads, NEW seen, NEW lost, NEW K, NEW more,
         Accounted(payloads, packets, seen, lost), lost \subseteq more,
         \A k \in K : \A i \in DOMAIN packets[k].parts : packets[k].parts[i].message \in more
  PROVE  Accounted(payloads, Without(packets, K), seen, more)
<1> DEFINE q == Without(packets, K)
<1>1. DOMAIN q = DOMAIN packets \ K /\ \A k \in DOMAIN q : q[k] = packets[k]
      BY DEF Without
<1> HIDE DEF q
<1>2. ASSUME NEW e, IsKept(e, packets) PROVE IsKept(e, q) \/ e.message \in more
  <2>1. CASE e.split \in K
        BY <1>2, <2>1 DEF IsKept
  <2>2. CASE e.split \notin K
    <3>1. e.split \in DOMAIN q /\ q[e.split] = packets[e.split]
          BY <1>1, <1>2, <2>2 DEF IsKept
    <3>2. QED
          BY <1>2, <3>1 DEF IsKept
  <2>3. QED
        BY <2>1, <2>2
<1>3. Accounted(payloads, q, seen, more)
      BY <1>2 DEF Accounted
<1>4. QED
      BY <1>3 DEF q

\* What is handed up after one datagram, in the three forms it comes in.
LEMMA Joined ==
  ASSUME NEW S, NEW q \in Seq(S)
  PROVE  /\ q \o <<>> = q
         /\ \A b \in S : q \o <<b>> = Append(q, b)
         /\ \A b, c \in S : q \o Append(<<b>>, c) = Append(Append(q, b), c)
<1>1. q \o <<>> = q
      BY ConcatEmptySeq
<1>2. ASSUME NEW b \in S PROVE q \o <<b>> = Append(q, b)
      BY AppendIsConcat
<1>3. ASSUME NEW b \in S, NEW c \in S PROVE q \o Append(<<b>>, c) = Append(Append(q, b), c)
  <2>1. <<b>> \in Seq(S) /\ <<c>> \in Seq(S) /\ Append(q, b) \in Seq(S)
        OBVIOUS
  <2>2. Append(<<b>>, c) = <<b>> \o <<c>>
        BY <2>1, AppendIsConcat
  <2>3. Append(Append(q, b), c) = Append(q, b) \o <<c>>
        BY <2>1, AppendIsConcat
  <2>4. (q \o <<b>>) \o <<c>> = q \o (<<b>> \o <<c>>)
        BY <2>1, ConcatAssociative
  <2>5. QED
        BY <1>2, <2>2, <2>3, <2>4
<1>4. QED
      BY <1>1, <1>2, <1>3

\* A datagram that was not seen before is read.
LEMMA DatagramRead ==
  ASSUME Sending, NEW packets, NEW payloads, NEW seen, NEW lost,
         Sorted(payloads, packets, seen, lost),
         NEW s \in Numbers, s \notin seen,
         NEW fed, fed = FeedAll(packets, datagrams[s + 1])
  PROVE  Sorted(payloads \o fed.done, fed.packets, seen \cup {s}, lost)
<1> DEFINE more == seen \cup {s}
<1>1. /\ GoodPartials(packets, seen) /\ GoodPayloads(payloads, packets, seen)
      /\ fresh => Accounted(payloads, packets, seen, lost)
      BY DEF Sorted
<1>2. payloads \in Seq(Seq(Frame)) /\ datagrams \in Seq(Seq(Frame))
      BY <1>1 DEF GoodPayloads, Sending
<1>3. /\ payloads \o <<>> = payloads
      /\ \A b \in Seq(Frame) : payloads \o <<b>> = Append(payloads, b)
      /\ \A b, c \in Seq(Frame) : payloads \o Append(<<b>>, c) = Append(Append(payloads, b), c)
      BY <1>2, Joined
<1>4. /\ \A f \in Frame : <<f>> \in Seq(Frame) /\ <<f>>[1] = f /\ f.parts \in Nat \ {0}
      /\ \A f \in Frame : datagrams[s + 1] = <<f>> => FramesAt(s) = {f}
      /\ \A f, g \in Frame : datagrams[s + 1] = <<f, g>> => FramesAt(s) = {f, g}
  <2>1. \A f \in Frame : <<f>> \in Seq(Frame) /\ <<f>>[1] = f /\ f.parts \in Nat \ {0}
        BY FrameFields
  <2>2. FramesAt(s) = FramesIn(datagrams[s + 1])
        BY <1>2, FramesOf
  <2>3. QED
        BY <2>1, <2>2, TwoIn
<1>5. /\ GoodPartials(packets, more) /\ GoodPayloads(payloads, packets, more)
      BY <1>1, GoodGrows
<1> HIDE DEF more
<1>6. ASSUME NEW f \in FramesAt(s), f.parts = 1, NEW b, b = <<f>>
      PROVE  /\ GoodPayload(b, packets, more)
             /\ \A h \in DOMAIN payloads : payloads[h][1].message # b[1].message
      BY <1>1, <1>6, Alone DEF more
<1>7. ASSUME NEW f \in Frame, datagrams[s + 1] = <<f>>, f.parts = 1,
             fed.packets = packets, fed.done = <<<<f>>>>
      PROVE  Sorted(payloads \o fed.done, fed.packets, more, lost)
  <2> DEFINE b == <<f>>
             a == Append(payloads, b)
  <2>1. FramesAt(s) = {f} /\ b \in Seq(Frame) /\ b[1].message = f.message
        BY <1>4, <1>7
  <2>2. payloads \o fed.done = a
        BY <1>3, <1>7, <2>1
  <2> HIDE DEF b
  <2>3. /\ GoodPayload(b, packets, more)
        /\ \A h \in DOMAIN payloads : payloads[h][1].message # b[1].message
        BY <1>6, <1>7, <2>1 DEF b
  <2>4. GoodPayloads(a, packets, more)
        BY <1>5, <2>3, Handing
  <2>5. IsHandedUp(f.message, a) /\ \A m : IsHandedUp(m, payloads) => IsHandedUp(m, a)
        BY <1>2, <2>1, Appended
  <2> HIDE DEF a
  <2>6. fresh => Accounted(a, packets, more, lost)
        BY <1>1, <2>1, <2>5, HandingAccounts DEF more
  <2>7. QED
        BY <1>5, <1>7, <2>2, <2>4, <2>6 DEF Sorted
<1>8. ASSUME NEW f \in Frame, NEW g \in Frame, datagrams[s + 1] = <<f, g>>,
             f.message # g.message, f.parts = 1, g.parts = 1,
             fed.packets = packets, fed.done = Append(<<<<f>>>>, <<g>>)
      PROVE  Sorted(payloads \o fed.done, fed.packets, more, lost)
  <2> DEFINE b == <<f>>
             c == <<g>>
             a == Append(payloads, b)
             z == Append(a, c)
  <2>1. /\ FramesAt(s) = {f, g} /\ f \in FramesAt(s) /\ g \in FramesAt(s)
        /\ f.parts = 1 /\ g.parts = 1 /\ b \in Seq(Frame) /\ b[1].message = f.message
        /\ c \in Seq(Frame) /\ c[1].message = g.message
        BY <1>4, <1>8
  <2>2. payloads \o fed.done = z
        BY <1>3, <1>8, <2>1
  <2> HIDE DEF b, c
  <2>3. /\ GoodPayload(b, packets, more)
        /\ \A h \in DOMAIN payloads : payloads[h][1].message # b[1].message
        BY <1>6, <2>1 DEF b
  <2>4. /\ GoodPayload(c, packets, more)
        /\ \A h \in DOMAIN payloads : payloads[h][1].message # c[1].message
        BY <1>6, <2>1 DEF c
  <2>5. GoodPayloads(a, packets, more)
        BY <1>5, <2>3, Handing
  <2>6. /\ a \in Seq(Seq(Frame)) /\ IsHandedUp(f.message, a)
        /\ \A m : IsHandedUp(m, payloads) => IsHandedUp(m, a)
        BY <1>2, <2>1, Appended
  <2>7. \A h \in DOMAIN a : a[h][1].message # c[1].message
    <3>1. /\ Len(a) = Len(payloads) + 1 /\ a[Len(payloads) + 1] = b /\ Len(payloads) \in Nat
          /\ \A i \in 1..Len(payloads) : a[i] = payloads[i]
          BY <1>2, <2>1, AppendProperties, LenProperties
    <3>2. DOMAIN a = 1..(Len(payloads) + 1) /\ DOMAIN payloads = 1..Len(payloads)
          BY <1>2, <2>6, <3>1, LenProperties
    <3> HIDE DEF a
    <3>3. \A h \in DOMAIN a : (h \in DOMAIN payloads /\ a[h] = payloads[h]) \/ a[h] = b
          BY <3>1, <3>2
    <3>4. QED
          BY <1>8, <2>1, <2>4, <3>3
  <2> HIDE DEF a
  <2>8. GoodPayloads(z, packets, more)
        BY <2>4, <2>5, <2>7, Handing
  <2>9. IsHandedUp(g.message, z) /\ \A m : IsHandedUp(m, a) => IsHandedUp(m, z)
        BY <2>1, <2>6, Appended
  <2> HIDE DEF z
  <2>10. fresh => Accounted(z, packets, more, lost)
         BY <1>1, <2>1, <2>6, <2>9, HandingAccounts DEF more
  <2>11. QED
         BY <1>5, <1>8, <2>2, <2>8, <2>10 DEF Sorted
<1>9. ASSUME NEW f \in Frame, datagrams[s + 1] = <<f>>, f.parts # 1,
             IsWhole(PartialWith(packets, f)), fed.packets = Without(packets, {f.split}),
             fed.done = <<PayloadOf(PartialWith(packets, f))>>
      PROVE  Sorted(payloads \o fed.done, fed.packets, more, lost)
  <2>0. PICK p : p = PartialWith(packets, f)
        OBVIOUS
  <2> DEFINE b == PayloadOf(p)
             q == Without(packets, {f.split})
  <2>1. FramesAt(s) = {f} /\ f \in FramesAt(s) /\ f.parts > 1
        BY <1>4, <1>9
  <2>2. /\ GoodPayload(b, q, more)
        /\ \A h \in DOMAIN payloads : payloads[h][1].message # b[1].message
        /\ fresh => b[1].message = f.message
        BY <1>1, <1>9, <2>0, <2>1, Completing DEF more
  <2>3. b \in Seq(Frame)
        BY <2>2 DEF GoodPayload
  <2>4. payloads \o fed.done = Append(payloads, b)
        BY <1>3, <1>9, <2>0, <2>3
  <2> HIDE DEF b
  <2>5. GoodPartials(q, more) /\ GoodPayloads(payloads, q, more)
        BY <1>5, Dropping
  <2>6. GoodPayloads(Append(payloads, b), q, more)
        BY <2>2, <2>5, Handing
  <2>7. fresh => Accounted(Append(payloads, b), q, more, lost)
        BY <1>1, <1>2, <2>1, <2>2, <2>3, CompletingAccounts DEF more
  <2>8. QED
        BY <1>9, <2>4, <2>5, <2>6, <2>7 DEF Sorted
<1>10. ASSUME NEW f \in Frame, datagrams[s + 1] = <<f>>, f.parts # 1,
             ~IsWhole(PartialWith(packets, f)),
             fed.packets = With(packets, f.split, PartialWith(packets, f)), fed.done = <<>>
      PROVE  Sorted(payloads \o fed.done, fed.packets, more, lost)
  <2>0. PICK p : p = PartialWith(packets, f)
        OBVIOUS
  <2>1. FramesAt(s) = {f} /\ f \in FramesAt(s) /\ f.parts > 1
        BY <1>4, <1>10
  <2> DEFINE q == With(packets, f.split, p)
  <2>2. ~IsWhole(p)
        BY <1>10, <2>0
  <2>3. payloads \o fed.done = payloads /\ fed.packets = q
        BY <1>3, <1>10, <2>0
  <2> HIDE DEF q
  <2>4. GoodPartials(q, more) /\ GoodPayloads(payloads, q, more)
        BY <1>1, <2>0, <2>1, <2>2, Storing DEF more, q
  <2>5. fresh => Accounted(payloads, q, more, lost)
        BY <1>1, <2>0, <2>1, StoringAccounts DEF more, q
  <2>6. QED
        BY <2>3, <2>4, <2>5 DEF Sorted
<1>11. OneOrTwo(datagrams[s + 1])
       BY DEF Sending
<1>12. QED
       BY <1>7, <1>8, <1>9, <1>10, <1>11, Fed DEF more

(***************************************************************************)
(* The steps                                                               *)
(***************************************************************************)
\* The partials that are old are dropped.
LEMMA Expiring ==
  ASSUME NEW packets, NEW payloads, NEW seen, Sorted(payloads, packets, seen, expired),
         expired \subseteq 1..MaxMessages, Expire(packets)
  PROVE  /\ Sorted(payloads, split_packets', seen, expired')
         /\ expired' \subseteq 1..MaxMessages
<1> DEFINE K == Old(packets)
<1>1. /\ GoodPartials(packets, seen) /\ GoodPayloads(payloads, packets, seen)
      /\ fresh => Accounted(payloads, packets, seen, expired)
      BY DEF Sorted
<1>2. /\ split_packets' = Without(packets, K)
      /\ expired' = expired \cup UNION {{packets[k].parts[i].message :
                                         i \in DOMAIN packets[k].parts} : k \in K}
      /\ K \subseteq DOMAIN packets
      BY DEF Expire, Old
<1> HIDE DEF K
<1>3. ASSUME NEW k \in K, NEW i \in DOMAIN packets[k].parts
      PROVE  packets[k].parts[i].message \in 1..MaxMessages
  <2>1. Kept(k, packets[k], i, seen)
        BY <1>1, <1>2, <1>3 DEF GoodPartials, GoodPartial, FormedPartial
  <2>2. QED
        BY <2>1 DEF Kept, Frame
<1>4. /\ expired' \subseteq 1..MaxMessages /\ expired \subseteq expired'
      /\ \A k \in K : \A i \in DOMAIN packets[k].parts : packets[k].parts[i].message \in expired'
  <2> DEFINE M(k, i) == packets[k].parts[i].message
  <2>1. \A x : x \in expired' <=> \/ x \in expired
                                  \/ \E k \in K : \E i \in DOMAIN packets[k].parts :
                                      x = M(k, i)
        BY <1>2
  <2>2. \A k \in K : \A i \in DOMAIN packets[k].parts : M(k, i) \in 1..MaxMessages
        BY <1>3
  <2> HIDE DEF M
  <2>3. expired \subseteq expired'
        BY <2>1
  <2>4. \A k \in K : \A i \in DOMAIN packets[k].parts : M(k, i) \in expired'
        BY <2>1
  <2>5. expired' \subseteq 1..MaxMessages
    <3>1. SUFFICES ASSUME NEW x \in expired', x \notin expired PROVE x \in 1..MaxMessages
          OBVIOUS
    <3>2. PICK k \in K : \E i \in DOMAIN packets[k].parts : x = M(k, i)
          BY <2>1, <3>1
    <3>3. PICK i \in DOMAIN packets[k].parts : x = M(k, i)
          BY <3>2
    <3>4. QED
          BY <2>2, <3>3
  <2>6. QED
        BY <2>3, <2>4, <2>5 DEF M
<1>5. /\ GoodPartials(Without(packets, K), seen)
      /\ GoodPayloads(payloads, Without(packets, K), seen)
      BY <1>1, Dropping
<1>6. ASSUME NEW more, more = expired', fresh
      PROVE  Accounted(payloads, Without(packets, K), seen, more)
      BY <1>1, <1>4, <1>6, DroppingAccounts
<1>7. QED
      BY <1>2, <1>4, <1>5, <1>6 DEF Sorted

\* What has been sorted stays so when the sender, and for whom the entry is, do.
LEMMA SortedAfter ==
  ASSUME UNCHANGED <<datagrams, sent, messages, fresh>>,
         Sorted(handed', split_packets', received', expired')
  PROVE  Sorted(handed, split_packets, received, expired)'
<1>1. UNCHANGED <<datagrams, sent, messages, fresh>>
      OBVIOUS
<1>2. \A m : Own(m)' <=> Own(m)
      BY <1>1 DEF Own
<1>3. \A f, seen : From(f, seen)' <=> From(f, seen)
      BY <1>1 DEF From, Numbers, FramesAt
<1>4. GoodPartials(split_packets, received)'
  <2>1. GoodPartials(split_packets', received')
        BY DEF Sorted
  <2>2. QED
        BY <1>1, <1>2, <1>3, <2>1
           DEF GoodPartials, GoodPartial, FormedPartial, Kept, Begins, IsWhole
<1>5. GoodPayloads(handed, split_packets, received)'
  <2>1. GoodPayloads(handed', split_packets', received')
        BY DEF Sorted
  <2>2. QED
        BY <1>1, <1>2, <1>3, <2>1 DEF GoodPayloads, GoodPayload, Begins, WholeMessage
<1>6. ASSUME fresh PROVE Accounted(handed, split_packets, received, expired)'
  <2>1. Accounted(handed', split_packets', received', expired')
        BY <1>6 DEF Sorted
  <2>2. Numbers' = Numbers /\ \A s : FramesAt(s)' = FramesAt(s)
        BY <1>1 DEF Numbers, FramesAt
  <2>3. QED
        BY <1>1, <2>1, <2>2 DEF Accounted, IsHandedUp, IsKept
<1>7. QED
      BY <1>1, <1>4, <1>5, <1>6 DEF Sorted

\* A client that numbers nothing.
LEMMA SendingAfter ==
  ASSUME Sending, UNCHANGED <<datagrams, sent, messages>>
  PROVE  Sending'
<1>1. UNCHANGED <<datagrams, sent, messages>>
      OBVIOUS
<1>2. Counted'
      BY <1>1 DEF Counted, Sending
<1>3. Numbers' = Numbers /\ \A s : FramesAt(s)' = FramesAt(s)
      BY <1>1 DEF Numbers, FramesAt
<1>4. /\ \A m : Own(m)' <=> Own(m)
      /\ \A s, f : WellCut(s, f)' <=> WellCut(s, f)
      BY <1>1 DEF Own, WellCut
<1>5. QED
      BY <1>1, <1>2, <1>3, <1>4 DEF Sending

\* handle_frames: a number in the queue was read before; any other datagram is sorted, and
\* then the old partials go.
LEMMA HandleFramesReads ==
  ASSUME SInv, NEW s \in SeqNum, HandleFrames(s)
  PROVE  Sending' /\ Reading'
<1>1. /\ Sending /\ Reading /\ recv_queue \in Seq(Span) /\ Covered(recv_queue) = received
      BY DEF SInv, Rest, IInv, QueueIsReceived
<1>2. /\ s \in Numbers /\ s \in Nat
  <2>1. s < Len(datagrams) /\ s \in Nat /\ Len(datagrams) \in Nat
        BY <1>1, SeqNumNat, LenProperties DEF HandleFrames, Sending
  <2>2. QED
        BY <2>1 DEF Numbers
<1>3. /\ entry' = entry /\ client' = client /\ fresh' = fresh /\ UNCHANGED sender
      /\ arrived' = arrived \cup {s}
      BY DEF HandleFrames, sender
<1>4. Sending' /\ Numbers' = Numbers
      BY <1>1, <1>3, SendingAfter DEF sender, Numbers
<1>5. /\ Sorted(handed', split_packets', received', expired')
      /\ expired' \subseteq 1..MaxMessages /\ received' \subseteq SeqNum
      /\ fresh => arrived' = received'
  <2>1. CASE Holds(recv_queue, s)
    <3>1. UNCHANGED <<split_packets, handed, received, expired>>
          BY <2>1 DEF HandleFrames
    <3>2. s \in received
          BY <1>1, <1>2, <2>1, HoldsCovered
    <3>3. QED
          BY <1>1, <1>3, <3>1, <3>2 DEF Reading
  <2>2. CASE ~Holds(recv_queue, s)
    <3>1. s \notin received
          BY <1>1, <1>2, <2>2, HoldsCovered
    <3>2. PICK fed : fed = FeedAll(split_packets, datagrams[s + 1])
          OBVIOUS
    <3>3. received' = received \cup {s} /\ handed' = handed \o fed.done /\ Expire(fed.packets)
          BY <2>2, <3>2 DEF HandleFrames
    <3>4. Sorted(handed \o fed.done, fed.packets, received \cup {s}, expired)
          BY <1>1, <1>2, <3>1, <3>2, DatagramRead DEF Reading
    <3>5. /\ Sorted(handed \o fed.done, split_packets', received \cup {s}, expired')
          /\ expired' \subseteq 1..MaxMessages
          BY <1>1, <3>3, <3>4, Expiring DEF Reading
    <3>6. QED
          BY <1>1, <1>3, <3>3, <3>5 DEF Reading
  <2>3. QED
        BY <2>1, <2>2
<1>6. Sorted(handed, split_packets, received, expired)'
      BY <1>3, <1>5, SortedAfter DEF sender
<1>7. QED
      BY <1>1, <1>2, <1>3, <1>4, <1>5, <1>6 DEF Reading

\* A partial grows old.
LEMMA SplitTimeoutReads ==
  ASSUME SInv, NEW k \in DOMAIN split_packets, SplitTimeout(k)
  PROVE  Sending' /\ Reading'
<1>1. /\ Sending /\ Reading
      BY DEF SInv
<1>2. /\ UNCHANGED <<entry, handed, sender, received, arrived, expired, fresh>>
      /\ split_packets' = [split_packets EXCEPT ![k].old = TRUE]
      BY DEF SplitTimeout, history
<1>3. Sending' /\ Numbers' = Numbers
      BY <1>1, <1>2, SendingAfter DEF sender, Numbers
<1>4. PICK q : q = split_packets'
      OBVIOUS
<1>5. Sorted(handed, split_packets, received, expired)
      BY <1>1 DEF Reading
<1>6. \A j \in DOMAIN split_packets :
        split_packets[j] = [count |-> split_packets[j].count, parts |-> split_packets[j].parts,
                            old |-> split_packets[j].old]
      BY <1>5 DEF Sorted, GoodPartials, GoodPartial, FormedPartial
<1>7. /\ DOMAIN q = DOMAIN split_packets
      /\ \A j \in DOMAIN q : j # k => q[j] = split_packets[j]
      /\ q[k] = [split_packets[k] EXCEPT !.old = TRUE]
      BY <1>2, <1>4
<1>8. q[k] = [count |-> split_packets[k].count, parts |-> split_packets[k].parts, old |-> TRUE]
      BY <1>6, <1>7
<1>9. \A j \in DOMAIN q :
        /\ q[j].count = split_packets[j].count /\ q[j].parts = split_packets[j].parts
        /\ q[j] = [count |-> q[j].count, parts |-> q[j].parts, old |-> q[j].old]
        /\ q[j].old \in BOOLEAN
  <2>1. \A j \in DOMAIN split_packets : split_packets[j].old \in BOOLEAN
        BY <1>5 DEF Sorted, GoodPartials, GoodPartial, FormedPartial
  <2>2. /\ q[k].count = split_packets[k].count /\ q[k].parts = split_packets[k].parts
        /\ q[k] = [count |-> q[k].count, parts |-> q[k].parts, old |-> q[k].old]
        /\ q[k].old \in BOOLEAN
        BY <1>8
  <2>3. ASSUME NEW j \in DOMAIN q, j # k
        PROVE  /\ q[j].count = split_packets[j].count /\ q[j].parts = split_packets[j].parts
               /\ q[j] = [count |-> q[j].count, parts |-> q[j].parts, old |-> q[j].old]
               /\ q[j].old \in BOOLEAN
    <3>1. j \in DOMAIN split_packets /\ q[j] = split_packets[j]
          BY <1>7, <2>3
    <3>2. QED
          BY <1>6, <2>1, <3>1
  <2>4. QED
        BY <2>2, <2>3
<1>10. GoodPartials(q, received)
  <2>1. ASSUME NEW j \in DOMAIN q PROVE GoodPartial(j, q[j], received)
    <3>1. GoodPartial(j, split_packets[j], received)
          BY <1>5, <1>7 DEF Sorted, GoodPartials
    <3>2. \A i : Kept(j, split_packets[j], i, received) => Kept(j, q[j], i, received)
          BY <1>9 DEF Kept
    <3>3. QED
          BY <1>9, <3>1, <3>2 DEF GoodPartial, FormedPartial, IsWhole
  <2>2. \A j \in DOMAIN q : \A m : Begins(q[j], m) <=> Begins(split_packets[j], m)
        BY <1>9 DEF Begins
  <2>3. QED
        BY <1>5, <1>7, <2>1, <2>2 DEF Sorted, GoodPartials
<1>11. GoodPayloads(handed, q, received)
  <2>1. \A j \in DOMAIN q : \A m : Begins(q[j], m) <=> Begins(split_packets[j], m)
        BY <1>9 DEF Begins
  <2>2. \A b : GoodPayload(b, split_packets, received) => GoodPayload(b, q, received)
        BY <1>7, <2>1 DEF GoodPayload
  <2>3. QED
        BY <1>5, <2>2 DEF Sorted, GoodPayloads
<1>12. fresh => Accounted(handed, q, received, expired)
  <2>1. \A e : IsKept(e, split_packets) => IsKept(e, q)
        BY <1>7, <1>9 DEF IsKept
  <2>2. QED
        BY <1>5, <2>1 DEF Sorted, Accounted
<1>13. Sorted(handed', split_packets', received', expired')
       BY <1>2, <1>4, <1>10, <1>11, <1>12 DEF Sorted
<1>14. Sorted(handed, split_packets, received, expired)'
       BY <1>2, <1>13, SortedAfter DEF sender
<1>15. QED
       BY <1>1, <1>2, <1>3, <1>14 DEF Reading, sender

\* Old partials, or a silent client's entry, go.
LEMMA TimeoutStaleReads ==
  ASSUME SInv, NEW isStale \in BOOLEAN, TimeoutStale(isStale)
  PROVE  Sending' /\ Reading'
<1>1. /\ Sending /\ Reading
      BY DEF SInv
<1>2. /\ UNCHANGED <<handed, sender, received, arrived, fresh>> /\ client' = client
      /\ entry' \in {entry, "Absent"}
      BY DEF TimeoutStale, sender
<1>3. Sending' /\ Numbers' = Numbers
      BY <1>1, <1>2, SendingAfter DEF sender, Numbers
<1>4. Sorted(handed, split_packets', received, expired') /\ expired' \subseteq 1..MaxMessages
  <2>1. CASE entry' = "Absent"
        BY <1>1, <2>1 DEF TimeoutStale, Reading
  <2>2. CASE entry' # "Absent"
        BY <1>1, <2>2, Expiring DEF TimeoutStale, Reading
  <2>3. QED
        BY <2>1, <2>2
<1>5. Sorted(handed, split_packets, received, expired)'
      BY <1>2, <1>4, SortedAfter DEF sender
<1>6. QED
      BY <1>1, <1>2, <1>3, <1>4, <1>5 DEF Reading

\* Messages on their way between the client and the handshake, and ACKs, touch
\* nothing that has been read.
LEMMA OthersRead ==
  ASSUME SInv,
         \/ Request1 \/ Request2 \/ Leave \/ (\E a \in acks : AckArrives(a) \/ AckLost(a))
         \/ UNCHANGED vars
  PROVE  Sending' /\ Reading'
<1>1. /\ Sending /\ Reading
      BY DEF SInv
<1>2. /\ UNCHANGED <<handed, split_packets, received, arrived, expired, fresh>>
      /\ UNCHANGED <<datagrams, sent, messages>>
      /\ entry' \in {entry, "Handshaking", "Connected"} /\ client' \in {client, "gone"}
  <2>1. CASE Request1
        BY <2>1 DEF Request1, sender, history
  <2>2. CASE Request2
        BY <2>2 DEF Request2, HandleRequest2, sender
  <2>3. CASE Leave
        BY <2>3 DEF Leave, connection, history
  <2>4. CASE \E a \in acks : AckArrives(a) \/ AckLost(a)
        BY <2>4 DEF AckArrives, AckLost, connection, sender, history
  <2>5. CASE UNCHANGED vars
        BY <2>5 DEF vars, connection, sender, history
  <2>6. QED
        BY <2>1, <2>2, <2>3, <2>4, <2>5
<1>3. Sending' /\ Numbers' = Numbers
      BY <1>1, <1>2, SendingAfter DEF Numbers
<1>4. Sorted(handed, split_packets, received, expired)'
      BY <1>1, <1>2, SortedAfter DEF Reading
<1>5. QED
      BY <1>1, <1>2, <1>3, <1>4 DEF Reading

\* A new client has sent nothing, and nothing of its own is kept or handed up.
LEMMA NewClientReads ==
  ASSUME SInv, Request2OfNewClient
  PROVE  Sending' /\ Reading'
<1>1. /\ Sending /\ Reading /\ Sorted(handed, split_packets, received, expired)
      /\ messages \in Nat /\ messages \in 0..MaxMessages /\ received \subseteq SeqNum
      BY ReceiveBounds DEF SInv, Sending, Counted, Reading
<1>2. /\ entry' = "Connected" /\ handed' = <<>> /\ arrived' = {} /\ datagrams' = <<>>
      /\ sent' = <<>> /\ messages' = messages /\ expired' = expired
      /\ fresh' = (entry = "Absent")
      /\ IF entry = "Absent" THEN split_packets' = <<>> /\ received' = {}
                             ELSE UNCHANGED <<split_packets, received>>
      BY DEF Request2OfNewClient, HandleRequest2
<1>3. Len(sent') = 0 /\ Len(datagrams') = 0 /\ DOMAIN sent' = {} /\ Numbers' = {}
      BY <1>2 DEF Numbers
<1>4. \A m : ~Own(m)'
      BY <1>1, <1>2, <1>3 DEF Own
<1>5. Sending'
  <2>1. Counted'
        BY <1>1, <1>2, <1>3 DEF Counted
  <2>2. datagrams' \in Seq(Seq(Frame)) /\ Len(datagrams') <= MaxDatagrams
        BY <1>2, <1>3, ReceiveBounds
  <2>3. QED
        BY <1>3, <1>4, <2>1, <2>2 DEF Sending
<1>6. GoodPartials(split_packets, received)'
  <2>1. CASE entry = "Absent"
    <3>1. split_packets' = <<>> /\ DOMAIN split_packets' = {}
          BY <1>2, <2>1
    <3>2. QED
          BY <3>1 DEF GoodPartials
  <2>2. CASE entry # "Absent"
    <3>1. split_packets' = split_packets /\ received' = received /\ ~fresh'
          BY <1>2, <2>2
    <3>2. GoodPartials(split_packets, received)
          BY <1>1 DEF Sorted
    <3>3. QED
          BY <1>2, <1>4, <3>1, <3>2
             DEF GoodPartials, GoodPartial, FormedPartial, Kept, Begins, IsWhole
  <2>3. QED
        BY <2>1, <2>2
<1>7. GoodPayloads(handed, split_packets, received)'
  <2>1. handed' = <<>> /\ DOMAIN handed' = {} /\ handed' \in Seq(Seq(Frame))
        BY <1>2
  <2>2. QED
        BY <2>1 DEF GoodPayloads
<1>8. Accounted(handed, split_packets, received, expired)'
      BY <1>3 DEF Accounted
<1>9. Sorted(handed, split_packets, received, expired)'
      BY <1>6, <1>7, <1>8 DEF Sorted
<1>10. /\ received' \subseteq SeqNum /\ fresh' \in BOOLEAN
       /\ fresh' => arrived' = received'
       BY <1>1, <1>2
<1>11. QED
       BY <1>1, <1>2, <1>5, <1>9, <1>10 DEF Reading

\* A client that numbers more datagrams leaves what has been read as it is.
LEMMA SendingReads ==
  ASSUME SInv, NEW n \in Nat, Sending', Goes(n),
         UNCHANGED <<connection, handed, history, client>>
  PROVE  Reading'
<1>1. /\ Sending /\ Reading /\ Sorted(handed, split_packets, received, expired)
      BY DEF SInv, Reading
<1>2. /\ UNCHANGED <<entry, split_packets, handed, received, arrived, expired, fresh, client>>
      BY DEF connection, history
<1>3. /\ \A s \in Numbers : s \in Numbers' /\ FramesAt(s)' = FramesAt(s)
      /\ messages \in Nat /\ messages' \in Nat /\ messages <= messages'
      /\ \A m \in Nat : m <= messages => (Own(m)' <=> Own(m)) /\ m <= messages'
  <2>1. ASSUME NEW s \in Numbers PROVE s \in Numbers' /\ FramesAt(s)' = FramesAt(s)
    <3>1. datagrams'[s + 1] = datagrams[s + 1]
          BY DEF Goes
    <3>2. s \in Numbers'
      <4>1. Len(datagrams) \in Nat /\ Len(datagrams') = Len(datagrams) + n
            BY <1>1, LenProperties DEF Sending, Goes
      <4>2. QED
            BY <4>1 DEF Numbers
    <3>3. QED
          BY <3>1, <3>2 DEF FramesAt
  <2>2. QED
        BY <2>1 DEF Goes
<1>4. \A f, seen : From(f, seen) => From(f, seen)'
      BY <1>3 DEF From
<1>5. \A f \in Frame : f.message <= messages =>
         f.message <= messages' /\ (Own(f.message)' <=> Own(f.message))
  <2>1. \A f \in Frame : f.message \in Nat
        BY FrameFields
  <2>2. QED
        BY <1>3, <2>1
<1>6. \A k, p, i, seen : Kept(k, p, i, seen) => Kept(k, p, i, seen)'
      BY <1>2, <1>4, <1>5 DEF Kept
<1>7. GoodPartials(split_packets, received)'
  <2>1. \A k, p, seen : GoodPartial(k, p, seen) => GoodPartial(k, p, seen)'
        BY <1>6 DEF GoodPartial, FormedPartial, IsWhole
  <2>2. \A k \in DOMAIN split_packets : GoodPartial(k, split_packets[k], received)
        BY <1>1 DEF Sorted, GoodPartials
  <2>3. ASSUME NEW k \in DOMAIN split_packets, NEW l \in DOMAIN split_packets,
               NEW m \in 1..messages', Begins(split_packets[k], m), Begins(split_packets[l], m)
        PROVE  k = l
    <3>1. m \in 1..messages
      <4>1. GoodPartial(k, split_packets[k], received)
            BY <2>2
      <4>2. m <= messages
            BY <2>3, <4>1 DEF Begins, GoodPartial, FormedPartial, Kept
      <4>3. QED
            BY <1>3, <4>2
    <3>2. QED
          BY <1>1, <2>3, <3>1 DEF Sorted, GoodPartials
  <2>4. PICK P : P = split_packets
        OBVIOUS
  <2>5. PICK R : R = received
        OBVIOUS
  <2>6. \A k \in DOMAIN P : GoodPartial(k, P[k], R)'
        BY <2>1, <2>2, <2>4, <2>5
  <2>7. QED
        BY <1>2, <2>3, <2>4, <2>5, <2>6
           DEF GoodPartials, Begins, GoodPartial, FormedPartial, Kept, IsWhole
<1>8. GoodPayloads(handed, split_packets, received)'
  <2>1. \A b, P, seen : GoodPayload(b, P, seen) => GoodPayload(b, P, seen)'
    <3>1. \A b \in Seq(Frame) : b # <<>> => b[1] \in Frame
          BY EmptySeq, LenProperties
    <3>2. QED
          BY <1>2, <1>4, <1>5, <3>1 DEF GoodPayload, Begins, WholeMessage
  <2>2. QED
        BY <1>1, <1>2, <2>1 DEF Sorted, GoodPayloads
<1>9. ASSUME fresh PROVE Accounted(handed, split_packets, received, expired)'
  <2>1. received \subseteq Numbers
        BY <1>1, <1>9 DEF Reading
  <2>2. Accounted(handed, split_packets, received, expired)
        BY <1>1, <1>9 DEF Sorted
  <2>3. QED
        BY <1>2, <1>3, <2>1, <2>2 DEF Accounted, IsHandedUp, IsKept
<1>10. Sorted(handed, split_packets, received, expired)'
       BY <1>2, <1>7, <1>8, <1>9 DEF Sorted
<1>11. (arrived \subseteq Numbers)'
       BY <1>1, <1>2, <1>3 DEF Reading
<1>12. QED
       BY <1>1, <1>2, <1>10, <1>11 DEF Reading

\* push keeps to the numbers there are.
LEMMA PushedWithin ==
  ASSUME NEW q \in Seq(SeqNum \X SeqNum), NEW s \in SeqNum
  PROVE  Push(q, s) \in Seq(SeqNum \X SeqNum)
<1> DEFINE n == Len(q)
<1>1. n \in Nat /\ DOMAIN q = 1..n /\ \A i \in 1..n : q[i] \in SeqNum \X SeqNum
      BY LenProperties
<1>2. CASE q # <<>> /\ s = Last(q)[2] + 1
  <2>1. n \in 1..n /\ <<q[n][1], s>> \in SeqNum \X SeqNum
        BY <1>1, <1>2, EmptySeq
  <2>2. Push(q, s) = [q EXCEPT ![n] = <<@[1], s>>]
        BY <1>2 DEF Push
  <2>3. Push(q, s) \in [1..n -> SeqNum \X SeqNum]
        BY <1>1, <2>1, <2>2
  <2>4. QED
        BY <1>1, <2>3, IsSeq
<1>3. CASE ~(q # <<>> /\ s = Last(q)[2] + 1)
      BY <1>3, AppendProperties DEF Push
<1>4. QED
      BY <1>2, <1>3

\* The types of queue, client and ACKs: an ACK names what has been received.
LEMMA RestStep ==
  ASSUME SInv, [Next]_vars, Sending', Reading'
  PROVE  Rest'
<1>1. Sending /\ Reading /\ Rest /\ IInv /\ received' \subseteq SeqNum
      BY DEF SInv, Rest, Reading
<1>2. IInv' /\ Covered(recv_queue') = received'
      BY <1>1, StepIInv DEF IInv, QueueIsReceived
<1>3. recv_queue' \in Seq(SeqNum \X SeqNum)
  <2>1. ASSUME NEW s \in SeqNum, HandleFrames(s), ~Holds(recv_queue, s)
        PROVE  recv_queue' \in Seq(SeqNum \X SeqNum)
    <3>1. recv_queue' = Push(recv_queue, s)
          BY <2>1 DEF HandleFrames
    <3>2. QED
          BY <1>1, <3>1, PushedWithin DEF Rest
  <2>2. CASE recv_queue' = <<>>
        BY <2>2
  <2>3. CASE recv_queue' = recv_queue
        BY <1>1, <2>3 DEF Rest
  <2>4. QED
        BY QueueStep, <2>1, <2>2, <2>3
<1>4. client' \in {"up", "gone"} /\ clients' \in 1..MaxClients
      /\ (client' = "gone" => clients' < MaxClients)
      /\ unacked' \subseteq SeqNum /\ acks' \subseteq SUBSET SeqNum /\ losses' \in 0..MaxAckLosses
  <2>1. /\ client \in {"up", "gone"} /\ clients \in 1..MaxClients /\ clients \in Nat
        /\ client = "gone" => clients < MaxClients
        /\ unacked \subseteq SeqNum /\ acks \subseteq SUBSET SeqNum
        /\ losses \in 0..MaxAckLosses /\ losses \in Nat
        BY <1>1, ReceiveBounds DEF Rest
  <2>2. ASSUME NEW s \in SeqNum, HandleFrames(s)
        PROVE  /\ UNCHANGED <<client, clients, unacked, losses>>
               /\ acks' \subseteq acks \cup {received'}
    <3>1. CASE Holds(recv_queue, s)
          BY <2>2, <3>1 DEF HandleFrames, sender
    <3>2. CASE ~Holds(recv_queue, s)
          BY <1>2, <2>2, <3>2 DEF HandleFrames, sender
    <3>3. QED
          BY <3>1, <3>2
  <2>3. CASE \E s \in SeqNum : HandleFrames(s)
        BY <1>1, <2>1, <2>2, <2>3
  <2>4. CASE Request1 \/ Request2
        BY <2>1, <2>4 DEF Request1, Request2, sender, feedback
  <2>5. CASE Request2OfNewClient
        BY <2>1, <2>5, ReceiveBounds DEF Request2OfNewClient
  <2>6. CASE \/ \E k \in DOMAIN split_packets : SplitTimeout(k)
             \/ \E isStale \in BOOLEAN : TimeoutStale(isStale)
        BY <2>1, <2>6 DEF SplitTimeout, TimeoutStale, sender, feedback
  <2>7. ASSUME NEW ds, NEW ms, Number(ds, ms), Len(ds) \in Nat
        PROVE  /\ UNCHANGED <<client, clients, acks, losses>>
               /\ unacked' \subseteq SeqNum
    <3>1. /\ UNCHANGED <<client, clients, acks, losses>>
          /\ unacked' = unacked \cup (Len(datagrams) .. (Len(datagrams) + Len(ds) - 1))
          /\ Len(datagrams) + Len(ds) <= MaxDatagrams
          BY <2>7 DEF Number
    <3>2. Len(datagrams) \in Nat /\ Len(ds) \in Nat /\ MaxDatagrams \in Nat
          BY <1>1, <2>7, LenProperties, ReceiveBounds DEF Sending
    <3>3. (Len(datagrams) .. (Len(datagrams) + Len(ds) - 1)) \subseteq SeqNum
          BY <3>1, <3>2 DEF SeqNum
    <3>4. QED
          BY <2>1, <3>1, <3>3
  <2>8. CASE (\E n \in 1..MaxParts : Send(n)) \/ SendPacked
    <3>1. ASSUME NEW n \in 1..MaxParts, Send(n) PROVE \E ds, ms : Number(ds, ms) /\ Len(ds) \in Nat
      <4> DEFINE ds == [i \in 1..n |-> <<[message |-> messages + 1, split |-> Len(datagrams),
                                          part |-> i - 1, parts |-> n]>>]
      <4>1. Number(ds, <<messages + 1>>)
            BY <3>1 DEF Send
      <4>2. Len(ds) = n /\ n \in Nat
            BY ReceiveBounds
      <4>3. QED
            BY <4>1, <4>2
    <3>2. ASSUME SendPacked PROVE \E ds, ms : Number(ds, ms) /\ Len(ds) \in Nat
      <4> DEFINE d == [i \in 1..2 |->
                         [message |-> messages + i, split |-> 0, part |-> 0, parts |-> 1]]
      <4>1. Number(<<d>>, <<messages + 1, messages + 2>>)
            BY <3>2 DEF SendPacked
      <4>2. Len(<<d>>) \in Nat
            OBVIOUS
      <4>3. QED
            BY <4>1, <4>2
    <3>3. QED
          BY <2>1, <2>7, <2>8, <3>1, <3>2
  <2>9. CASE \E a \in acks : AckArrives(a) \/ AckLost(a)
        BY <2>1, <2>9, ReceiveBounds DEF AckArrives, AckLost, sender
  <2>10. CASE Leave
         BY <2>1, <2>10 DEF Leave, feedback
  <2>11. CASE UNCHANGED vars
         BY <2>1, <2>11 DEF vars, sender, feedback
  <2>12. QED
         BY <2>3, <2>4, <2>5, <2>6, <2>8, <2>9, <2>10, <2>11 DEF Next
<1>5. QED
      BY <1>2, <1>3, <1>4 DEF Rest

\* At first nothing has been numbered.
LEMMA InitSInv == Init => SInv
<1> SUFFICES ASSUME Init PROVE SInv
    OBVIOUS
<1>1. /\ datagrams = <<>> /\ sent = <<>> /\ messages = 0 /\ handed = <<>> /\ split_packets = <<>>
      /\ received = {} /\ arrived = {} /\ expired = {} /\ entry = "Connected" /\ fresh = TRUE
      BY DEF Init
<1>2. Len(sent) = 0 /\ Len(datagrams) = 0 /\ DOMAIN sent = {} /\ Numbers = {}
      BY <1>1 DEF Numbers
<1>3. \A m : ~Own(m)
      BY <1>1, <1>2 DEF Own
<1>4. Sending
  <2>1. Counted
        BY <1>1, <1>2, ReceiveBounds DEF Counted
  <2>2. datagrams \in Seq(Seq(Frame)) /\ Len(datagrams) <= MaxDatagrams
        BY <1>1, <1>2, ReceiveBounds
  <2>3. QED
        BY <1>2, <1>3, <2>1, <2>2 DEF Sending
<1>5. Sorted(handed, split_packets, received, expired)
      BY <1>1, <1>2 DEF Sorted, GoodPartials, GoodPayloads, Accounted
<1>6. Reading
      BY <1>1, <1>5 DEF Reading
<1>7. Rest
      BY ReceiveBounds DEF Init, Rest, IInv, QueueIsReceived, Covered
<1>8. QED
      BY <1>4, <1>6, <1>7 DEF SInv

\* Every step keeps the invariant.
LEMMA StepSInv ==
  ASSUME SInv, [Next]_vars
  PROVE  SInv'
<1>1. Sending' /\ Reading'
  <2>1. CASE \E s \in SeqNum : HandleFrames(s)
        BY <2>1, HandleFramesReads
  <2>2. CASE Request2OfNewClient
        BY <2>2, NewClientReads
  <2>3. CASE \E k \in DOMAIN split_packets : SplitTimeout(k)
        BY <2>3, SplitTimeoutReads
  <2>4. CASE \E isStale \in BOOLEAN : TimeoutStale(isStale)
        BY <2>4, TimeoutStaleReads
  <2>5. ASSUME NEW n \in 1..MaxParts, Send(n) PROVE Sending' /\ Reading'
    <3>1. Sending' /\ Goes(n)
          BY <2>5, SendNumbers DEF SInv
    <3>2. UNCHANGED <<connection, handed, history, client>>
          BY <2>5 DEF Send, Number
    <3>3. n \in Nat
          BY ReceiveBounds
    <3>4. QED
          BY <3>1, <3>2, <3>3, SendingReads
  <2>6. CASE SendPacked
    <3>1. Sending' /\ Goes(1)
          BY <2>6, SendPackedNumbers DEF SInv
    <3>2. UNCHANGED <<connection, handed, history, client>>
          BY <2>6 DEF SendPacked, Number
    <3>3. QED
          BY <3>1, <3>2, SendingReads
  <2>7. CASE \/ Request1 \/ Request2 \/ Leave \/ (\E a \in acks : AckArrives(a) \/ AckLost(a))
             \/ UNCHANGED vars
        BY <2>7, OthersRead
  <2>8. QED
        BY <2>1, <2>2, <2>3, <2>4, <2>5, <2>6, <2>7 DEF Next
<1>2. QED
      BY <1>1, RestStep DEF SInv

(***************************************************************************)
(* Theorems                                                                *)
(***************************************************************************)
\* The invariant, of every behaviour.
THEOREM SortedInvariance == Spec => []SInv
  BY InitSInv, StepSInv, PTL DEF Spec

\* Types; a partial never has all its parts, nor one its count excludes.
THEOREM TypeCorrect == Spec => []TypeOK
<1>1. SInv => TypeOK
  <2> SUFFICES ASSUME SInv PROVE TypeOK
      OBVIOUS
  <2>1. Sending /\ Reading /\ Rest /\ Sorted(handed, split_packets, received, expired)
        BY DEF SInv, Reading
  <2>2. arrived \subseteq SeqNum
    <3>1. Len(datagrams) \in Nat /\ Len(datagrams) <= MaxDatagrams /\ MaxDatagrams \in Nat
          BY <2>1, LenProperties, ReceiveBounds DEF Sending
    <3>2. Numbers \subseteq SeqNum
          BY <3>1 DEF Numbers, SeqNum
    <3>3. QED
          BY <2>1, <3>2 DEF Reading
  <2>3. ASSUME NEW k \in DOMAIN split_packets, NEW p, p = split_packets[k]
        PROVE  /\ k \in SeqNum /\ p.count \in 2..MaxParts /\ p.old \in BOOLEAN
               /\ DOMAIN p.parts \subseteq 0..(p.count - 1) /\ ~IsWhole(p)
               /\ \A i \in DOMAIN p.parts : p.parts[i] \in Frame
    <3>1. GoodPartial(k, p, received)
          BY <2>1, <2>3 DEF Sorted, GoodPartials
    <3>2. QED
          BY <3>1 DEF GoodPartial, FormedPartial, Kept
  <2>4. handed \in Seq(Seq(Frame))
        BY <2>1 DEF Sorted, GoodPayloads
  <2>5. QED
        BY <2>1, <2>2, <2>3, <2>4 DEF TypeOK, Rest, Reading, Sending, Counted
<1>2. QED
      BY <1>1, SortedInvariance, PTL

\* feed_split never completes a payload with a part of another message, or leaves one
\* out, or puts them out of order, when the entry was made for the client.
THEOREM PayloadsAreWhole == Spec => []OnlyWholeMessages
<1>1. SInv => OnlyWholeMessages
      BY DEF SInv, Reading, Sorted, GoodPayloads, GoodPayload, WholeMessage, OnlyWholeMessages
<1>2. QED
      BY <1>1, SortedInvariance, PTL

\* handle_frames hands up no message twice, in whatever order its datagrams come and
\* however often, and whatever expires in between.
THEOREM HandedOnce == Spec => []NoDuplicates
<1>1. SInv => NoDuplicates
      BY DEF SInv, Reading, Sorted, GoodPayloads, NoDuplicates
<1>2. QED
      BY <1>1, SortedInvariance, PTL

\* A message of the client's, all of it read and no part of it dropped, is handed up: a
\* partial that kept all its parts would be whole.
LEMMA AllRead ==
  ASSUME SInv, fresh, NEW m, Own(m), m \notin expired, DatagramsOf(m) \subseteq arrived
  PROVE  \E h \in DOMAIN handed : handed[h][1].message = m
<1>1. /\ Sending /\ GoodPartials(split_packets, received)
      /\ Accounted(handed, split_packets, received, expired) /\ arrived = received
      BY DEF SInv, Reading, Sorted
<1>2. PICK s \in Numbers : \E f \in FramesAt(s) : f.message = m
      BY <1>1 DEF Sending, Own
<1>3. PICK f \in FramesAt(s) : f.message = m
      BY <1>2
<1>4. \A t \in Numbers : (\E e \in FramesAt(t) : e.message = m) => t \in received
      BY <1>1 DEF DatagramsOf, FramesAt, Numbers
<1>5. SUFFICES ASSUME ~IsHandedUp(m, handed) PROVE FALSE
      BY DEF IsHandedUp
<1>6. \A t \in Numbers : \A e \in FramesAt(t) : e.message = m => IsKept(e, split_packets)
      BY <1>1, <1>4, <1>5 DEF Accounted
<1>7. IsKept(f, split_packets)
      BY <1>3, <1>6
<1> DEFINE p == split_packets[f.split]
           n == f.parts
<1>8. /\ f.parts > 1 /\ f.split \in DOMAIN split_packets /\ f \in Frame
      /\ p.count = n /\ n \in Nat /\ DOMAIN p.parts \subseteq 0..(n - 1) /\ ~IsWhole(p)
      /\ f.split \in Nat /\ n = f.parts
  <2>1. f.parts > 1 /\ f.split \in DOMAIN split_packets /\ f \in Frame
        BY <1>1, <1>7, Numbered DEF IsKept
  <2>2. GoodPartial(f.split, p, received)
        BY <1>1, <2>1 DEF GoodPartials
  <2>3. f.part \in DOMAIN p.parts /\ p.parts[f.part] = f
        BY <1>7 DEF IsKept
  <2>4. p.count = n
        BY <2>2, <2>3 DEF GoodPartial, FormedPartial, Kept
  <2>5. QED
        BY <2>1, <2>2, <2>4, FrameFields DEF GoodPartial, FormedPartial
<1>9. ASSUME NEW q \in 0..(n - 1) PROVE q \in DOMAIN p.parts
  <2>1. WellCut(s, f)
        BY <1>1 DEF Sending
  <2>2. f.split + n <= Len(datagrams) /\ datagrams[f.split + q + 1] = <<PartOf(f, q)>>
        BY <1>8, <1>9, <2>1 DEF WellCut
  <2>3. f.split + q \in Numbers
    <3>1. Len(datagrams) \in Nat
          BY <1>1, LenProperties DEF Sending
    <3>2. QED
          BY <1>8, <1>9, <2>2, <3>1 DEF Numbers
  <2>4. FramesAt(f.split + q) = {PartOf(f, q)}
        BY <2>2 DEF FramesAt
  <2>5. /\ PartOf(f, q).message = m /\ PartOf(f, q).split = f.split /\ PartOf(f, q).part = q
        BY <1>3 DEF PartOf
  <2>6. IsKept(PartOf(f, q), split_packets)
        BY <1>6, <2>3, <2>4, <2>5
  <2>7. QED
        BY <2>5, <2>6 DEF IsKept
<1>10. DOMAIN p.parts = 0..(n - 1)
       BY <1>8, <1>9
<1>11. QED
       BY <1>8, <1>10, Whole

\* handle_frames and feed_split forget nothing they were given in time.
THEOREM NothingForgotten == Spec => []HeardIsHanded
<1>1. SInv => HeardIsHanded
  <2> SUFFICES ASSUME SInv, fresh, NEW i \in DOMAIN sent, sent[i] \notin expired,
                      DatagramsOf(sent[i]) \subseteq arrived
               PROVE  \E h \in DOMAIN handed : handed[h][1].message = sent[i]
      BY DEF HeardIsHanded
  <2>1. Own(sent[i])
    <3>1. /\ messages \in Nat /\ Len(sent) \in Nat /\ i \in 1..Len(sent) /\ sent[i] \in Nat
          /\ Len(sent) <= messages /\ sent[i] + Len(sent) = messages + i
      <4>1. sent \in Seq(1..MaxMessages) /\ messages \in Nat /\ Len(sent) <= messages
            BY ReceiveBounds DEF SInv, Sending, Counted
      <4>2. Len(sent) \in Nat /\ i \in 1..Len(sent) /\ sent[i] \in 1..MaxMessages
            BY <4>1, LenProperties, ElementOfSeq
      <4>3. QED
            BY <4>1, <4>2 DEF SInv, Sending, Counted
    <3>2. QED
          BY <3>1 DEF Own
  <2>2. QED
        BY <2>1, AllRead
<1>2. QED
      BY <1>1, SortedInvariance, PTL
=============================================================================
