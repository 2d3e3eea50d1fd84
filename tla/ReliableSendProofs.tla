--------------------------- MODULE ReliableSendProofs ---------------------------
(***************************************************************************)
(* ReliableSend, for every number of retries, payloads, parts, frames,     *)
(* losses and clients: types, that a frame is given up only after all      *)
(* retries, and that the sending half with its client implements           *)
(* OrderedChannel.                                                         *)
(***************************************************************************)
EXTENDS ReliableSend, SequenceTheorems, TLAPS

Numbers == 0 .. (Len(log) - 1)

\* What TypeOK needs: no datagram is on its way more often than it was sent, none
\* that was not built, and a removed entry leaves nothing pending.
Traffic ==
  /\ order_index <= offered
  /\ \A s \in SeqNum : /\ wire[s] <= copies[s] /\ copies[s] \in 0..(MaxRetries + 1)
                       /\ wire[s] > 0 => s \in Numbers
  /\ entry = "Absent" => pending = {}
  /\ client = "gone" => clients < MaxClients

IInv == TypeOK /\ Traffic

\* What the refinement needs: the frames carry what was sent under their order
\* index, and frames of one split id belong to one message.
Carried ==
  fresh =>
    /\ order_index = Len(sent)
    /\ \A s \in Numbers : /\ log[s + 1].order < Len(sent)
                          /\ log[s + 1].payload = sent[log[s + 1].order + 1]
                          /\ log[s + 1].parts > 1 => log[s + 1].split < next_split_id
    /\ \A s, t \in Numbers :
         log[s + 1].parts > 1 /\ log[t + 1].parts > 1 /\ log[s + 1].split = log[t + 1].split
           => log[s + 1].order = log[t + 1].order

\* The frames of one payload: as many as parts, all under one order index.
LEMMA FramesOfPayload ==
  ASSUME TypeOK, NEW p \in 1..MaxPayloads, NEW n \in 1..MaxParts
  PROVE  /\ Frames(p, n) \in Seq(Frame) /\ Len(Frames(p, n)) = n
         /\ \A i \in 1..n : Frames(p, n)[i] =
              [payload |-> p, order |-> order_index, split |-> next_split_id,
               part |-> i - 1, parts |-> n]
<1>0. n \in Nat
      BY SendBounds
<1>1. \A i \in 1..n : [payload |-> p, order |-> order_index, split |-> next_split_id,
                       part |-> i - 1, parts |-> n] \in Frame
      BY SendBounds DEF Frame, TypeOK
<1>2. Frames(p, n) \in [1..n -> Frame]
      BY <1>1 DEF Frames
<1>3. Frames(p, n) \in Seq(Frame) /\ Len(Frames(p, n)) = n
      BY <1>0, <1>2
<1>4. QED
      BY <1>3 DEF Frames

\* What BuildDatagrams does to the log: the frames of the next payload follow.
LEMMA LogGrows ==
  ASSUME TypeOK, offered < MaxPayloads, NEW n \in 1..MaxParts, BuildDatagrams(n)
  PROVE  /\ log' \in Seq(Frame) /\ Len(log') = Len(log) + n
         /\ \A s \in 0..(Len(log) - 1) : log'[s + 1] = log[s + 1]
         /\ \A s \in Len(log)..(Len(log) + n - 1) :
              /\ log'[s + 1].payload = offered + 1 /\ log'[s + 1].order = order_index
              /\ log'[s + 1].split = next_split_id /\ log'[s + 1].parts = n
<1> DEFINE fs == Frames(offered + 1, n)
<1>1. offered + 1 \in 1..MaxPayloads /\ n \in Nat /\ n > 0
      BY SendBounds DEF TypeOK
<1>2. /\ fs \in Seq(Frame) /\ Len(fs) = n
      /\ \A i \in 1..n : fs[i] = [payload |-> offered + 1, order |-> order_index,
                                  split |-> next_split_id, part |-> i - 1, parts |-> n]
      BY <1>1, FramesOfPayload
<1>3. log' = log \o fs /\ log \in Seq(Frame) /\ Len(log) \in Nat
      BY DEF BuildDatagrams, TypeOK
<1> HIDE DEF fs
<1>4. /\ log' \in Seq(Frame) /\ Len(log') = Len(log) + Len(fs)
      /\ \A i \in 1..(Len(log) + Len(fs)) :
           log'[i] = IF i <= Len(log) THEN log[i] ELSE fs[i - Len(log)]
      BY <1>2, <1>3, ConcatProperties
<1>5. \A s \in 0..(Len(log) - 1) : log'[s + 1] = log[s + 1]
      BY <1>2, <1>3, <1>4
<1>6. \A s \in Len(log)..(Len(log) + n - 1) : log'[s + 1] = fs[s + 1 - Len(log)]
  <2>1. TAKE s \in Len(log)..(Len(log) + n - 1)
  <2>2. s + 1 \in 1..(Len(log) + Len(fs)) /\ ~(s + 1 <= Len(log))
        BY <1>1, <1>2, <1>3
  <2>3. QED
        BY <2>2, <1>4
<1>7. \A s \in Len(log)..(Len(log) + n - 1) : s + 1 - Len(log) \in 1..n
      BY <1>1, <1>3
<1>8. QED
      BY <1>2, <1>4, <1>5, <1>6, <1>7


\* A step that retransmits keeps what TypeOK and Traffic say of the counters.
LEMMA RetransmitCounts ==
  ASSUME IInv, NEW S \in SUBSET pending, \A s \in S : retries[s] < MaxRetries, Retransmit(S)
  PROVE  /\ retries' \in [SeqNum -> 0..MaxRetries] /\ wire' \in [SeqNum -> 0..(MaxRetries + 1)]
         /\ \A s \in pending : copies'[s] = retries'[s] + 1
         /\ \A s \in SeqNum : /\ wire'[s] <= copies'[s] /\ copies'[s] \in 0..(MaxRetries + 1)
                              /\ wire'[s] > 0 => s \in Numbers
         /\ young' = young \cup S
<1>1. pending \subseteq SeqNum /\ pending \subseteq Numbers
      BY SendBounds DEF IInv, TypeOK, Numbers, SeqNum
<1>2. /\ retries \in [SeqNum -> 0..MaxRetries] /\ wire \in [SeqNum -> 0..(MaxRetries + 1)]
      /\ \A s \in pending : copies[s] = retries[s] + 1
      /\ \A s \in SeqNum : /\ wire[s] <= copies[s] /\ copies[s] \in 0..(MaxRetries + 1)
                           /\ wire[s] > 0 => s \in Numbers
      BY DEF IInv, TypeOK, Traffic
<1>3. ASSUME NEW s \in SeqNum
      PROVE  /\ retries'[s] \in 0..MaxRetries /\ copies'[s] \in 0..(MaxRetries + 1)
             /\ wire'[s] \in 0..(MaxRetries + 1)
             /\ wire'[s] <= copies'[s] /\ (wire'[s] > 0 => s \in Numbers)
             /\ s \in pending => copies'[s] = retries'[s] + 1
  <2>0. /\ retries'[s] = (IF s \in S THEN retries[s] + 1 ELSE retries[s])
        /\ copies'[s] = (IF s \in S THEN copies[s] + 1 ELSE copies[s])
        /\ wire'[s] = (IF s \in S THEN wire[s] + 1 ELSE wire[s])
        BY <1>3 DEF Retransmit
  <2>1. CASE s \in S
    <3>1. s \in pending /\ s \in Numbers /\ retries[s] < MaxRetries
          BY <2>1, <1>1
    <3>2. QED
          BY <2>0, <2>1, <3>1, <1>2, <1>3, RetriesAssumption
  <2>2. CASE s \notin S
        BY <2>0, <2>2, <1>2, <1>3
  <2>3. QED
        BY <2>1, <2>2
<1>4. /\ retries' \in [SeqNum -> 0..MaxRetries] /\ wire' \in [SeqNum -> 0..(MaxRetries + 1)]
  <2>1. /\ retries' = [s \in SeqNum |-> retries'[s]]
        /\ wire' = [s \in SeqNum |-> wire'[s]]
        BY DEF Retransmit
  <2>2. QED
        BY <2>1, <1>3
<1>5. QED
      BY <1>1, <1>3, <1>4 DEF Retransmit

\* The outbound task: new datagrams get fresh numbers, one copy each.
LEMMA OutboundStep == ASSUME IInv, NEW n \in 1..MaxParts, Outbound(n) PROVE IInv'
<1> USE DEF IInv
<1>1. CASE BuildDatagrams(n)
  <2> DEFINE new == Len(log) .. (Len(log) + n - 1)
  <2>1. offered < MaxPayloads /\ n \in Nat /\ n > 0 /\ Len(log) \in Nat
        /\ Len(log) + n <= MaxFrames /\ MaxFrames \in Nat /\ MaxRetries \in Nat
        BY <1>1, SendBounds, RetriesAssumption DEF Outbound, BuildDatagrams, TypeOK
  <2>2. log' \in Seq(Frame) /\ Len(log') = Len(log) + n
        BY <1>1, <2>1, LogGrows
  <2>3. new \subseteq SeqNum /\ Numbers \subseteq SeqNum /\ new \cap Numbers = {}
        /\ Numbers' = Numbers \cup new
        BY <2>1, <2>2 DEF SeqNum, Numbers
  <2>4. ASSUME NEW s \in SeqNum
        PROVE  /\ wire'[s] = (IF s \in new THEN 1 ELSE wire[s])
               /\ copies'[s] = (IF s \in new THEN 1 ELSE copies[s])
               /\ retries'[s] = (IF s \in new THEN 0 ELSE retries[s])
        BY <1>1, <2>4 DEF BuildDatagrams
  <2>5. /\ wire' \in [SeqNum -> 0..(MaxRetries + 1)]
        /\ retries' \in [SeqNum -> 0..MaxRetries]
    <3>1. 0 \in 0..MaxRetries /\ 1 \in 0..(MaxRetries + 1)
          BY <2>1
    <3>2. /\ wire' = [s \in SeqNum |-> IF s \in new THEN 1 ELSE wire[s]]
          /\ retries' = [s \in SeqNum |-> IF s \in new THEN 0 ELSE retries[s]]
          BY <1>1 DEF BuildDatagrams
    <3>3. /\ \A s \in SeqNum : wire[s] \in 0..(MaxRetries + 1)
          /\ \A s \in SeqNum : retries[s] \in 0..MaxRetries
          BY DEF TypeOK
    <3> HIDE DEF new
    <3>4. QED
          BY <3>1, <3>2, <3>3
  <2>6. ASSUME NEW s \in SeqNum
        PROVE  /\ wire'[s] <= copies'[s] /\ copies'[s] \in 0..(MaxRetries + 1)
               /\ wire'[s] > 0 => s \in Numbers'
        BY <2>1, <2>3, <2>4, <2>6 DEF Traffic
  <2>7. pending' = pending \cup new /\ young' = young \cup new
        BY <1>1 DEF BuildDatagrams
  <2>8. ASSUME NEW s \in pending' PROVE copies'[s] = retries'[s] + 1
    <3>1. s \in SeqNum
          BY <2>3, <2>7, <2>8 DEF TypeOK, Numbers
    <3>2. QED
          BY <2>4, <2>7, <2>8, <3>1 DEF TypeOK
  <2>9. /\ order_index' = order_index + 1 /\ order_index' <= offered'
        /\ offered' \in 0..MaxPayloads /\ order_index' \in 0..MaxPayloads
        /\ next_split_id' \in 0..order_index'
        BY <1>1, <2>1, SendBounds DEF Outbound, BuildDatagrams, TypeOK, Traffic
  <2>10. sent' \in Seq(1..MaxPayloads)
    <3>1. sent \in Seq(1..MaxPayloads) /\ offered + 1 \in 1..MaxPayloads
          BY <2>1, SendBounds DEF TypeOK
    <3>2. sent' = Append(sent, offered + 1)
          BY <1>1 DEF BuildDatagrams
    <3>3. QED
          BY <3>1, <3>2, AppendProperties
  <2>11. pending' \subseteq Numbers' /\ young' \subseteq pending' /\ inbox' \subseteq Numbers'
    <3>1. inbox' = inbox
          BY DEF Outbound
    <3>2. inbox \subseteq Numbers /\ pending \subseteq Numbers /\ young \subseteq pending
          BY DEF TypeOK, Numbers
    <3>3. QED
          BY <2>3, <2>7, <3>1, <3>2
  <2>12. TypeOK'
    <3>1. /\ entry' = entry /\ timer' = timer /\ client' = client /\ clients' = clients
          /\ delivered' = delivered /\ losses' = losses /\ fresh' = fresh
          BY <1>1 DEF Outbound, BuildDatagrams
    <3>2. Len(log') <= MaxFrames
          BY <2>1, <2>2
    <3>3. QED
          BY <2>2, <2>5, <2>8, <2>9, <2>10, <2>11, <3>1, <3>2 DEF TypeOK, Numbers
  <2>13. Traffic'
    <3>1. entry' = "Connected" /\ client' = client /\ clients' = clients
          BY <1>1 DEF Outbound, BuildDatagrams
    <3>2. QED
          BY <2>6, <2>9, <3>1 DEF Traffic
  <2>14. QED
        BY <2>12, <2>13
<1>2. CASE entry # "Connected" /\ UNCHANGED <<connection, queue, wire, sent>>
      BY <1>2, SendBounds DEF Outbound, TypeOK, Traffic, Numbers, connection, queue
<1>3. QED
      BY <1>1, <1>2 DEF Outbound

\* Acknowledgements and the timer: what is pending shrinks, or is retransmitted.
LEMMA AckStep == ASSUME IInv, NEW S \in SUBSET inbox, HandleAck(S) PROVE IInv'
BY DEF IInv, HandleAck, TypeOK, Traffic, Numbers, connection, network, peer

LEMMA NackStep ==
  ASSUME IInv, NEW S \in SUBSET Numbers, HandleNack(S) PROVE IInv'
<1> DEFINE T == {s \in S \cap pending : retries[s] < MaxRetries}
<1>1. Retransmit(T) /\ T \in SUBSET pending /\ \A s \in T : retries[s] < MaxRetries
      BY DEF HandleNack
<1> HIDE DEF T
<1>2. /\ retries' \in [SeqNum -> 0..MaxRetries] /\ wire' \in [SeqNum -> 0..(MaxRetries + 1)]
      /\ \A s \in pending : copies'[s] = retries'[s] + 1
      /\ \A s \in SeqNum : /\ wire'[s] <= copies'[s] /\ copies'[s] \in 0..(MaxRetries + 1)
                           /\ wire'[s] > 0 => s \in Numbers
      /\ young' = young \cup T
      BY <1>1, RetransmitCounts
<1>3. QED
      BY <1>1, <1>2 DEF IInv, HandleNack, TypeOK, Traffic, Numbers, connection, peer

LEMMA ResendStep == ASSUME IInv, ResendPending PROVE IInv'
<1>1. Retransmit(Due) /\ Due \in SUBSET pending /\ \A s \in Due : retries[s] < MaxRetries
      BY DEF ResendPending, Due
<1>2. /\ retries' \in [SeqNum -> 0..MaxRetries] /\ wire' \in [SeqNum -> 0..(MaxRetries + 1)]
      /\ \A s \in pending : copies'[s] = retries'[s] + 1
      /\ \A s \in SeqNum : /\ wire'[s] <= copies'[s] /\ copies'[s] \in 0..(MaxRetries + 1)
                           /\ wire'[s] > 0 => s \in Numbers
      /\ young' = young \cup Due
      BY <1>1, RetransmitCounts
<1>3. QED
      BY <1>1, <1>2 DEF IInv, ResendPending, TypeOK, Traffic, Numbers, connection, peer

LEMMA SweepStep == ASSUME IInv, NEW b \in BOOLEAN, TimeoutStale(b) PROVE IInv'
<1>1. pending' \subseteq pending /\ young' \subseteq pending'
      /\ (entry' = "Absent" => pending' = {})
      BY DEF TimeoutStale, IInv, Traffic
<1>2. /\ entry' \in {"Absent", "Handshaking", "Connected"} /\ timer' = "resend"
      /\ UNCHANGED <<order_index, next_split_id, log, retries, copies, network, peer, offered>>
      BY DEF TimeoutStale, IInv, TypeOK
<1>3. QED
      BY <1>1, <1>2 DEF IInv, TypeOK, Traffic, Numbers, peer, network

\* The handshake and the clients: a new entry starts with an empty log, with
\* nothing pending and nothing on its way.
LEMMA HandshakeStep ==
  ASSUME IInv, Request1 \/ Request2 \/ Request2OfNewClient \/ Leave PROVE IInv'
<1>1. CASE Request1
      BY <1>1 DEF IInv, Request1, TypeOK, Traffic, Numbers, queue, network, peer
<1>2. CASE Request2
      BY <1>2 DEF IInv, Request2, HandleRequest2, TypeOK, Traffic, Numbers, queue, network, peer
<1>3. CASE Leave
      BY <1>3, SendBounds
      DEF IInv, Leave, TypeOK, Traffic, Numbers, connection, queue, network
<1>4. CASE Request2OfNewClient
  <2>1. CASE entry = "Absent"
    <3>1. pending = {} /\ young = {}
          BY <2>1 DEF IInv, Traffic, TypeOK
    <3>2. log' = <<>> /\ order_index' = 0 /\ next_split_id' = 0 /\ entry' = "Connected"
          BY <1>4, <2>1 DEF Request2OfNewClient, HandleRequest2
    <3>3. log' \in Seq(Frame) /\ Len(log') = 0
          BY <3>2
    <3>4. /\ wire' = NoCopies /\ \A s \in SeqNum : wire'[s] = 0
          /\ wire' \in [SeqNum -> 0..(MaxRetries + 1)]
          BY <1>4, <2>1, RetriesAssumption DEF Request2OfNewClient, NoCopies
    <3>5. clients' \in 1..MaxClients
          BY <1>4, SendBounds DEF IInv, TypeOK, Traffic, Request2OfNewClient
    <3>6. /\ fresh' \in BOOLEAN /\ inbox' = {} /\ sent' = <<>> /\ delivered' = <<>>
          /\ client' = "up" /\ UNCHANGED <<queue, timer, losses, offered>>
          BY <1>4, <2>1 DEF Request2OfNewClient
    <3>7. TypeOK'
          BY <3>1, <3>2, <3>3, <3>4, <3>5, <3>6, SendBounds DEF IInv, TypeOK, queue
    <3>8. Traffic'
          BY <3>1, <3>2, <3>4, <3>6, RetriesAssumption DEF IInv, TypeOK, Traffic, queue
    <3>9. QED
          BY <3>7, <3>8 DEF IInv
  <2>2. CASE entry # "Absent"
        BY <1>4, <2>2, SendBounds
        DEF IInv, Request2OfNewClient, HandleRequest2, TypeOK, Traffic, Numbers, queue, network
  <2>3. QED
        BY <2>1, <2>2
<1>5. QED
      BY <1>1, <1>2, <1>3, <1>4

\* The network and the client.
LEMMA PeerStep ==
  ASSUME IInv,
         \/ \E s \in SeqNum : IntervalOver(s) \/ Lose(s)
         \/ \E s \in SeqNum, copy \in BOOLEAN : Receive(s, copy)
         \/ HandUp
  PROVE  IInv'
<1>1. ASSUME NEW s \in SeqNum, IntervalOver(s) PROVE IInv'
      BY <1>1 DEF IInv, IntervalOver, TypeOK, Traffic, Numbers, connection, network, peer
<1>2. ASSUME NEW s \in SeqNum, wire[s] > 0, NEW w, w = [wire EXCEPT ![s] = @ - 1]
      PROVE  /\ w \in [SeqNum -> 0..(MaxRetries + 1)]
             /\ \A t \in SeqNum : w[t] <= copies[t] /\ (w[t] > 0 => t \in Numbers)
  <2>1. /\ wire \in [SeqNum -> 0..(MaxRetries + 1)] /\ MaxRetries \in Nat
        /\ \A t \in SeqNum : /\ wire[t] <= copies[t] /\ copies[t] \in 0..(MaxRetries + 1)
                             /\ wire[t] > 0 => t \in Numbers
        BY RetriesAssumption DEF IInv, TypeOK, Traffic
  <2>2. wire[s] - 1 \in 0..(MaxRetries + 1)
        BY <1>2, <2>1
  <2>3. \A t \in SeqNum : w[t] = IF t = s THEN wire[s] - 1 ELSE wire[t]
        BY <1>2, <2>1
  <2>4. w \in [SeqNum -> 0..(MaxRetries + 1)]
        BY <1>2, <2>1, <2>2
  <2>5. QED
        BY <2>1, <2>3, <2>4, <1>2
<1>3. ASSUME NEW s \in SeqNum, Lose(s) PROVE IInv'
  <2>1. wire[s] > 0 /\ wire' = [wire EXCEPT ![s] = @ - 1] /\ losses' \in 0..MaxLosses
        BY <1>3, SendBounds DEF Lose, IInv, TypeOK
  <2>2. QED
        BY <1>2, <1>3, <2>1
        DEF IInv, Lose, TypeOK, Traffic, Numbers, connection, queue, peer
<1>4. ASSUME NEW s \in SeqNum, NEW copy \in BOOLEAN, Receive(s, copy) PROVE IInv'
  <2>1. wire[s] > 0 /\ s \in Numbers
        BY <1>4 DEF Receive, IInv, Traffic
  <2>2. wire' = wire \/ wire' = [wire EXCEPT ![s] = @ - 1]
        BY <1>4 DEF Receive
  <2>3. inbox' \subseteq Numbers
        BY <1>4, <2>1 DEF Receive, IInv, TypeOK, Numbers
  <2>4. /\ wire' \in [SeqNum -> 0..(MaxRetries + 1)]
        /\ \A t \in SeqNum : wire'[t] <= copies[t] /\ (wire'[t] > 0 => t \in Numbers)
        BY <1>2, <2>1, <2>2 DEF IInv, TypeOK, Traffic
  <2>5. QED
        BY <1>4, <2>3, <2>4 DEF IInv, Receive, TypeOK, Traffic, Numbers, connection, queue
<1>5. CASE HandUp
  <2>0. PICK f \in Received : \E g \in Whole(f) : delivered' = Append(delivered, g.payload)
        BY <1>5 DEF HandUp
  <2>1. PICK g \in Whole(f) : delivered' = Append(delivered, g.payload)
        BY <2>0
  <2>2. ASSUME NEW h \in Received PROVE h \in Frame
    <3>1. PICK s \in inbox : h = log[s + 1]
          BY <2>2 DEF Received
    <3>2. log \in Seq(Frame) /\ s + 1 \in 1..Len(log)
          BY DEF IInv, TypeOK
    <3>3. QED
          BY <3>1, <3>2, ElementOfSeq
  <2>3. g \in Frame
        BY <2>1, <2>2 DEF Whole
  <2>4. g.payload \in 1..MaxPayloads
        BY <2>3 DEF Frame
  <2>5. delivered' \in Seq(1..MaxPayloads)
        BY <2>1, <2>4, AppendProperties DEF IInv, TypeOK
  <2>6. QED
        BY <1>5, <2>5 DEF IInv, HandUp, TypeOK, Traffic, Numbers, connection, queue, network
<1>6. QED
      BY <1>1, <1>3, <1>4, <1>5

LEMMA Inductive == IInv /\ [Next]_vars => IInv'
<1> SUFFICES ASSUME IInv, [Next]_vars PROVE IInv'
    OBVIOUS
<1>1. ASSUME NEW S \in SUBSET (0..(Len(log) - 1)), HandleNack(S) PROVE IInv'
      BY <1>1, NackStep DEF Numbers
<1>2. CASE UNCHANGED vars
      BY <1>2 DEF vars, IInv, TypeOK, Traffic, Numbers, connection, queue, network, peer
<1>3. QED
      BY <1>1, <1>2, OutboundStep, AckStep, ResendStep, SweepStep, HandshakeStep, PeerStep
      DEF Next

LEMMA Invariance == Spec => []IInv
<1>1. Init => IInv
  <2> SUFFICES ASSUME Init PROVE IInv
      OBVIOUS
  <2>1. 0 \in 0..MaxRetries /\ 0 \in 0..(MaxRetries + 1) /\ 1 \in 1..MaxClients
        BY RetriesAssumption, SendBounds
  <2>2. NoCopies \in [SeqNum -> 0..MaxRetries] /\ NoCopies \in [SeqNum -> 0..(MaxRetries + 1)]
        BY <2>1 DEF NoCopies
  <2>3. log = <<>> /\ log \in Seq(Frame) /\ Len(log) = 0
        BY DEF Init
  <2>4. QED
        BY <2>1, <2>2, <2>3, SendBounds DEF Init, IInv, TypeOK, Traffic, NoCopies
<1>2. QED
      BY <1>1, Inductive, PTL DEF Spec

\* TypeOK of ReliableSend: timer and NACKs together never retry a frame more than
\* MAX_RETRIES times, and no number is pending, or on its way, that was not built.
THEOREM TypeCorrect == Spec => []TypeOK
<1>1. IInv => TypeOK
      BY DEF IInv
<1>2. QED
      BY <1>1, Invariance, PTL

\* GivesUpOnlyAfterRetries: pending shrinks by an ACK of what the client has, or
\* by the sweep of a frame that was sent 1 + MAX_RETRIES times.
THEOREM GiveUpCorrect == Spec => GivesUpOnlyAfterRetries
<1>1. ASSUME IInv, [Next]_vars, NEW s \in pending \ pending', entry' # "Absent"
      PROVE  s \in inbox \/ copies[s] = MaxRetries + 1
  <2>1. CASE \E S \in SUBSET inbox : HandleAck(S)
        BY <1>1, <2>1 DEF HandleAck
  <2>2. CASE \E b \in BOOLEAN : TimeoutStale(b)
    <3>1. retries[s] \in 0..MaxRetries /\ ~(retries[s] < MaxRetries)
      <4>1. s \in SeqNum
            BY <1>1, SendBounds DEF IInv, TypeOK, SeqNum
      <4>2. QED
            BY <1>1, <2>2, <4>1 DEF IInv, TypeOK, TimeoutStale
    <3>2. copies[s] = retries[s] + 1
          BY <1>1 DEF IInv, TypeOK
    <3>3. QED
          BY <3>1, <3>2, RetriesAssumption
  <2>3. CASE pending \subseteq pending'
        BY <1>1, <2>3
  <2>4. [Next]_vars => \/ \E S \in SUBSET inbox : HandleAck(S)
                       \/ \E b \in BOOLEAN : TimeoutStale(b)
                       \/ pending \subseteq pending'
        BY DEF Next, vars, Outbound, BuildDatagrams, HandleNack, ResendPending, IntervalOver,
           Lose, Receive, Request1, Request2, Request2OfNewClient, HandUp, Leave, queue,
           Retransmit, connection
  <2>5. QED
        BY <1>1, <2>1, <2>2, <2>3, <2>4
<1>2. IInv /\ [Next]_vars =>
        [\A s \in pending \ pending' :
           entry' # "Absent" => s \in inbox \/ copies[s] = MaxRetries + 1]_vars
      BY <1>1
<1>3. QED
      BY <1>2, Invariance, PTL DEF Spec, GivesUpOnlyAfterRetries

-----------------------------------------------------------------------------
\* Carried holds at first, and every step keeps it: only BuildDatagrams adds to
\* the log, under the next order index and an unused split id, and only a new
\* entry, which a new client finds, loses it.
LEMMA CarriedStep == ASSUME IInv, Carried, [Next]_vars PROVE Carried'
<1>1. ASSUME NEW n \in 1..MaxParts, Outbound(n) PROVE Carried'
  <2>1. CASE BuildDatagrams(n)
    <3> SUFFICES ASSUME fresh PROVE Carried'
        BY <1>1 DEF Outbound, Carried
    <3>1. offered < MaxPayloads /\ offered + 1 \in 1..MaxPayloads /\ n \in Nat /\ n > 0
          /\ Len(log) \in Nat
          BY <1>1, SendBounds DEF Outbound, IInv, TypeOK
    <3>2. /\ log' \in Seq(Frame) /\ Len(log') = Len(log) + n
          /\ \A s \in 0..(Len(log) - 1) : log'[s + 1] = log[s + 1]
          /\ \A s \in Len(log)..(Len(log) + n - 1) :
               /\ log'[s + 1].payload = offered + 1 /\ log'[s + 1].order = order_index
               /\ log'[s + 1].split = next_split_id /\ log'[s + 1].parts = n
          BY <2>1, <3>1, LogGrows DEF IInv
    <3>3. /\ sent' = Append(sent, offered + 1) /\ order_index' = order_index + 1
          /\ next_split_id' = (IF n = 1 THEN next_split_id ELSE next_split_id + 1)
          /\ fresh' = fresh
          BY <1>1, <2>1 DEF BuildDatagrams, Outbound
    <3>4. /\ order_index = Len(sent) /\ Len(sent) \in Nat /\ next_split_id \in Nat
          /\ sent \in Seq(1..MaxPayloads)
          BY DEF Carried, IInv, TypeOK
    <3>5. /\ Len(sent') = Len(sent) + 1 /\ sent'[Len(sent) + 1] = offered + 1
          /\ \A i \in 1..Len(sent) : sent'[i] = sent[i]
          BY <3>1, <3>3, <3>4, AppendProperties
    <3>6. \A s \in Numbers' : s \in Numbers \/ s \in Len(log)..(Len(log) + n - 1)
          BY <3>1, <3>2 DEF Numbers
    <3>7. ASSUME NEW s \in Numbers
          PROVE  /\ log'[s + 1] = log[s + 1] /\ log[s + 1].order \in Nat
                 /\ log[s + 1].order < Len(sent) /\ log[s + 1].parts \in Nat
                 /\ log[s + 1].payload = sent[log[s + 1].order + 1]
                 /\ log[s + 1].parts > 1 => log[s + 1].split < next_split_id
                 /\ log[s + 1].split \in Nat
      <4>1. log \in Seq(Frame) /\ s + 1 \in 1..Len(log)
            BY <3>1 DEF IInv, TypeOK, Numbers
      <4>2. log[s + 1] \in Frame
            BY <4>1, ElementOfSeq
      <4>3. /\ log[s + 1].order \in Nat /\ log[s + 1].parts \in Nat
            /\ log[s + 1].split \in Nat
            BY <4>2, SendBounds DEF Frame
      <4>4. /\ log[s + 1].order < Len(sent)
            /\ log[s + 1].payload = sent[log[s + 1].order + 1]
            /\ log[s + 1].parts > 1 => log[s + 1].split < next_split_id
            BY DEF Carried
      <4>5. log'[s + 1] = log[s + 1]
            BY <3>2 DEF Numbers
      <4>6. QED
            BY <4>3, <4>4, <4>5
    <3>8. ASSUME NEW s \in Numbers'
          PROVE  /\ log'[s + 1].order < Len(sent')
                 /\ log'[s + 1].payload = sent'[log'[s + 1].order + 1]
                 /\ log'[s + 1].parts > 1 => log'[s + 1].split < next_split_id'
      <4>1. CASE s \in Numbers
        <5>1. log[s + 1].order + 1 \in 1..Len(sent)
              BY <3>4, <3>7, <4>1
        <5>2. sent'[log[s + 1].order + 1] = sent[log[s + 1].order + 1]
              BY <3>5, <5>1
        <5>3. log[s + 1].parts > 1 => log[s + 1].split < next_split_id'
              BY <3>3, <3>4, <3>7, <4>1
        <5>4. log[s + 1].order < Len(sent')
              BY <3>4, <3>5, <3>7, <4>1
        <5>5. QED
              BY <3>7, <4>1, <5>2, <5>3, <5>4
      <4>2. CASE s \in Len(log)..(Len(log) + n - 1)
        <5>1. /\ log'[s + 1].order = Len(sent) /\ log'[s + 1].payload = offered + 1
              /\ log'[s + 1].split = next_split_id /\ log'[s + 1].parts = n
              BY <3>2, <3>4, <4>2
        <5>2. n > 1 => next_split_id < next_split_id'
              BY <3>3, <3>4
        <5>3. Len(sent) < Len(sent')
              BY <3>4, <3>5
        <5>4. QED
              BY <3>5, <5>1, <5>2, <5>3
      <4>3. QED
            BY <3>6, <4>1, <4>2
    <3>9. ASSUME NEW s \in Numbers', NEW t \in Numbers',
                 log'[s + 1].parts > 1, log'[t + 1].parts > 1,
                 log'[s + 1].split = log'[t + 1].split
          PROVE  log'[s + 1].order = log'[t + 1].order
      <4>1. CASE s \in Numbers /\ t \in Numbers
            BY <3>7, <3>9, <4>1 DEF Carried
      <4>2. CASE s \notin Numbers /\ t \notin Numbers
            BY <3>2, <3>6, <4>2
      <4>3. ASSUME NEW u \in Numbers, NEW v \in Len(log)..(Len(log) + n - 1),
                   log'[u + 1].parts > 1
            PROVE  log'[u + 1].split # log'[v + 1].split
            BY <3>2, <3>4, <3>7, <4>3
      <4>4. QED
            BY <3>6, <3>9, <4>1, <4>2, <4>3
    <3>10. QED
          BY <3>3, <3>4, <3>5, <3>8, <3>9 DEF Carried
  <2>2. CASE entry # "Connected" /\ UNCHANGED <<connection, queue, wire, sent>>
        BY <1>1, <2>2 DEF Outbound, Carried, Numbers, connection
  <2>3. QED
        BY <1>1, <2>1, <2>2 DEF Outbound
<1>2. CASE Request2OfNewClient
  <2>1. CASE entry = "Absent"
    <3>1. log' = <<>> /\ Len(log') = 0 /\ order_index' = 0 /\ sent' = <<>> /\ Len(sent') = 0
          BY <1>2, <2>1 DEF Request2OfNewClient, HandleRequest2
    <3>2. Numbers' = {}
          BY <3>1 DEF Numbers
    <3>3. QED
          BY <3>1, <3>2 DEF Carried
  <2>2. CASE entry # "Absent"
        BY <1>2, <2>2 DEF Request2OfNewClient, Carried
  <2>3. QED
        BY <2>1, <2>2
<1>3. CASE Request2
      BY <1>3 DEF Request2, HandleRequest2, Carried, Numbers, peer
<1>4. CASE UNCHANGED <<order_index, next_split_id, log, sent, fresh>>
      BY <1>4 DEF Carried, Numbers
<1>5. QED
  <2>1. ASSUME NEW S, HandleAck(S) \/ HandleNack(S) PROVE Carried'
        BY <1>4, <2>1 DEF HandleAck, HandleNack, connection, peer
  <2>2. CASE ResendPending
        BY <1>4, <2>2 DEF ResendPending, connection, peer
  <2>3. ASSUME NEW b \in BOOLEAN, TimeoutStale(b) PROVE Carried'
        BY <1>4, <2>3 DEF TimeoutStale, peer
  <2>4. ASSUME NEW s \in SeqNum, IntervalOver(s) \/ Lose(s) PROVE Carried'
        BY <1>4, <2>4 DEF IntervalOver, Lose, connection, peer
  <2>5. ASSUME NEW s \in SeqNum, NEW copy \in BOOLEAN, Receive(s, copy) PROVE Carried'
        BY <1>4, <2>5 DEF Receive, connection
  <2>6. CASE Request1 \/ HandUp \/ Leave
        BY <1>4, <2>6 DEF Request1, HandUp, Leave, connection, peer
  <2>7. CASE UNCHANGED vars
        BY <1>4, <2>7 DEF vars, connection, peer
  <2>8. QED
        BY <1>1, <1>2, <1>3, <2>1, <2>2, <2>3, <2>4, <2>5, <2>6, <2>7 DEF Next

LEMMA CarriedInvariance == Spec => [](IInv /\ Carried)
<1>1. Init => Carried
      BY DEF Init, Carried, Numbers
<1>2. IInv /\ Carried /\ [Next]_vars => Carried'
      BY CarriedStep
<1>3. QED
      BY <1>1, <1>2, Invariance, PTL DEF Spec

\* What the client hands up of a fresh entry is the next payload of the channel.
LEMMA HandsUpNext ==
  ASSUME IInv, Carried, fresh, HandUp
  PROVE  /\ Len(delivered) < Len(sent)
         /\ delivered' = Append(delivered, sent[Len(delivered) + 1])
<1>1. PICK f \in Received :
        /\ f.order = Len(delivered)
        /\ \E g \in Whole(f) : delivered' = Append(delivered, g.payload)
      BY DEF HandUp
<1>2. PICK g \in Whole(f) : delivered' = Append(delivered, g.payload)
      BY <1>1
<1>3. ASSUME NEW h \in Received PROVE \E s \in Numbers : h = log[s + 1]
      BY <1>3 DEF Received, Numbers, IInv, TypeOK
<1>4. PICK s \in Numbers : f = log[s + 1]
      BY <1>3
<1>5. f.order < Len(sent) /\ f.payload = sent[f.order + 1]
      BY <1>4 DEF Carried
<1>6. CASE f.parts = 1
      BY <1>1, <1>2, <1>5, <1>6 DEF Whole
<1>7. CASE f.parts # 1
  <2>1. g \in Received /\ g.split = f.split /\ g.parts = f.parts
        BY <1>2, <1>7 DEF Whole
  <2>2. PICK t \in Numbers : g = log[t + 1]
        BY <1>3, <2>1
  <2>3. f \in Frame /\ g \in Frame
    <3>1. log \in Seq(Frame) /\ s + 1 \in 1..Len(log) /\ t + 1 \in 1..Len(log)
          BY DEF IInv, TypeOK, Numbers
    <3>2. QED
          BY <1>4, <2>2, <3>1, ElementOfSeq
  <2>4. f.parts > 1
        BY <1>7, <2>3, SendBounds DEF Frame
  <2>5. g.order = f.order
        BY <1>4, <2>1, <2>2, <2>4 DEF Carried
  <2>6. g.payload = sent[g.order + 1]
        BY <2>2 DEF Carried
  <2>7. QED
        BY <1>1, <1>2, <1>5, <2>5, <2>6
<1>8. QED
      BY <1>6, <1>7

\* DeliversInOrder: ReliableSend implements OrderedChannel, for the client the
\* entry was made for: a payload taken is sent, a message handed up delivered, a
\* new client opens the channel, and every other step leaves it alone.
THEOREM ImplementsChannel == Spec => DeliversInOrder
<1>1. Init => Channel!Init
      BY DEF Init, Channel!Init, Mine
<1>2. IInv /\ Carried /\ [Next]_vars => [Channel!Next]_(Channel!vars)
  <2> SUFFICES ASSUME IInv, Carried, [Next]_vars PROVE [Channel!Next]_(Channel!vars)
      OBVIOUS
  <2> USE DEF Channel!vars, Mine
  <2>1. ASSUME NEW n \in 1..MaxParts, Outbound(n) PROVE [Channel!Next]_(Channel!vars)
    <3>1. fresh' = fresh /\ delivered' = delivered
          /\ (sent' = Append(sent, offered + 1) \/ sent' = sent)
          BY <2>1 DEF Outbound, BuildDatagrams
    <3>2. offered + 1 \in 1..MaxPayloads
          BY <2>1, SendBounds DEF Outbound, IInv, TypeOK
    <3>3. CASE fresh /\ sent' = Append(sent, offered + 1)
      <4>1. Channel!Send(offered + 1)
            BY <3>1, <3>3 DEF Channel!Send
      <4>2. QED
            BY <3>2, <4>1 DEF Channel!Next
    <3>4. QED
          BY <3>1, <3>3
  <2>2. CASE HandUp
    <3>1. fresh' = fresh /\ sent' = sent
          BY <2>2 DEF HandUp
    <3>2. CASE fresh
      <4>1. Channel!Deliver
            BY <2>2, <3>1, <3>2, HandsUpNext DEF Channel!Deliver
      <4>2. QED
            BY <4>1 DEF Channel!Next
    <3>3. QED
          BY <3>1, <3>2
  <2>3. CASE Request2OfNewClient
    <3>1. Channel!Open
          BY <2>3 DEF Request2OfNewClient, Channel!Open
    <3>2. QED
          BY <3>1 DEF Channel!Next
  <2>4. CASE UNCHANGED <<sent, delivered, fresh>>
        BY <2>4
  <2>5. QED
    <3>1. ASSUME NEW S, HandleAck(S) \/ HandleNack(S)
          PROVE  UNCHANGED <<sent, delivered, fresh>>
          BY <3>1 DEF HandleAck, HandleNack, peer
    <3>2. ASSUME NEW b \in BOOLEAN, TimeoutStale(b) PROVE UNCHANGED <<sent, delivered, fresh>>
          BY <3>2 DEF TimeoutStale, peer
    <3>3. ASSUME NEW s \in SeqNum, IntervalOver(s) \/ Lose(s)
          PROVE  UNCHANGED <<sent, delivered, fresh>>
          BY <3>3 DEF IntervalOver, Lose, peer
    <3>4. ASSUME NEW s \in SeqNum, NEW copy \in BOOLEAN, Receive(s, copy)
          PROVE  UNCHANGED <<sent, delivered, fresh>>
          BY <3>4 DEF Receive
    <3>5. CASE ResendPending \/ Request1 \/ Request2 \/ Leave \/ UNCHANGED vars
          BY <2>4, <3>5 DEF ResendPending, Request1, Request2, Leave, vars, peer
    <3>6. QED
          BY <2>1, <2>2, <2>3, <2>4, <3>1, <3>2, <3>3, <3>4, <3>5 DEF Next
<1>3. QED
      BY <1>1, <1>2, CarriedInvariance, PTL DEF Spec, DeliversInOrder, Channel!Spec
=============================================================================
