----------------------------- MODULE ReliableSend -----------------------------
(***************************************************************************)
(* The sending half of one RakNet connection (crates/raknet/src/server.rs: *)
(* build_datagrams, handle_ack, handle_nack, resend_pending, timeout_stale *)
(* and the two open-connection handlers as far as they touch it), with a   *)
(* client on the other side of a network that delays, loses, duplicates    *)
(* and reorders datagrams.                                                 *)
(*                                                                         *)
(* split_payload cuts a payload so that each frame fills a datagram of its *)
(* own, so a datagram is one frame.  All sends use channel 0.  A datagram  *)
(* that waits for sock.send_to is not told apart from one that the network *)
(* delays.  The client is external: it acknowledges what it gets, puts     *)
(* split payloads together by split id, and hands payloads up by order     *)
(* index, as the ReliableOrdered frames ask it to.                         *)
(***************************************************************************)
EXTENDS Naturals, Sequences, FiniteSets

CONSTANTS
  MaxRetries,    \* MAX_RETRIES
  MaxPayloads,   \* bound: payloads the game hands to the outbound task
  MaxParts,      \* bound: frames one payload is split into
  MaxFrames,     \* bound: frames built for one entry
  MaxLosses,     \* bound: datagrams the network loses
  MaxClients     \* bound: client processes that use the address in turn

ASSUME RetriesAssumption == MaxRetries \in Nat \ {0}
ASSUME SendBounds == /\ MaxPayloads \in Nat /\ MaxParts \in Nat /\ MaxFrames \in Nat
                     /\ MaxLosses \in Nat /\ MaxClients \in Nat \ {0}

VARIABLES
  entry,         \* state of the address's entry in Inner.connections
  order_index,   \* next order index (reliable_index always equals it)
  next_split_id, \* next split id
  log,           \* datagrams built: send_seq = Len(log), sequence s at log[s + 1]
  pending,       \* pending_frames: sequence numbers awaiting an ACK
  retries,       \* sequence number -> retries of its PendingFrame
  young,         \* pending, sent less than RESEND_INTERVAL ago
  timer,         \* what the resend/timeout task does next
  wire,          \* sequence number -> copies in the network, to the client
  inbox,         \* sequence numbers the client has received
  client,        \* is a client process there?
  clients,       \* client processes so far (bounded by MaxClients)
  sent,          \* payloads accepted for the present client, in order
  delivered,     \* payloads the present client has handed up, in order
  offered,       \* payloads taken from the outbound channel (MaxPayloads)
  losses,        \* datagrams lost (bounded by MaxLosses)
  copies,        \* history: sequence number -> times transmitted
  fresh          \* history: the entry was made for the present client

connection == <<entry, order_index, next_split_id, log>>
queue      == <<pending, retries, young, copies>>
network    == <<wire, losses>>
peer       == <<inbox, client, clients, sent, delivered, fresh>>
vars == <<connection, queue, timer, network, peer, offered>>

SeqNum == 0 .. (MaxFrames - 1)

\* parts = 1 is a frame without the split flag; its split and part mean nothing.
Frame == [payload : 1..MaxPayloads, order : Nat,
          split : Nat, part : Nat, parts : 1..MaxParts]

NoCopies == [s \in SeqNum |-> 0]

Init ==
  /\ entry = "Connected" /\ order_index = 0 /\ next_split_id = 0 /\ log = <<>>
  /\ pending = {} /\ young = {}
  /\ retries = NoCopies /\ copies = NoCopies
  /\ timer = "resend"
  /\ wire = NoCopies /\ losses = 0
  /\ inbox = {} /\ client = "up" /\ clients = 1 /\ fresh = TRUE
  /\ sent = <<>> /\ delivered = <<>> /\ offered = 0

(***************************************************************************)
(* The outbound task                                                       *)
(***************************************************************************)
\* split_payload: the frames of payload p, all under one order index.
Frames(p, n) ==
  [i \in 1..n |-> [payload |-> p, order |-> order_index,
                   split |-> next_split_id, part |-> i - 1, parts |-> n]]

\* Mutant: every split payload uses the same split id and order index.
BuildDatagramsStuckIndex(n) ==
  LET new == Len(log) .. (Len(log) + n - 1) IN
  /\ entry = "Connected" /\ Len(log) + n <= MaxFrames
  /\ log' = log \o Frames(offered + 1, n)
  /\ order_index' = IF n = 1 THEN order_index + 1 ELSE order_index
  /\ next_split_id' = next_split_id
  /\ pending' = pending \cup new
  /\ young' = young \cup new
  /\ wire' = [s \in SeqNum |-> IF s \in new THEN 1 ELSE wire[s]]
  /\ copies' = [s \in SeqNum |-> IF s \in new THEN 1 ELSE copies[s]]
  /\ retries' = [s \in SeqNum |-> IF s \in new THEN 0 ELSE retries[s]]
  /\ sent' = Append(sent, offered + 1)
  /\ UNCHANGED entry

\* build_datagrams: the next payload becomes n datagrams, each pending and sent.
BuildDatagrams(n) ==
  LET new == Len(log) .. (Len(log) + n - 1) IN
  /\ entry = "Connected" /\ Len(log) + n <= MaxFrames
  /\ log' = log \o Frames(offered + 1, n)
  /\ order_index' = order_index + 1
  /\ next_split_id' = IF n = 1 THEN next_split_id ELSE next_split_id + 1
  /\ pending' = pending \cup new
  /\ young' = young \cup new
  /\ wire' = [s \in SeqNum |-> IF s \in new THEN 1 ELSE wire[s]]
  /\ copies' = [s \in SeqNum |-> IF s \in new THEN 1 ELSE copies[s]]
  /\ retries' = [s \in SeqNum |-> IF s \in new THEN 0 ELSE retries[s]]
  /\ sent' = Append(sent, offered + 1)
  /\ UNCHANGED entry

\* The outbound task takes a payload; without a Connected entry it is lost
\* without a trace.
Outbound(n) ==
  /\ offered < MaxPayloads
  /\ offered' = offered + 1
  /\ \/ BuildDatagrams(n)
     \/ entry # "Connected" /\ UNCHANGED <<connection, queue, wire, sent>>
  /\ UNCHANGED <<timer, losses, inbox, client, clients, delivered, fresh>>

(***************************************************************************)
(* Acknowledgements                                                        *)
(***************************************************************************)
\* handle_ack, for an ACK that names the datagrams S, anew or once more; the
\* entry need not be Connected.
HandleAck(S) ==
  /\ entry # "Absent" /\ client = "up"
  /\ pending' = pending \ S
  /\ young' = young \ S
  /\ UNCHANGED <<connection, retries, copies, timer, network, peer, offered>>

\* The frames of S go out once more.
Retransmit(S) ==
  /\ retries' = [s \in SeqNum |-> IF s \in S THEN retries[s] + 1 ELSE retries[s]]
  /\ copies' = [s \in SeqNum |-> IF s \in S THEN copies[s] + 1 ELSE copies[s]]
  /\ young' = young \cup S
  /\ wire' = [s \in SeqNum |-> IF s \in S THEN wire[s] + 1 ELSE wire[s]]

\* Mutant: a NACK for an exhausted frame is answered all the same.
HandleNackUnbounded(S) ==
  /\ entry # "Absent" /\ client = "up"
  /\ Retransmit(S \cap pending)
  /\ UNCHANGED <<connection, pending, timer, losses, peer, offered>>

\* handle_nack, for a NACK that names S, anew or once more.
HandleNack(S) ==
  /\ entry # "Absent" /\ client = "up"
  /\ Retransmit({s \in S \cap pending : retries[s] < MaxRetries})
  /\ UNCHANGED <<connection, pending, timer, losses, peer, offered>>

(***************************************************************************)
(* The resend/timeout task, every RESEND_INTERVAL                          *)
(***************************************************************************)
Due == {s \in pending \ young : retries[s] < MaxRetries}

\* Mutant: the retry is counted, and nothing sent.
ResendPendingSilently ==
  /\ timer = "resend" /\ timer' = "sweep"
  /\ retries' = [s \in SeqNum |-> IF s \in Due THEN retries[s] + 1 ELSE retries[s]]
  /\ young' = young \cup Due
  /\ UNCHANGED <<copies, wire>>
  /\ UNCHANGED <<connection, pending, losses, peer, offered>>

\* resend_pending: every pending frame whose interval is over, unless exhausted.
ResendPending ==
  /\ timer = "resend" /\ timer' = "sweep"
  /\ Retransmit(Due)
  /\ UNCHANGED <<connection, pending, losses, peer, offered>>

\* Mutant: the frame is given up before its last retry.
TimeoutStaleEarly(isStale) ==
  /\ timer = "sweep" /\ timer' = "resend"
  /\ isStale => entry = "Connected"
  /\ IF isStale
       THEN entry' = "Absent" /\ pending' = {}
       ELSE entry' = entry /\ pending' = {s \in pending : retries[s] + 1 < MaxRetries}
  /\ young' = young \cap pending'
  /\ UNCHANGED <<order_index, next_split_id, log, retries, copies, network, peer, offered>>

\* Mutant: exhausted frames are kept.
TimeoutStaleKeeps(isStale) ==
  /\ timer = "sweep" /\ timer' = "resend"
  /\ isStale => entry = "Connected"
  /\ IF isStale
       THEN entry' = "Absent" /\ pending' = {}
       ELSE UNCHANGED <<entry, pending>>
  /\ young' = young \cap pending'
  /\ UNCHANGED <<order_index, next_split_id, log, retries, copies, network, peer, offered>>

\* timeout_stale: a Connected entry of which no frame set has come for the timeout
\* is removed with all that is pending, whether its client is gone or there and
\* acknowledging (only frame sets, which are not modelled here, and handshakes
\* refresh last_recv); otherwise its exhausted frames are dropped and it is kept.
TimeoutStale(isStale) ==
  /\ timer = "sweep" /\ timer' = "resend"
  /\ isStale => entry = "Connected"
  /\ IF isStale
       THEN entry' = "Absent" /\ pending' = {}
       ELSE entry' = entry /\ pending' = {s \in pending : retries[s] < MaxRetries}
  /\ young' = young \cap pending'
  /\ UNCHANGED <<order_index, next_split_id, log, retries, copies, network, peer, offered>>

\* RESEND_INTERVAL has passed since s was last sent.
IntervalOver(s) ==
  /\ s \in young
  /\ young' = young \ {s}
  /\ UNCHANGED <<connection, pending, retries, copies, timer, network, peer, offered>>

(***************************************************************************)
(* The open-connection handlers                                            *)
(***************************************************************************)
\* A Request1, of a client that opens a connection or a late copy of one.
Request1 ==
  /\ entry = "Connected"
  /\ entry' = "Handshaking"
  /\ UNCHANGED <<order_index, next_split_id, log, queue, timer, network, peer, offered>>

\* The table's part of Request2: only a new entry starts from nothing.
HandleRequest2 ==
  /\ entry' = "Connected"
  /\ IF entry = "Absent"
       THEN order_index' = 0 /\ next_split_id' = 0 /\ log' = <<>>
       ELSE UNCHANGED <<order_index, next_split_id, log>>

\* The present client completes a handshake that a Request1 began.
Request2 ==
  /\ client = "up" /\ entry = "Handshaking"
  /\ HandleRequest2
  /\ UNCHANGED <<queue, timer, network, peer, offered>>

\* A new client process at the same address connects.  Of the datagrams of an
\* entry that was removed none is left in the network by then.
Request2OfNewClient ==
  /\ client = "gone" /\ client' = "up"
  /\ clients' = clients + 1
  /\ HandleRequest2
  /\ fresh' = (entry = "Absent")
  /\ wire' = IF entry = "Absent" THEN NoCopies ELSE wire
  /\ inbox' = {} /\ sent' = <<>> /\ delivered' = <<>>
  /\ UNCHANGED <<queue, timer, losses, offered>>

(***************************************************************************)
(* The network and the client                                              *)
(***************************************************************************)
\* Datagram s arrives; the network may hold on to a copy of it.
Receive(s, copy) ==
  /\ client = "up"
  /\ wire[s] > 0
  /\ inbox' = inbox \cup {s}
  /\ wire' = IF copy THEN wire ELSE [wire EXCEPT ![s] = @ - 1]
  /\ UNCHANGED <<connection, queue, timer, losses, client, clients, sent,
                 delivered, fresh, offered>>

Lose(s) ==
  /\ wire[s] > 0 /\ losses < MaxLosses
  /\ wire' = [wire EXCEPT ![s] = @ - 1]
  /\ losses' = losses + 1
  /\ UNCHANGED <<connection, queue, timer, peer, offered>>

\* The received frames that make up the message f is part of.
Received == {log[s + 1] : s \in inbox}
Whole(f) == IF f.parts = 1 THEN {f}
            ELSE {g \in Received : g.split = f.split /\ g.parts = f.parts}

\* The client hands up the next message of the channel once it is whole.
HandUp ==
  /\ client = "up"
  /\ \E f \in Received :
       /\ f.order = Len(delivered)
       /\ {g.part : g \in Whole(f)} = 0..(f.parts - 1)
       /\ \E g \in Whole(f) : delivered' = Append(delivered, g.payload)
  /\ UNCHANGED <<connection, queue, timer, network, inbox, client, clients, sent,
                 fresh, offered>>

\* The client process ends without a word.
Leave ==
  /\ client = "up" /\ clients < MaxClients
  /\ client' = "gone"
  /\ UNCHANGED <<connection, queue, timer, network, inbox, clients, sent,
                 delivered, fresh, offered>>

(***************************************************************************)
(* Specification                                                           *)
(***************************************************************************)
Next ==
  \/ \E n \in 1..MaxParts : Outbound(n)
  \/ \E S \in SUBSET inbox : HandleAck(S)
  \/ \E S \in SUBSET (0..(Len(log) - 1)) : HandleNack(S)
  \/ ResendPending
  \/ \E isStale \in BOOLEAN : TimeoutStale(isStale)
  \/ \E s \in SeqNum : IntervalOver(s) \/ Lose(s)
  \/ \E s \in SeqNum, copy \in BOOLEAN : Receive(s, copy)
  \/ Request1 \/ Request2 \/ Request2OfNewClient
  \/ HandUp \/ Leave

Spec == Init /\ [][Next]_vars

\* The timer task keeps running, time passes, and the client takes what arrives.
Fairness ==
  /\ WF_vars(ResendPending) /\ WF_vars(TimeoutStale(FALSE))
  /\ \A s \in SeqNum : WF_vars(IntervalOver(s)) /\ WF_vars(Receive(s, FALSE))
  /\ WF_vars(HandUp)

FairSpec == Spec /\ Fairness

(***************************************************************************)
(* Properties                                                              *)
(***************************************************************************)
\* Types.  The retries of a frame, counted by the timer and by NACKs alike,
\* never pass MAX_RETRIES, and a frame was sent once more than it was retried.
TypeOK ==
  /\ entry \in {"Absent", "Handshaking", "Connected"}
  /\ order_index \in 0..MaxPayloads /\ next_split_id \in 0..order_index
  /\ log \in Seq(Frame) /\ Len(log) <= MaxFrames
  /\ pending \subseteq 0..(Len(log) - 1) /\ young \subseteq pending
  /\ retries \in [SeqNum -> 0..MaxRetries]
  /\ \A s \in pending : copies[s] = retries[s] + 1
  /\ timer \in {"resend", "sweep"}
  /\ wire \in [SeqNum -> 0..(MaxRetries + 1)] /\ inbox \subseteq 0..(Len(log) - 1)
  /\ client \in {"up", "gone"} /\ clients \in 1..MaxClients
  /\ sent \in Seq(1..MaxPayloads) /\ delivered \in Seq(1..MaxPayloads)
  /\ offered \in 0..MaxPayloads /\ losses \in 0..MaxLosses /\ fresh \in BOOLEAN

\* A datagram the client never got leaves the queue of a living connection only
\* after it has been sent 1 + MAX_RETRIES times, by timer or NACK.
GivesUpOnlyAfterRetries ==
  [][\A s \in pending \ pending' :
       entry' # "Absent" => s \in inbox \/ copies[s] = MaxRetries + 1]_vars

\* pending_frames never keeps a frame for good, acknowledged or not.
PendingDrains == <>[](pending = {})

\* README.md:10 "RakNet protocol with reliable/ordered packet delivery": what a
\* client hands up is in order, without gap, repetition or foreign payload, the
\* beginning of what was sent to it, whatever its predecessor at the address left
\* behind, provided that the entry was made for it.  (One that reconnects before
\* its old entry times out inherits the order index, and waits for payloads that
\* it will never get.)
Mine(payloads) == IF fresh THEN payloads ELSE <<>>
Channel == INSTANCE OrderedChannel WITH
             Payload <- 1..MaxPayloads, sent <- Mine(sent), delivered <- Mine(delivered)
DeliversInOrder == Channel!Spec

\* As long as fewer than 1 + MAX_RETRIES datagrams are lost, every payload
\* accepted for a client whose entry was made for it and is not timed out is
\* delivered, ACKs or no ACKs, and also after a late Request1 has put the entry
\* back to Handshaking.
AllDelivered ==
  <>[](client = "up" /\ fresh /\ entry # "Absent" => delivered = sent)
=============================================================================
