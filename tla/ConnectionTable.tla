--------------------------- MODULE ConnectionTable ---------------------------
(***************************************************************************)
(* The connection table of the RakNet server (crates/raknet/src/server.rs) *)
(* and the three kinds of event it announces to the rest of the server.    *)
(*                                                                         *)
(* Two tasks share the table behind one mutex.  The inbound task handles   *)
(* one datagram at a time, but a handler that answers the client drops the *)
(* lock before it sends, so a handler is up to two atomic steps: the       *)
(* locked part, and what it does once the send has returned.  The          *)
(* resend/timeout task removes silent entries under the lock and announces *)
(* them after it has released it.                                          *)
(*                                                                         *)
(* Any datagram may arrive from any address at any time, so lost, delayed, *)
(* duplicated and reordered client messages are all included.              *)
(***************************************************************************)
EXTENDS Naturals, FiniteSets

CONSTANTS
  Addr,             \* the socket addresses clients may send from
  MaxConnections,   \* MAX_CONNECTIONS
  MaxArrivals       \* bound: datagrams the inbound task receives in a behaviour

ASSUME AddrAssumption == IsFiniteSet(Addr)
ASSUME BoundAssumption == MaxConnections \in Nat /\ MaxArrivals \in Nat

VARIABLES
  conn,          \* address -> state of its entry in Inner.connections
  stale,         \* address -> last_recv is more than CONNECTION_TIMEOUT ago
  handler,       \* where the inbound task is
  dropped,       \* removed by timeout_stale, Disconnected not yet sent
  arrivals,      \* datagrams received so far (bounded by MaxArrivals)
  connected,     \* history: Connected events sent, per address
  disconnected,  \* history: Disconnected events sent, per address
  demoted,       \* history: Connected entries put back to Handshaking
  speaking,      \* history: addresses of which a GamePacket was sent
  late           \* history: frame sets of an address announced since its entry
                 \* was last Connected

feed == <<connected, disconnected, demoted, speaking, late>>
vars == <<conn, stale, handler, dropped, arrivals, feed>>

Absent == "Absent"                       \* no entry for the address
State  == {"Unconnected", "Handshaking", "Connected"}

Receiving == [at |-> "recv"]             \* awaiting recv_from
Stopped   == [at |-> "stopped"]          \* recv_from failed: the loop ended
InFlight  ==                             \* the lock is free, a send is awaited
       [at : {"pong", "reply1"}, src : Addr]
  \cup [at : {"reply2"}, src : Addr, wasConnected : BOOLEAN]
  \cup [at : {"ack"}, src : Addr, completed : BOOLEAN]

Known == {a \in Addr : conn[a] # Absent} \* keys of Inner.connections

Init ==
  /\ conn = [a \in Addr |-> Absent]
  /\ stale = [a \in Addr |-> FALSE]
  /\ handler = Receiving
  /\ dropped = {}
  /\ arrivals = 0
  /\ connected = [a \in Addr |-> 0]
  /\ disconnected = [a \in Addr |-> 0]
  /\ demoted = [a \in Addr |-> 0]
  /\ speaking = {}
  /\ late = [a \in Addr |-> 0]

(***************************************************************************)
(* The inbound task: one datagram                                          *)
(***************************************************************************)
Receive ==
  /\ handler = Receiving
  /\ arrivals < MaxArrivals
  /\ arrivals' = arrivals + 1

\* UnconnectedPing, up to the send of the pong: the table is only read.
Ping(a) ==
  /\ Receive
  /\ handler' = [at |-> "pong", src |-> a]
  /\ UNCHANGED <<conn, stale, dropped, feed>>

\* ... and after it: the lock is taken again and an entry made if none is there.
Ponged ==
  /\ handler.at = "pong"
  /\ IF conn[handler.src] = Absent
       THEN /\ conn' = [conn EXCEPT ![handler.src] = "Unconnected"]
            /\ stale' = [stale EXCEPT ![handler.src] = FALSE]
       ELSE UNCHANGED <<conn, stale>>
  /\ handler' = Receiving
  /\ UNCHANGED <<dropped, arrivals, feed>>

\* OpenConnectionRequest1.  A full table, or another protocol version, ends
\* the handler; otherwise Reply1 is sent with the lock released.
Request1(a, versionOk) ==
  /\ Receive
  /\ handler' = IF Cardinality(Known) >= MaxConnections \/ ~versionOk
                  THEN Receiving
                  ELSE [at |-> "reply1", src |-> a]
  /\ UNCHANGED <<conn, stale, dropped, feed>>

\* Reply1 was sent (or failed: sent = FALSE): an entry, whatever its state,
\* is now Handshaking; no entry is made.
Replied1(sent) ==
  /\ handler.at = "reply1"
  /\ LET a == handler.src IN
       IF sent /\ conn[a] # Absent
         THEN /\ conn' = [conn EXCEPT ![a] = "Handshaking"]
              /\ stale' = [stale EXCEPT ![a] = FALSE]
              /\ demoted' = IF conn[a] = "Connected"
                              THEN [demoted EXCEPT ![a] = @ + 1]
                              ELSE demoted
         ELSE UNCHANGED <<conn, stale, demoted>>
  /\ handler' = Receiving
  /\ UNCHANGED <<dropped, arrivals, connected, disconnected, speaking, late>>

\* Mutant: was_connected is taken after the entry was updated.
Request2AfterUpdate(a) ==
  /\ Receive
  /\ conn' = [conn EXCEPT ![a] = "Connected"]
  /\ stale' = [stale EXCEPT ![a] = FALSE]
  /\ handler' = [at |-> "reply2", src |-> a, wasConnected |-> conn[a] \in State]
  /\ late' = [late EXCEPT ![a] = 0]
  /\ UNCHANGED <<dropped, connected, disconnected, demoted, speaking>>

\* OpenConnectionRequest2: the entry is made or updated, Connected either way.
Request2(a) ==
  /\ Receive
  /\ conn' = [conn EXCEPT ![a] = "Connected"]
  /\ stale' = [stale EXCEPT ![a] = FALSE]
  /\ handler' = [at |-> "reply2", src |-> a,
                 wasConnected |-> conn[a] = "Connected"]
  /\ late' = [late EXCEPT ![a] = 0]
  /\ UNCHANGED <<dropped, connected, disconnected, demoted, speaking>>

\* Reply2 was sent: the Connected event, unless the entry was Connected before.
Replied2 ==
  /\ handler.at = "reply2"
  /\ connected' = IF handler.wasConnected
                    THEN connected
                    ELSE [connected EXCEPT ![handler.src] = @ + 1]
  /\ handler' = Receiving
  /\ UNCHANGED <<conn, stale, dropped, arrivals, disconnected, demoted, speaking, late>>

\* Mutant: frames are accepted of any known address.
FrameSetAnyState(a, fresh, completed) ==
  /\ Receive
  /\ IF conn[a] # Absent
       THEN /\ stale' = [stale EXCEPT ![a] = FALSE]
            /\ handler' = IF fresh
                 THEN [at |-> "ack", src |-> a, completed |-> completed]
                 ELSE Receiving
       ELSE UNCHANGED <<stale, handler>>
  /\ UNCHANGED <<conn, dropped, feed>>

\* A frame set.  It refreshes a Connected entry even when its sequence number
\* is not fresh; a fresh one is acknowledged, the lock released, and may have
\* completed payloads.
FrameSet(a, fresh, completed) ==
  /\ Receive
  /\ IF conn[a] = "Connected"
       THEN /\ stale' = [stale EXCEPT ![a] = FALSE]
            /\ handler' = IF fresh
                 THEN [at |-> "ack", src |-> a, completed |-> completed]
                 ELSE Receiving
       ELSE UNCHANGED <<stale, handler>>
  /\ UNCHANGED <<conn, dropped, feed>>

\* The ACK was sent: GamePacket events for what the frame set completed.
Acked ==
  /\ handler.at = "ack"
  /\ IF handler.completed
       THEN /\ speaking' = speaking \cup {handler.src}
            /\ late' = IF conn[handler.src] = "Connected"
                         THEN late
                         ELSE [late EXCEPT ![handler.src] = @ + 1]
       ELSE UNCHANGED <<speaking, late>>
  /\ handler' = Receiving
  /\ UNCHANGED <<conn, stale, dropped, arrivals, connected, disconnected, demoted>>

\* An ACK or a NACK: pending frames are dropped or sent again (ReliableSend), but
\* neither last_recv nor the state of the entry is touched.
Acknowledge(a) ==
  /\ Receive
  /\ UNCHANGED <<conn, stale, handler, dropped, feed>>

\* recv_from failed: the inbound loop breaks and never comes back.
RecvFails ==
  /\ handler = Receiving
  /\ handler' = Stopped
  /\ UNCHANGED <<conn, stale, dropped, arrivals, feed>>

(***************************************************************************)
(* Time, and the resend/timeout task                                       *)
(***************************************************************************)
\* More than CONNECTION_TIMEOUT has passed since the entry was refreshed.
GoStale(a) ==
  /\ conn[a] # Absent /\ ~stale[a]
  /\ stale' = [stale EXCEPT ![a] = TRUE]
  /\ UNCHANGED <<conn, handler, dropped, arrivals, feed>>

TimedOut == {a \in Addr : conn[a] = "Connected" /\ stale[a]}

\* Mutant: the entries are marked Disconnected instead of removed.
TimeoutStaleMarks ==
  /\ dropped = {}
  /\ conn' = [a \in Addr |-> IF a \in TimedOut THEN "Disconnected" ELSE conn[a]]
  /\ stale' = [a \in Addr |-> stale[a] /\ a \notin TimedOut]
  /\ dropped' = TimedOut
  /\ UNCHANGED <<handler, arrivals, feed>>

\* Mutant: only one of the removed addresses is returned to the task.
TimeoutStaleFirst ==
  /\ dropped = {}
  /\ conn' = [a \in Addr |-> IF a \in TimedOut THEN Absent ELSE conn[a]]
  /\ stale' = [a \in Addr |-> stale[a] /\ a \notin TimedOut]
  /\ dropped' = IF TimedOut = {} THEN {} ELSE {CHOOSE a \in TimedOut : TRUE}
  /\ UNCHANGED <<handler, arrivals, feed>>

\* timeout_stale: one locked pass over the table, once the announcements of
\* the previous pass are made.  Only Connected entries time out.
TimeoutStale ==
  /\ dropped = {}
  /\ conn' = [a \in Addr |-> IF a \in TimedOut THEN Absent ELSE conn[a]]
  /\ stale' = [a \in Addr |-> stale[a] /\ a \notin TimedOut]
  /\ dropped' = TimedOut
  /\ UNCHANGED <<handler, arrivals, feed>>

\* The lock is free again: the Disconnected events, one by one.
Announce(a) ==
  /\ a \in dropped
  /\ dropped' = dropped \ {a}
  /\ disconnected' = [disconnected EXCEPT ![a] = @ + 1]
  /\ UNCHANGED <<conn, stale, handler, arrivals, connected, demoted, speaking, late>>

(***************************************************************************)
(* Specification                                                           *)
(***************************************************************************)
Arrival(a) ==
  \/ Ping(a)
  \/ \E versionOk \in BOOLEAN : Request1(a, versionOk)
  \/ Request2(a)
  \/ \E fresh, completed \in BOOLEAN : FrameSet(a, fresh, completed)
  \/ Acknowledge(a)

Resume ==
  \/ Ponged
  \/ \E sent \in BOOLEAN : Replied1(sent)
  \/ Replied2
  \/ Acked

Next ==
  \/ \E a \in Addr : Arrival(a) \/ GoStale(a) \/ Announce(a)
  \/ Resume
  \/ RecvFails
  \/ TimeoutStale

Spec == Init /\ [][Next]_vars

\* The runtime keeps polling both tasks, UDP sends return, and time passes.
\* Nothing makes a client send.
Fairness ==
  /\ WF_vars(Resume)
  /\ WF_vars(TimeoutStale)
  /\ \A a \in Addr : WF_vars(GoStale(a)) /\ WF_vars(Announce(a))

FairSpec == Spec /\ Fairness

(***************************************************************************)
(* Properties                                                              *)
(***************************************************************************)
\* Types.  ConnectionState::Disconnected is never the state of an entry: a
\* timed-out entry is removed.
TypeOK ==
  /\ conn \in [Addr -> State \cup {Absent}]
  /\ stale \in [Addr -> BOOLEAN]
  /\ handler \in InFlight \cup {Receiving, Stopped}
  /\ dropped \in SUBSET Addr
  /\ arrivals \in 0..MaxArrivals
  /\ connected \in [Addr -> Nat]
  /\ disconnected \in [Addr -> Nat]
  /\ demoted \in [Addr -> Nat]
  /\ speaking \in SUBSET Addr
  /\ late \in [Addr -> Nat]

\* What the two tasks have decided to announce of a and not yet announced.
OwesConnected(a) ==
  IF handler \in InFlight /\ handler.at = "reply2"
     /\ handler.src = a /\ ~handler.wasConnected THEN 1 ELSE 0
OwesDisconnected(a) == IF a \in dropped THEN 1 ELSE 0
IsConnected(a) == IF conn[a] = "Connected" THEN 1 ELSE 0

\* Conservation of connections: over any interleaving of the two tasks, the
\* Connected events announced or owed for an address are exactly its
\* Disconnected events announced or owed, plus the entries a Request1 demoted,
\* plus the live Connected entry.  So no connection is announced twice, none is
\* lost by the timeout, and the only leak is the demotion.
ConnectionAccounting ==
  \A a \in Addr :
    connected[a] + OwesConnected(a)
      = disconnected[a] + OwesDisconnected(a) + demoted[a] + IsConnected(a)

\* The rest of the server never hears a GamePacket of an address of which it
\* has not been told Connected before: the handler that owes the event ends
\* before the next datagram is read.
ConnectedBeforeGamePacket == \A a \in speaking : connected[a] > 0

\* What the session layer hears of an address that lost its entry, to the
\* timeout or to a Request1: at most the datagram whose ACK was being sent.
\* Until the address connects again nothing more of it is announced, however
\* long it keeps sending frames.
AtMostOneLate == \A a \in Addr : late[a] <= 1

\* Once the clients are silent, every connection that was announced is
\* announced gone, except those a late Request1 demoted.
EveryConnectionEnds ==
  \A a \in Addr : <>[](connected[a] = disconnected[a] + demoted[a])

\* What a comment says and the code does not do.

\* server.rs:47 "A client timed out or otherwise disconnected.": when
\* Disconnected(a) is announced, a has no Connected entry.
DisconnectedIsTrue ==
  [][\A a \in Addr : disconnected'[a] # disconnected[a]
                        => conn[a] # "Connected"]_vars
=============================================================================
