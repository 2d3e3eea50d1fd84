------------------------ MODULE ConnectionTableProofs ------------------------
(***************************************************************************)
(* ConnectionTable, for every set of addresses, table limit and number of  *)
(* datagrams: types, the conservation of connections, that no GamePacket   *)
(* is announced of an address before its Connected event, and that at most *)
(* one datagram of an address is announced after its entry is lost.        *)
(***************************************************************************)
EXTENDS ConnectionTable, TLAPS

\* The strengthening ConnectedBeforeGamePacket needs: the handler that may yet
\* announce a payload belongs to an address already announced.
CompletedAfterConnected ==
  handler.at = "ack" => connected[handler.src] > 0

\* The strengthening AtMostOneLate needs: nothing late has been announced of an
\* address while its entry is Connected or a frame set of it is in hand.
NoneLateYet ==
  \A a \in Addr :
    conn[a] = "Connected" \/ (handler.at = "ack" /\ handler.src = a) => late[a] = 0

IInv ==
  /\ TypeOK
  /\ ConnectionAccounting
  /\ ConnectedBeforeGamePacket
  /\ CompletedAfterConnected
  /\ AtMostOneLate
  /\ NoneLateYet

\* What each position of the inbound task holds (the cases of handle_inbound).
LEMMA HandlerFields ==
  ASSUME TypeOK
  PROVE  /\ handler.at \in {"recv", "stopped", "pong", "reply1", "reply2", "ack"}
         /\ handler.at = "recv" <=> handler = Receiving
         /\ handler.at \in {"pong", "reply1", "reply2", "ack"} <=> handler \in InFlight
         /\ handler \in InFlight => handler.src \in Addr
         /\ handler.at = "reply2" => handler.wasConnected \in BOOLEAN
BY DEF TypeOK, InFlight, Receiving, Stopped

\* Every step keeps the state variables in their types.
LEMMA TypeStep == TypeOK /\ [Next]_vars => TypeOK'
<1> SUFFICES ASSUME TypeOK, [Next]_vars PROVE TypeOK'
    OBVIOUS
<1> USE HandlerFields, BoundAssumption
<1>1. ASSUME NEW a \in Addr, Ping(a) PROVE TypeOK'
      BY <1>1 DEF Ping, Receive, TypeOK, feed, InFlight
<1>2. ASSUME NEW a \in Addr, NEW ok \in BOOLEAN, Request1(a, ok) PROVE TypeOK'
      BY <1>2 DEF Request1, Receive, TypeOK, feed, InFlight
<1>3. ASSUME NEW a \in Addr, Request2(a) PROVE TypeOK'
  <2>1. (conn[a] = "Connected") \in BOOLEAN
        OBVIOUS
  <2>2. handler' \in InFlight
        BY <1>3, <2>1 DEF Request2, InFlight
  <2>3. QED
        BY <1>3, <2>2 DEF Request2, Receive, TypeOK, State
<1>4. ASSUME NEW a \in Addr, NEW f \in BOOLEAN, NEW c \in BOOLEAN, FrameSet(a, f, c)
      PROVE TypeOK'
  <2>1. handler' \in InFlight \cup {Receiving}
    <3>1. [at |-> "ack", src |-> a, completed |-> c] \in InFlight
          BY DEF InFlight
    <3>2. QED
          BY <1>4, <3>1 DEF FrameSet, Receive
  <2>2. stale' \in [Addr -> BOOLEAN]
        BY <1>4 DEF FrameSet, TypeOK
  <2>3. QED
        BY <1>4, <2>1, <2>2 DEF FrameSet, Receive, TypeOK, feed
<1>5. ASSUME NEW a \in Addr, GoStale(a) PROVE TypeOK'
      BY <1>5 DEF GoStale, TypeOK, feed
<1>6. ASSUME NEW a \in Addr, Announce(a) PROVE TypeOK'
      BY <1>6 DEF Announce, TypeOK
<1>7. CASE Ponged
      BY <1>7 DEF Ponged, TypeOK, feed, State
<1>8. ASSUME NEW sent \in BOOLEAN, Replied1(sent) PROVE TypeOK'
  <2>1. CASE sent /\ conn[handler.src] # Absent
    <3>1. handler.src \in Addr
          BY <1>8 DEF Replied1
    <3>2. demoted' \in [Addr -> Nat]
          BY <1>8, <2>1, <3>1 DEF Replied1, TypeOK
    <3>3. QED
          BY <1>8, <2>1, <3>1, <3>2 DEF Replied1, TypeOK, State
  <2>2. CASE ~(sent /\ conn[handler.src] # Absent)
        BY <1>8, <2>2 DEF Replied1, TypeOK
  <2>3. QED
        BY <2>1, <2>2
<1>9. CASE Replied2
      BY <1>9 DEF Replied2, TypeOK
<1>10. CASE Acked
  <2>1. handler.src \in Addr
        BY <1>10 DEF Acked
  <2>2. late' \in [Addr -> Nat] /\ speaking' \in SUBSET Addr
        BY <1>10, <2>1 DEF Acked, TypeOK
  <2>3. QED
        BY <1>10, <2>2 DEF Acked, TypeOK
<1>11. CASE RecvFails
      BY <1>11 DEF RecvFails, TypeOK, feed
<1>12. CASE TimeoutStale
      BY <1>12 DEF TimeoutStale, TimedOut, TypeOK, feed
<1>13. CASE UNCHANGED vars
      BY <1>13 DEF vars, feed, TypeOK
<1>14. ASSUME NEW a \in Addr, Acknowledge(a) PROVE TypeOK'
      BY <1>14 DEF Acknowledge, Receive, TypeOK, feed
<1>15. QED
      BY <1>1, <1>2, <1>3, <1>4, <1>5, <1>6, <1>7, <1>8, <1>9, <1>10, <1>11,
         <1>12, <1>13, <1>14 DEF Next, Arrival, Resume

\* TypeOK of ConnectionTable holds in every reachable state; in particular no
\* entry of the table is ever in ConnectionState::Disconnected.
THEOREM TypeCorrect == Spec => []TypeOK
<1>1. Init => TypeOK
      BY BoundAssumption DEF Init, TypeOK
<1>2. QED
      BY <1>1, TypeStep, PTL DEF Spec

\* Every step of either task preserves the conservation law.
LEMMA AccountingStep ==
  ASSUME TypeOK, ConnectionAccounting, [Next]_vars
  PROVE  ConnectionAccounting'
<1>0. TypeOK'
      BY TypeStep
<1> SUFFICES ASSUME NEW b \in Addr
             PROVE  connected'[b] + OwesConnected(b)'
                      = disconnected'[b] + OwesDisconnected(b)' + demoted'[b]
                        + IsConnected(b)'
    BY DEF ConnectionAccounting
<1> DEFINE Law == connected[b] + OwesConnected(b)
                    = disconnected[b] + OwesDisconnected(b) + demoted[b] + IsConnected(b)
<1>a. Law
      BY DEF ConnectionAccounting
<1>b. /\ connected[b] \in Nat /\ disconnected[b] \in Nat /\ demoted[b] \in Nat
      /\ OwesConnected(b) \in {0, 1} /\ OwesDisconnected(b) \in {0, 1}
      /\ IsConnected(b) \in {0, 1}
      BY DEF TypeOK, OwesConnected, OwesDisconnected, IsConnected
<1>c. handler.at # "reply2" => OwesConnected(b) = 0
      BY DEF OwesConnected
<1>d. (handler.at)' # "reply2" => OwesConnected(b)' = 0
      BY DEF OwesConnected
<1>e. handler = Receiving => handler.at = "recv"
      BY DEF Receiving
<1>f. /\ connected'[b] \in Nat /\ disconnected'[b] \in Nat /\ demoted'[b] \in Nat
      /\ OwesConnected(b)' \in {0, 1} /\ OwesDisconnected(b)' \in {0, 1}
      /\ IsConnected(b)' \in {0, 1}
      BY <1>0 DEF TypeOK, OwesConnected, OwesDisconnected, IsConnected
<1>1. ASSUME NEW a \in Addr, Ping(a) PROVE Law'
      BY <1>1, <1>a, <1>c, <1>d, <1>e DEF Ping, Receive, feed,
         OwesDisconnected, IsConnected
<1>2. ASSUME NEW a \in Addr, NEW ok \in BOOLEAN, Request1(a, ok) PROVE Law'
      BY <1>2, <1>a, <1>c, <1>d, <1>e DEF Request1, Receive, Receiving, feed,
         OwesDisconnected, IsConnected
<1>3. ASSUME NEW a \in Addr, Request2(a) PROVE Law'
  <2>1. OwesConnected(b) = 0
        BY <1>3, <1>c, <1>e DEF Request2, Receive
  <2>2. /\ handler' \in InFlight /\ (handler.at)' = "reply2" /\ (handler.src)' = a
        /\ (handler.wasConnected)' <=> conn[a] = "Connected"
        BY <1>3 DEF Request2, InFlight
  <2>3. /\ connected' = connected /\ disconnected' = disconnected
        /\ demoted' = demoted /\ OwesDisconnected(b)' = OwesDisconnected(b)
        BY <1>3 DEF Request2, OwesDisconnected
  <2>4. CASE a = b
    <3>1. IsConnected(b)' = 1
          BY <1>3, <2>4 DEF Request2, IsConnected, TypeOK
    <3>2. OwesConnected(b)' = IF conn[a] = "Connected" THEN 0 ELSE 1
          BY <2>2, <2>4 DEF OwesConnected
    <3>3. QED
          BY <1>a, <1>b, <2>1, <2>3, <2>4, <3>1, <3>2 DEF IsConnected
  <2>5. CASE a # b
    <3>1. IsConnected(b)' = IsConnected(b)
          BY <1>3, <2>5 DEF Request2, IsConnected, TypeOK
    <3>2. OwesConnected(b)' = 0
          BY <2>2, <2>5 DEF OwesConnected
    <3>3. QED
          BY <1>a, <2>1, <2>3, <3>1, <3>2
  <2>6. QED
        BY <2>4, <2>5
<1>4. ASSUME NEW a \in Addr, NEW f \in BOOLEAN, NEW c \in BOOLEAN, FrameSet(a, f, c)
      PROVE Law'
  <2>1. (handler.at)' \in {"recv", "ack"}
        BY <1>4, <1>e DEF FrameSet, Receive, Receiving
  <2>2. QED
        BY <1>4, <1>a, <1>c, <1>d, <1>e, <2>1 DEF FrameSet, Receive, feed,
           OwesDisconnected, IsConnected
<1>5. ASSUME NEW a \in Addr, GoStale(a) PROVE Law'
      BY <1>5, <1>a DEF GoStale, feed, OwesConnected, OwesDisconnected, IsConnected
<1>6. ASSUME NEW a \in Addr, Announce(a) PROVE Law'
  <2>1. /\ connected' = connected /\ demoted' = demoted
        /\ OwesConnected(b)' = OwesConnected(b) /\ IsConnected(b)' = IsConnected(b)
        BY <1>6 DEF Announce, OwesConnected, IsConnected
  <2>2. disconnected'[b] + OwesDisconnected(b)' = disconnected[b] + OwesDisconnected(b)
        BY <1>6, <1>b DEF Announce, OwesDisconnected, TypeOK
  <2>3. QED
        BY <1>a, <1>b, <1>f, <2>1, <2>2
<1>7. CASE Ponged
      BY <1>7, <1>a, <1>c, <1>d, <1>e, HandlerFields DEF Ponged, Receiving, feed,
         OwesDisconnected, IsConnected, TypeOK, Absent
<1>8. ASSUME NEW sent \in BOOLEAN, Replied1(sent) PROVE Law'
  <2>1. /\ OwesConnected(b) = 0 /\ OwesConnected(b)' = 0
        /\ OwesDisconnected(b)' = OwesDisconnected(b)
        /\ connected' = connected /\ disconnected' = disconnected
        BY <1>8, <1>c, <1>d DEF Replied1, Receiving, OwesDisconnected
  <2>2. demoted'[b] + IsConnected(b)' = demoted[b] + IsConnected(b)
        BY <1>8, <1>b, HandlerFields DEF Replied1, IsConnected, TypeOK
  <2>3. QED
        BY <1>a, <1>b, <1>f, <2>1, <2>2
<1>9. CASE Replied2
  <2>1. /\ disconnected' = disconnected /\ demoted' = demoted
        /\ OwesDisconnected(b)' = OwesDisconnected(b) /\ IsConnected(b)' = IsConnected(b)
        BY <1>9 DEF Replied2, OwesDisconnected, IsConnected
  <2>2. OwesConnected(b)' = 0
        BY <1>9, <1>d DEF Replied2, Receiving
  <2>3. connected'[b] = connected[b] + OwesConnected(b)
        BY <1>9, HandlerFields DEF Replied2, OwesConnected, TypeOK
  <2>4. QED
        BY <1>a, <1>b, <1>f, <2>1, <2>2, <2>3
<1>10. CASE Acked
      BY <1>10, <1>a, <1>c, <1>d DEF Acked, Receiving, OwesDisconnected, IsConnected
<1>11. CASE RecvFails
      BY <1>11, <1>a, <1>c, <1>d, <1>e DEF RecvFails, Stopped, feed,
         OwesDisconnected, IsConnected
<1>12. CASE TimeoutStale
  <2>1. /\ connected' = connected /\ disconnected' = disconnected
        /\ demoted' = demoted /\ OwesConnected(b)' = OwesConnected(b)
        BY <1>12 DEF TimeoutStale, feed, OwesConnected
  <2>2. OwesDisconnected(b) = 0
        BY <1>12 DEF TimeoutStale, OwesDisconnected
  <2>3. OwesDisconnected(b)' + IsConnected(b)' = IsConnected(b)
        BY <1>12 DEF TimeoutStale, TimedOut, OwesDisconnected, IsConnected, Absent
  <2>4. QED
        BY <1>a, <1>b, <1>f, <2>1, <2>2, <2>3
<1>13. CASE UNCHANGED vars
      BY <1>13, <1>a DEF vars, feed, OwesConnected, OwesDisconnected, IsConnected
<1>14. ASSUME NEW a \in Addr, Acknowledge(a) PROVE Law'
      BY <1>14, <1>a DEF Acknowledge, feed, OwesConnected, OwesDisconnected, IsConnected
<1>15. QED
      BY <1>1, <1>2, <1>3, <1>4, <1>5, <1>6, <1>7, <1>8, <1>9, <1>10, <1>11,
         <1>12, <1>13, <1>14 DEF Next, Arrival, Resume

\* Every step keeps a payload's announcement behind its Connected event: a frame
\* set is accepted only of a Connected entry, and while the inbound task reads
\* it, it owes no Connected event, so that event has been sent.
LEMMA PacketStep ==
  ASSUME IInv, [Next]_vars
  PROVE  ConnectedBeforeGamePacket' /\ CompletedAfterConnected'
<1> USE DEF ConnectedBeforeGamePacket, CompletedAfterConnected
<1>a. TypeOK /\ ConnectionAccounting /\ ConnectedBeforeGamePacket /\ CompletedAfterConnected
      BY DEF IInv
<1>b. connected \in [Addr -> Nat] /\ speaking \subseteq Addr
      BY <1>a DEF TypeOK
<1>1. ASSUME connected' = connected, speaking' = speaking, (handler.at)' # "ack"
      PROVE  ConnectedBeforeGamePacket' /\ CompletedAfterConnected'
      BY <1>1, <1>a
<1>2. ASSUME NEW a \in Addr, Ping(a) \/ Request2(a)
             \/ \E ok \in BOOLEAN : Request1(a, ok)
      PROVE  ConnectedBeforeGamePacket' /\ CompletedAfterConnected'
      BY <1>2, <1>1 DEF Ping, Request1, Request2, Receiving, feed
<1>3. ASSUME NEW a \in Addr, NEW f \in BOOLEAN, NEW c \in BOOLEAN, FrameSet(a, f, c)
      PROVE  ConnectedBeforeGamePacket' /\ CompletedAfterConnected'
  <2>1. CASE conn[a] = "Connected" /\ f
    <3>1. handler = Receiving
          BY <1>3 DEF FrameSet, Receive
    <3>2. OwesConnected(a) = 0 /\ IsConnected(a) = 1
          BY <2>1, <3>1 DEF OwesConnected, IsConnected, Receiving
    <3>3. OwesDisconnected(a) \in Nat /\ disconnected[a] \in Nat /\ demoted[a] \in Nat
          BY <1>a DEF OwesDisconnected, TypeOK
    <3>4. connected[a] > 0
          BY <1>a, <1>b, <3>2, <3>3 DEF ConnectionAccounting
    <3>5. connected' = connected /\ speaking' = speaking /\ (handler.src)' = a
          BY <1>3, <2>1 DEF FrameSet, feed
    <3>6. QED
          BY <1>a, <3>4, <3>5
  <2>2. CASE ~(conn[a] = "Connected" /\ f)
    <3>1. handler' = Receiving
          BY <1>3, <2>2 DEF FrameSet, Receive
    <3>2. QED
          BY <1>3, <1>1, <3>1 DEF FrameSet, feed, Receiving
  <2>3. QED
        BY <2>1, <2>2
<1>4. ASSUME NEW a \in Addr, GoStale(a) \/ Announce(a) \/ Acknowledge(a)
      PROVE  ConnectedBeforeGamePacket' /\ CompletedAfterConnected'
      BY <1>4, <1>a DEF GoStale, Announce, Acknowledge, feed
<1>5. CASE Ponged \/ (\E sent \in BOOLEAN : Replied1(sent)) \/ RecvFails
      BY <1>5, <1>1 DEF Ponged, Replied1, RecvFails, Receiving, Stopped, feed
<1>6. CASE Replied2
  <2>1. \A b \in Addr : connected[b] > 0 => connected'[b] > 0
    <3>1. handler.src \in Addr
          BY <1>6, <1>a, HandlerFields DEF Replied2
    <3>2. QED
          BY <1>6, <1>b, <3>1 DEF Replied2
  <2>2. connected' \in [Addr -> Nat]
        BY <1>a, TypeStep DEF TypeOK
  <2>3. speaking' = speaking /\ (handler.at)' # "ack"
        BY <1>6 DEF Replied2, Receiving
  <2>4. ConnectedBeforeGamePacket'
        BY <1>a, <1>b, <2>1, <2>2, <2>3
  <2>5. QED
        BY <2>3, <2>4
<1>7. CASE Acked
      BY <1>7, <1>a DEF Acked, Receiving
<1>8. CASE TimeoutStale \/ UNCHANGED vars
      BY <1>8, <1>a DEF TimeoutStale, vars, feed
<1>9. QED
      BY <1>2, <1>3, <1>4, <1>5, <1>6, <1>7, <1>8 DEF Next, Arrival, Resume

\* Every step keeps at most one datagram late: only a Connected entry puts one
\* in hand, and then nothing late has been announced since it connected.
LEMMA LateStep ==
  ASSUME TypeOK, AtMostOneLate, NoneLateYet, [Next]_vars
  PROVE  AtMostOneLate' /\ NoneLateYet'
<1> USE DEF AtMostOneLate, NoneLateYet
<1>a. late \in [Addr -> Nat]
      BY DEF TypeOK
<1>1. ASSUME late' = late, \A b \in Addr : conn'[b] = "Connected" => conn[b] = "Connected",
             (handler.at)' = "ack" => handler' = handler
      PROVE  AtMostOneLate' /\ NoneLateYet'
      BY <1>1
<1>2. ASSUME NEW a \in Addr, Ping(a) \/ \E ok \in BOOLEAN : Request1(a, ok)
      PROVE  AtMostOneLate' /\ NoneLateYet'
      BY <1>2, <1>1 DEF Ping, Request1, Receiving, feed
<1>3. ASSUME NEW a \in Addr, Request2(a)
      PROVE  AtMostOneLate' /\ NoneLateYet'
  <2>1. late' = [late EXCEPT ![a] = 0] /\ (handler.at)' # "ack"
        BY <1>3 DEF Request2
  <2>2. \A b \in Addr : b # a => conn'[b] = conn[b]
        BY <1>3 DEF Request2, TypeOK
  <2>3. QED
        BY <1>a, <2>1, <2>2
<1>4. ASSUME NEW a \in Addr, NEW f \in BOOLEAN, NEW c \in BOOLEAN, FrameSet(a, f, c)
      PROVE  AtMostOneLate' /\ NoneLateYet'
  <2>1. conn' = conn /\ late' = late
        BY <1>4 DEF FrameSet, feed
  <2>2. CASE conn[a] = "Connected" /\ f
    <3>1. (handler.src)' = a /\ late[a] = 0
          BY <1>4, <2>2 DEF FrameSet
    <3>2. QED
          BY <2>1, <3>1
  <2>3. CASE ~(conn[a] = "Connected" /\ f)
    <3>1. (handler.at)' # "ack"
          BY <1>4, <2>3 DEF FrameSet, Receive, Receiving
    <3>2. QED
          BY <2>1, <3>1
  <2>4. QED
        BY <2>2, <2>3
<1>5. ASSUME NEW a \in Addr, GoStale(a) \/ Announce(a) \/ Acknowledge(a)
      PROVE  AtMostOneLate' /\ NoneLateYet'
      BY <1>5, <1>1 DEF GoStale, Announce, Acknowledge, feed
<1>6. CASE Ponged \/ \E sent \in BOOLEAN : Replied1(sent)
  <2>1. \A b \in Addr : conn'[b] = "Connected" => conn[b] = "Connected"
        BY <1>6 DEF Ponged, Replied1, TypeOK
  <2>2. late' = late /\ (handler.at)' # "ack"
        BY <1>6 DEF Ponged, Replied1, Receiving, feed
  <2>3. QED
        BY <1>1, <2>1, <2>2
<1>7. CASE Replied2 \/ RecvFails
      BY <1>7, <1>1 DEF Replied2, RecvFails, Receiving, Stopped, feed
<1>8. CASE Acked
  <2>1. handler.src \in Addr /\ conn' = conn /\ (handler.at)' # "ack"
        BY <1>8, HandlerFields DEF Acked, Receiving
  <2>2. late[handler.src] = 0
        BY <1>8, <2>1 DEF Acked
  <2>3. \/ late' = late
        \/ conn[handler.src] # "Connected" /\ late' = [late EXCEPT ![handler.src] = 1]
        BY <1>8, <1>a, <2>1, <2>2 DEF Acked
  <2>4. QED
        BY <1>a, <2>1, <2>3
<1>9. CASE TimeoutStale
      BY <1>9, <1>1 DEF TimeoutStale, feed, Absent
<1>10. CASE UNCHANGED vars
      BY <1>10, <1>1 DEF vars, feed
<1>11. QED
      BY <1>2, <1>3, <1>4, <1>5, <1>6, <1>7, <1>8, <1>9, <1>10
      DEF Next, Arrival, Resume

\* IInv is inductive.
THEOREM Invariance == Spec => []IInv
<1>1. Init => IInv
  <2> SUFFICES ASSUME Init PROVE IInv
      OBVIOUS
  <2>1. TypeOK
        BY BoundAssumption DEF Init, TypeOK
  <2>2. ConnectionAccounting
        BY DEF Init, ConnectionAccounting, OwesConnected, OwesDisconnected,
           IsConnected, InFlight, Receiving, Absent
  <2>3. ConnectedBeforeGamePacket /\ CompletedAfterConnected
        BY DEF Init, ConnectedBeforeGamePacket, CompletedAfterConnected, Receiving
  <2>4. AtMostOneLate /\ NoneLateYet
        BY DEF Init, AtMostOneLate, NoneLateYet
  <2>5. QED
        BY <2>1, <2>2, <2>3, <2>4 DEF IInv
<1>2. IInv /\ [Next]_vars => IInv'
      BY TypeStep, AccountingStep, PacketStep, LateStep DEF IInv
<1>3. QED
      BY <1>1, <1>2, PTL DEF Spec

\* ConnectionAccounting: over every interleaving of the inbound task and the
\* timeout task, no connection is announced twice or lost; a Request1 that
\* demotes a Connected entry is the only leak.
THEOREM AccountingHolds == Spec => []ConnectionAccounting
      BY Invariance, PTL DEF IInv

\* No GamePacket of an address is announced before its Connected event.
THEOREM PacketsFollowConnected == Spec => []ConnectedBeforeGamePacket
      BY Invariance, PTL DEF IInv

\* Once an address has lost its entry, at most one datagram of it, the one in
\* hand, is still announced before it connects again.
THEOREM OneLateAtMost == Spec => []AtMostOneLate
      BY Invariance, PTL DEF IInv
=============================================================================
