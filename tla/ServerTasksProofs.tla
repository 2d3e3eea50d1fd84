--------------------------- MODULE ServerTasksProofs ---------------------------
(***************************************************************************)
(* ServerTasks, for every finite set of addresses, lists of interactions   *)
(* and numbers of announcements: types, and what ties sessions, entity     *)
(* ids, players and the two channels together.                             *)
(***************************************************************************)
EXTENDS ServerTasks, FiniteSetTheorems, SequenceTheorems, TLAPS

Count == Cardinality(HaveSession)

\* No id is beyond the number of sessions: the next one, len() + 1, is new.
IdsCounted == \A a \in HaveSession : sessions[a] <= Count

\* The player the connection handler is about to add is the only one that a
\* session may lack.
PlayersFollow ==
  /\ players \subseteq 1..(Count + 1)
  /\ \A a \in HaveSession :
       sessions[a] \in players \/ (conn = "join" /\ entity_id = sessions[a])
  /\ conn = "join" => entity_id \in 1..(Count + 1)

Awaited(a) == \E i \in DOMAIN conn_rx : conn_rx[i] = a

\* A batch waits only with a session, or behind the Connected event that makes it.
BatchesFollow ==
  \A i \in DOMAIN in_rx : sessions[in_rx[i].src] # 0 \/ Awaited(in_rx[i].src)

\* The packet handler broadcasts, or ticks the game, for an interaction it has.
HasWork == packet \in {"broadcast", "game"} => job.events # <<>>

IInv == TypeOK /\ HasWork /\ IdsCounted /\ EntityIdsDistinct /\ PlayersFollow /\ BatchesFollow

\* The sessions are a finite number, no more than the addresses.
LEMMA Counted ==
  ASSUME TypeOK
  PROVE  /\ IsFiniteSet(HaveSession) /\ Count \in Nat /\ Cardinality(Addr) \in Nat
         /\ Count <= Cardinality(Addr)
<1>1. HaveSession \in SUBSET Addr
      BY DEF HaveSession
<1>2. QED
      BY <1>1, AddrAssumption, FS_Subset, FS_CardinalityType DEF Count

\* What the head and the tail of a channel are.
LEMMA HeadTail ==
  ASSUME NEW S, NEW s \in Seq(S), s # <<>>
  PROVE  /\ Head(s) \in S /\ Tail(s) \in Seq(S) /\ 1 \in DOMAIN s /\ s[1] = Head(s)
         /\ \A i \in DOMAIN Tail(s) : i + 1 \in DOMAIN s /\ Tail(s)[i] = s[i + 1]
         /\ \A i \in DOMAIN s : s[i] = Head(s) \/ \E j \in DOMAIN Tail(s) : Tail(s)[j] = s[i]
<1>1. /\ Head(s) \in S /\ Tail(s) \in Seq(S) /\ Len(s) \in Nat \ {0} /\ DOMAIN s = 1..Len(s)
      /\ Len(Tail(s)) = Len(s) - 1 /\ Head(s) = s[1]
      /\ \A i \in 1..Len(Tail(s)) : Tail(s)[i] = s[i + 1]
      BY HeadTailProperties, EmptySeq
<1>2. DOMAIN Tail(s) = 1..(Len(s) - 1)
      BY <1>1
<1>3. ASSUME NEW i \in DOMAIN s, i # 1 PROVE \E j \in DOMAIN Tail(s) : Tail(s)[j] = s[i]
  <2>1. i - 1 \in DOMAIN Tail(s) /\ Tail(s)[i - 1] = s[i]
        BY <1>1, <1>2, <1>3
  <2>2. QED
        BY <2>1
<1>4. QED
      BY <1>1, <1>2, <1>3

\* What making a session does to the sessions and to their number.
LEMMA Inserted ==
  ASSUME TypeOK, InsertSession
  PROVE  LET a == Head(conn_rx) IN
         /\ a \in Addr
         /\ entity_id' = Count + 1
         /\ sessions[a] # 0 => sessions' = sessions
         /\ sessions[a] = 0 =>
              /\ Count' = Count + 1 /\ Count' <= Cardinality(Addr)
              /\ HaveSession' = HaveSession \cup {a} /\ a \notin HaveSession
              /\ sessions' = [sessions EXCEPT ![a] = Count + 1]
<1> DEFINE a == Head(conn_rx)
<1>1. a \in Addr /\ sessions \in [Addr -> 0..Cardinality(Addr)]
      BY HeadTail DEF InsertSession, TypeOK
<1>2. IsFiniteSet(HaveSession) /\ Count \in Nat
      BY Counted
<1>3. sessions' = [sessions EXCEPT ![a] = IF @ = 0 THEN Count + 1 ELSE @] /\ entity_id' = Count + 1
      BY DEF InsertSession, Count
<1> HIDE DEF a
<1>4. ASSUME sessions[a] # 0 PROVE sessions' = sessions
      BY <1>1, <1>3, <1>4
<1>5. ASSUME sessions[a] = 0
      PROVE  /\ Count' = Count + 1 /\ Count' <= Cardinality(Addr)
             /\ HaveSession' = HaveSession \cup {a} /\ a \notin HaveSession
             /\ sessions' = [sessions EXCEPT ![a] = Count + 1]
  <2>1. sessions' = [sessions EXCEPT ![a] = Count + 1]
        BY <1>3, <1>5
  <2>2. HaveSession' = HaveSession \cup {a} /\ a \notin HaveSession
        BY <2>1, <1>1, <1>2, <1>5 DEF HaveSession
  <2>3. Count' = Count + 1
        BY <2>2, <1>2, FS_AddElement DEF Count
  <2>4. HaveSession' \in SUBSET Addr
        BY <2>2, <1>1 DEF HaveSession
  <2>5. Count' <= Cardinality(Addr)
        BY <2>4, AddrAssumption, FS_Subset DEF Count
  <2>6. QED
        BY <2>1, <2>2, <2>3, <2>5
<1>6. QED
      BY <1>1, <1>3, <1>4, <1>5 DEF a

\* RakNet announces a batch, one that decodes or one that does not.
Announced ==
  \/ \E a \in Addr, events \in Interactions, chunks \in BOOLEAN :
        GamePacket(a, events, chunks, TRUE)
  \/ \E a \in Addr : GamePacket(a, <<>>, FALSE, FALSE)

\* What is announced is one more batch, of an address with a session or an event.
LEMMA AnnouncedBatch ==
  ASSUME Announced
  PROVE  /\ \E batch \in Batch :
              /\ in_rx' = Append(in_rx, batch)
              /\ sessions[batch.src] # 0 \/ Awaited(batch.src)
         /\ UNCHANGED <<sessions, conn_rx>>
<1>1. ASSUME NEW a \in Addr, NEW events \in Interactions \cup {<<>>}, NEW chunks \in BOOLEAN,
             NEW decodes \in BOOLEAN, GamePacket(a, events, chunks, decodes)
      PROVE  /\ \E batch \in Batch :
                  /\ in_rx' = Append(in_rx, batch)
                  /\ sessions[batch.src] # 0 \/ Awaited(batch.src)
             /\ UNCHANGED <<sessions, conn_rx>>
  <2> DEFINE batch == [src |-> a, events |-> events, chunks |-> chunks, decodes |-> decodes]
  <2>1. batch \in Batch /\ batch.src = a
        BY DEF Batch
  <2>2. in_rx' = Append(in_rx, batch) /\ UNCHANGED <<sessions, conn_rx>>
        BY <1>1 DEF GamePacket, store
  <2>3. sessions[a] # 0 \/ Awaited(a)
        BY <1>1 DEF GamePacket, Awaited
  <2> HIDE DEF batch
  <2>4. QED
        BY <2>1, <2>2, <2>3
<1>2. QED
      BY <1>1 DEF Announced

\* Every step keeps the state variables in their types.
LEMMA TypeStep == TypeOK /\ HasWork /\ PlayersFollow /\ [Next]_vars => TypeOK'
<1> SUFFICES ASSUME TypeOK, HasWork, PlayersFollow, [Next]_vars PROVE TypeOK'
    OBVIOUS
<1> USE TaskBounds, InteractionsAssumption DEF channels, store, tasks, Lock, Free, IsFree
<1>1. ASSUME NEW a \in Addr, Connected(a) PROVE TypeOK'
  <2>1. conn_rx' \in Seq(Addr)
        BY <1>1 DEF Connected, TypeOK
  <2>2. QED
        BY <1>1, <2>1 DEF Connected, TypeOK
<1>2. ASSUME Announced PROVE TypeOK'
  <2>1. PICK batch \in Batch : in_rx' = Append(in_rx, batch)
        BY <1>2, AnnouncedBatch
  <2>2. /\ batches < MaxBatches /\ batches' = batches + 1
        /\ UNCHANGED <<conn_rx, connects, store, tasks, held, running>>
        BY <1>2 DEF Announced, GamePacket
  <2>3. in_rx' \in Seq(Batch)
        BY <2>1, AppendProperties DEF TypeOK
  <2>4. batches' \in 0..MaxBatches
        BY <2>2 DEF TypeOK
  <2>5. QED
        BY <2>2, <2>3, <2>4 DEF TypeOK
<1>3. CASE RaknetExits
      BY <1>3 DEF RaknetExits, TypeOK
<1>4. CASE InsertSession
  <2>1. /\ conn_rx' \in Seq(Addr) /\ Count \in Nat /\ Cardinality(Addr) \in Nat
        /\ Count <= Cardinality(Addr)
        BY <1>4, HeadTail, Counted DEF InsertSession, TypeOK
  <2>2. entity_id' \in 0..(Cardinality(Addr) + 1)
        BY <1>4, <2>1, Inserted
  <2>3. sessions' \in [Addr -> 0..Cardinality(Addr)]
    <3>1. CASE sessions[Head(conn_rx)] = 0
      <4>1. /\ sessions' = [sessions EXCEPT ![Head(conn_rx)] = Count + 1]
            /\ Count + 1 <= Cardinality(Addr)
            BY <1>4, <3>1, Inserted
      <4>2. Count + 1 \in 0..Cardinality(Addr)
            BY <4>1, <2>1
      <4>3. QED
            BY <4>1, <4>2 DEF TypeOK
    <3>2. CASE sessions[Head(conn_rx)] # 0
          BY <1>4, <3>2, Inserted DEF TypeOK
    <3>3. QED
          BY <3>1, <3>2
  <2>4. QED
        BY <1>4, <2>1, <2>2, <2>3 DEF InsertSession, TypeOK
<1>5. CASE AddPlayer
  <2>1. held' \in [Lock -> {Free, "conn", "packet", "loop"}]
        BY <1>5 DEF AddPlayer, TypeOK
  <2>2. players' \subseteq 1..(Cardinality(Addr) + 1)
        BY <1>5, Counted DEF AddPlayer, PlayersFollow, TypeOK
  <2>3. QED
        BY <1>5, <2>1, <2>2 DEF AddPlayer, TypeOK
<1>6. CASE TakeBatch
  <2>1. /\ in_rx' \in Seq(Batch) /\ Head(in_rx) \in Batch
        BY <1>6, HeadTail DEF TakeBatch, TypeOK
  <2>2. CASE sessions[Head(in_rx).src] = 0
        BY <1>6, <2>1, <2>2 DEF TakeBatch, TypeOK
  <2>3. CASE sessions[Head(in_rx).src] # 0
    <3>1. Head(in_rx).events \in Seq(Event) /\ Head(in_rx).chunks \in BOOLEAN
      <4>1. <<>> \in Seq(Event)
            OBVIOUS
      <4>2. Head(in_rx).events \in Interactions \cup {<<>>}
            BY <2>1 DEF Batch
      <4>3. QED
            BY <2>1, <4>1, <4>2 DEF Batch
    <3>2. job' \in [events : Seq(Event), chunks : BOOLEAN]
          BY <1>6, <2>3, <3>1 DEF TakeBatch
    <3>3. QED
          BY <1>6, <2>1, <2>3, <3>2 DEF TakeBatch, TypeOK
  <2>4. QED
        BY <2>2, <2>3
<1>7. ASSUME job.events # <<>> PROVE [job EXCEPT !.events = Tail(@)] \in [events : Seq(Event), chunks : BOOLEAN]
      BY <1>7, HeadTail DEF TypeOK
<1>8. CASE SkipInteraction
      BY <1>7, <1>8 DEF SkipInteraction, Applying, TypeOK
<1>9. CASE BreakBlock
      BY <1>9 DEF BreakBlock, Applying, TypeOK
<1>10. CASE PlaceBlock
      BY <1>10 DEF PlaceBlock, Applying, TypeOK
<1>11. CASE ReadSessions
      BY <1>11 DEF ReadSessions, TypeOK
<1>12. CASE TickInteraction
      BY <1>7, <1>12 DEF TickInteraction, HasWork, TypeOK
<1>13. CASE EndBatch
      BY <1>13 DEF EndBatch, TypeOK
<1>14. CASE SendChunks
      BY <1>14 DEF SendChunks, TypeOK
<1>15. ASSUME NEW u \in BOOLEAN, Tick(u) PROVE TypeOK'
      BY <1>15 DEF Tick, TypeOK
<1>16. CASE ProcessOutput
      BY <1>16 DEF ProcessOutput, TypeOK
<1>17. ASSUME NEW d \in BOOLEAN, Report(d) PROVE TypeOK'
      BY <1>17 DEF Report, TypeOK
<1>18. ASSUME NEW line \in {"list", "stopped"}, ConsoleLine(line) PROVE TypeOK'
      BY <1>18 DEF ConsoleLine, TypeOK
<1>19. CASE ListPlayers
      BY <1>19 DEF ListPlayers, TypeOK
<1>20. CASE RejectBatch
  <2>1. in_rx' \in Seq(Batch)
        BY <1>20, HeadTail DEF RejectBatch, TypeOK
  <2>2. QED
        BY <1>20, <2>1 DEF RejectBatch, TypeOK
<1>21. CASE UNCHANGED vars
      BY <1>21 DEF vars, TypeOK
<1>22. QED
      BY <1>1, <1>2, <1>3, <1>4, <1>5, <1>6, <1>8, <1>9, <1>10, <1>11, <1>12, <1>13,
         <1>14, <1>15, <1>16, <1>17, <1>18, <1>19, <1>20, <1>21
         DEF Next, Raknet, Announced, ConnTask, PacketTask, LoopTask

LEMMA WorkStep == TypeOK /\ HasWork /\ [Next]_vars => HasWork'
<1> SUFFICES ASSUME TypeOK, HasWork, [Next]_vars PROVE HasWork'
    OBVIOUS
<1>1. CASE UNCHANGED <<packet, job>>
      BY <1>1 DEF HasWork
<1>2. CASE PacketTask
      BY <1>2 DEF PacketTask, RejectBatch, TakeBatch, SkipInteraction, BreakBlock, PlaceBlock,
         ReadSessions, tasks, TickInteraction, EndBatch, SendChunks, Applying, HasWork
<1>3. QED
      BY <1>1, <1>2 DEF Next, vars, channels, store, tasks, Raknet, ConnTask, LoopTask,
         Connected, GamePacket, RaknetExits, InsertSession, AddPlayer, Tick, ProcessOutput,
         Report, ConsoleLine, ListPlayers

\* What the sessions and the players depend on, which few of the steps change.
roster == <<sessions, players, conn, entity_id>>

\* Which steps change the roster or a channel: those of the connection handler, and
\* RakNet and the packet handler at the ends of the channels.
LEMMA WhoChanges ==
  ASSUME [Next]_vars
  PROVE  \/ InsertSession
         \/ AddPlayer
         \/ \E a \in Addr : Connected(a)
         \/ Announced
         \/ RejectBatch
         \/ TakeBatch
         \/ UNCHANGED <<roster, conn_rx, in_rx>>
<1>1. CASE SkipInteraction \/ BreakBlock \/ PlaceBlock \/ ReadSessions \/ TickInteraction
           \/ EndBatch \/ SendChunks
      BY <1>1 DEF SkipInteraction, BreakBlock, PlaceBlock, ReadSessions, TickInteraction,
         EndBatch, SendChunks, channels, store, roster
<1>2. CASE LoopTask \/ ListPlayers \/ RaknetExits
           \/ \E line \in {"list", "stopped"} : ConsoleLine(line)
      BY <1>2 DEF LoopTask, Tick, ProcessOutput, Report, ListPlayers, RaknetExits, ConsoleLine,
         channels, store, tasks, roster
<1>3. CASE UNCHANGED vars
      BY <1>3 DEF vars, channels, store, tasks, roster
<1>4. QED
      BY <1>1, <1>2, <1>3 DEF Next, Raknet, ConnTask, PacketTask, Announced

\* The numbers of entities and players go on fitting together.
LEMMA RosterStep ==
  ASSUME IInv, [Next]_vars
  PROVE  IdsCounted' /\ EntityIdsDistinct' /\ PlayersFollow'
<1> USE DEF IInv
<1>0. Count \in Nat /\ sessions \in [Addr -> 0..Cardinality(Addr)] /\ Cardinality(Addr) \in Nat
      BY Counted DEF TypeOK
<1>1. CASE UNCHANGED roster
      BY <1>1 DEF roster, IdsCounted, EntityIdsDistinct, PlayersFollow, Count, HaveSession
<1>2. CASE InsertSession /\ sessions[Head(conn_rx)] # 0
  <2>1. sessions' = sessions /\ entity_id' = Count + 1 /\ players' = players /\ conn' = "join"
        /\ HaveSession' = HaveSession /\ Count' = Count /\ conn = "recv"
        BY <1>2, Inserted DEF InsertSession, HaveSession, Count
  <2>2. QED
        BY <2>1, <1>0 DEF IdsCounted, EntityIdsDistinct, PlayersFollow
<1>3. CASE InsertSession /\ sessions[Head(conn_rx)] = 0
  <2> DEFINE a == Head(conn_rx)
  <2>1. /\ a \in Addr /\ Count' = Count + 1 /\ HaveSession' = HaveSession \cup {a}
        /\ a \notin HaveSession /\ sessions' = [sessions EXCEPT ![a] = Count + 1]
        /\ entity_id' = Count + 1
        BY <1>3, Inserted
  <2>2. players' = players /\ conn' = "join" /\ conn = "recv"
        BY <1>3 DEF InsertSession
  <2> HIDE DEF a
  <2>3. /\ sessions'[a] = Count + 1
        /\ \A b \in HaveSession : sessions'[b] = sessions[b] /\ sessions[b] <= Count
        BY <2>1, <1>0 DEF IdsCounted, HaveSession
  <2>4. \A b \in HaveSession : sessions[b] \in Nat
        BY <1>0 DEF HaveSession
  <2>5. IdsCounted'
        BY <2>1, <2>3, <2>4, <1>0 DEF IdsCounted
  <2>6. EntityIdsDistinct'
        BY <2>1, <2>3, <2>4, <1>0 DEF EntityIdsDistinct
  <2>7. PlayersFollow'
        BY <2>1, <2>2, <2>3, <1>0 DEF PlayersFollow
  <2>8. QED
        BY <2>5, <2>6, <2>7
<1>4. CASE AddPlayer
  <2>1. sessions' = sessions /\ HaveSession' = HaveSession /\ Count' = Count
        BY <1>4 DEF AddPlayer, HaveSession, Count
  <2>2. PlayersFollow'
        BY <1>4, <2>1 DEF AddPlayer, PlayersFollow
  <2>3. QED
        BY <2>1, <2>2 DEF IdsCounted, EntityIdsDistinct
<1>5. CASE \/ TakeBatch \/ RejectBatch \/ Announced
           \/ \E a \in Addr : Connected(a)
  <2>1. UNCHANGED roster
        BY <1>5 DEF TakeBatch, RejectBatch, Announced, Connected, GamePacket, roster, store, tasks
  <2>2. QED
        BY <2>1, <1>1
<1>6. QED
      BY WhoChanges, <1>1, <1>2, <1>3, <1>4, <1>5

\* No batch loses the session, or the event, that it waits behind.
LEMMA BatchesStep ==
  ASSUME IInv, [Next]_vars
  PROVE  BatchesFollow'
<1> USE DEF IInv
<1>0. /\ conn_rx \in Seq(Addr) /\ sessions \in [Addr -> 0..Cardinality(Addr)]
      /\ in_rx \in Seq(Batch)
      BY DEF TypeOK
<1>1. CASE UNCHANGED <<roster, conn_rx, in_rx>> \/ AddPlayer
      BY <1>1 DEF AddPlayer, channels, roster, BatchesFollow, Awaited
<1>2. CASE InsertSession
  <2>1. conn_rx # <<>> /\ conn_rx' = Tail(conn_rx) /\ in_rx' = in_rx
        BY <1>2 DEF InsertSession
  <2>2. sessions'[Head(conn_rx)] # 0 /\ \A b \in Addr : sessions[b] # 0 => sessions'[b] # 0
    <3>1. Count \in Nat
          BY Counted
    <3>2. QED
          BY <1>0, <1>2, <3>1, Inserted
  <2>3. \A b \in Addr : Awaited(b) => b = Head(conn_rx) \/ Awaited(b)'
        BY <1>0, <2>1, HeadTail DEF Awaited
  <2>4. ASSUME NEW i \in DOMAIN in_rx
        PROVE  sessions'[in_rx[i].src] # 0 \/ \E j \in DOMAIN conn_rx' : conn_rx'[j] = in_rx[i].src
    <3>1. in_rx[i] \in Batch
          BY <1>0, <2>4
    <3>2. in_rx[i].src \in Addr
          BY <3>1 DEF Batch
    <3>3. sessions[in_rx[i].src] # 0 \/ Awaited(in_rx[i].src)
          BY <2>4 DEF BatchesFollow
    <3>4. QED
          BY <3>2, <3>3, <2>2, <2>3 DEF Awaited
  <2>5. QED
        BY <2>1, <2>4 DEF BatchesFollow, Awaited
<1>3. ASSUME NEW a \in Addr, Connected(a) PROVE BatchesFollow'
  <2>1. conn_rx' = Append(conn_rx, a) /\ in_rx' = in_rx /\ sessions' = sessions
        BY <1>3 DEF Connected, store
  <2>2. \A i \in DOMAIN conn_rx : i \in DOMAIN conn_rx' /\ conn_rx'[i] = conn_rx[i]
        BY <2>1, <1>0, AppendProperties
  <2>3. QED
        BY <2>1, <2>2 DEF BatchesFollow, Awaited
<1>4. CASE Announced
  <2>1. UNCHANGED <<sessions, conn_rx>>
        BY <1>4, AnnouncedBatch
  <2>2. PICK batch \in Batch :
              in_rx' = Append(in_rx, batch) /\ (sessions[batch.src] # 0 \/ Awaited(batch.src))
        BY <1>4, AnnouncedBatch, Zenon
  <2>3. in_rx' = Append(in_rx, batch)
        BY <2>2, Zenon
  <2>4. /\ Len(in_rx') = Len(in_rx) + 1 /\ Len(in_rx) \in Nat
        /\ DOMAIN in_rx = 1..Len(in_rx) /\ DOMAIN in_rx' = 1..Len(in_rx')
        /\ \A i \in 1..Len(in_rx) : in_rx'[i] = in_rx[i]
        /\ in_rx'[Len(in_rx) + 1] = batch
        BY <2>3, <1>0, AppendProperties
  <2>5. \A i \in DOMAIN in_rx' : in_rx'[i] = batch \/ (i \in DOMAIN in_rx /\ in_rx'[i] = in_rx[i])
        BY <2>4
  <2>6. QED
        BY <2>1, <2>2, <2>5 DEF BatchesFollow, Awaited
<1>5. CASE TakeBatch \/ RejectBatch
  <2>1. in_rx' = Tail(in_rx) /\ in_rx # <<>> /\ conn_rx' = conn_rx /\ sessions' = sessions
        BY <1>5 DEF TakeBatch, RejectBatch, store
  <2>2. \A i \in DOMAIN in_rx' : i + 1 \in DOMAIN in_rx /\ in_rx'[i] = in_rx[i + 1]
        BY <2>1, <1>0, HeadTail
  <2>3. QED
        BY <2>1, <2>2 DEF BatchesFollow, Awaited
<1>6. QED
      BY WhoChanges, <1>1, <1>2, <1>3, <1>4, <1>5

LEMMA InitIInv == Init => IInv
<1> SUFFICES ASSUME Init PROVE IInv
    OBVIOUS
<1>1. TypeOK
  <2>1. Cardinality(Addr) \in Nat
        BY AddrAssumption, FS_CardinalityType
  <2>2. [events |-> <<>>, chunks |-> FALSE] \in [events : Seq(Event), chunks : BOOLEAN]
        OBVIOUS
  <2>3. QED
        BY <2>1, <2>2, TaskBounds DEF Init, TypeOK, Lock, Free
<1>2. HaveSession = {}
      BY DEF Init, HaveSession
<1>3. QED
      BY <1>1, <1>2 DEF Init, IInv, HasWork, IdsCounted, EntityIdsDistinct, PlayersFollow,
         BatchesFollow

\* The invariant.
THEOREM Invariance == Spec => []IInv
<1>1. IInv /\ [Next]_vars => IInv'
      BY TypeStep, WorkStep, RosterStep, BatchesStep DEF IInv
<1>2. QED
      BY <1>1, InitIInv, PTL DEF Spec

\* The sessions, channels, tasks and locks stay in their types: in particular ids
\* and players never go beyond the number of addresses and one more.
THEOREM TypeCorrect == Spec => []TypeOK
<1>1. IInv => TypeOK
      BY DEF IInv
<1>2. QED
      BY <1>1, Invariance, PTL

\* len() + 1 names an entity once.
THEOREM IdsAreDistinct == Spec => []EntityIdsDistinct
<1>1. IInv => EntityIdsDistinct
      BY DEF IInv
<1>2. QED
      BY <1>1, Invariance, PTL

\* Between two connections every session's entity is a player of the game.
THEOREM SessionsJoin == Spec => []SessionsArePlayers
<1>1. IInv => SessionsArePlayers
      BY DEF IInv, PlayersFollow, SessionsArePlayers, Count
<1>2. QED
      BY <1>1, Invariance, PTL

\* A batch that decodes is dropped in the window before its Connected event is
\* handled, and at no other time.
THEOREM DropsAreEarly == Spec => DropsOnlyBeforeConnect
<1>1. IInv /\ [Next]_vars =>
        [Drops => \E i \in DOMAIN conn_rx : conn_rx[i] = Head(in_rx).src]_vars
  <2> SUFFICES ASSUME IInv, [Next]_vars, Drops
               PROVE  \E i \in DOMAIN conn_rx : conn_rx[i] = Head(in_rx).src
      OBVIOUS
  <2>1. in_rx \in Seq(Batch)
        BY DEF IInv, TypeOK
  <2>2. /\ in_rx # <<>> /\ in_rx' = Tail(in_rx) /\ packet = "recv" /\ packet' = "recv"
        /\ Head(in_rx).decodes
        BY DEF Drops
  <2>3. in_rx' # in_rx
    <3>1. Len(Tail(in_rx)) = Len(in_rx) - 1 /\ Len(in_rx) \in Nat
          BY <2>1, <2>2, HeadTailProperties
    <3>2. Tail(in_rx) # in_rx
          BY <3>1
    <3>3. QED
          BY <2>2, <3>2
  <2>4. CASE TakeBatch
    <3>1. sessions[Head(in_rx).src] = 0
          BY <2>2, <2>4 DEF TakeBatch
    <3>2. 1 \in DOMAIN in_rx /\ in_rx[1] = Head(in_rx)
          BY <2>1, <2>2, HeadTail
    <3>3. QED
          BY <3>1, <3>2 DEF IInv, BatchesFollow, Awaited
  <2>5. ~Announced /\ ~RejectBatch
    <3>1. ~RejectBatch
          BY <2>2 DEF RejectBatch
    <3>2. ASSUME NEW batch \in Batch, in_rx' = Append(in_rx, batch) PROVE FALSE
      <4>1. Len(in_rx') = Len(in_rx) + 1
            BY <2>1, <3>2, AppendProperties
      <4>2. Len(Tail(in_rx)) = Len(in_rx) - 1 /\ Len(in_rx) \in Nat
            BY <2>1, <2>2, HeadTailProperties
      <4>3. QED
            BY <2>2, <4>1, <4>2
    <3>3. QED
          BY <3>1, <3>2, AnnouncedBatch
  <2>6. CASE InsertSession \/ AddPlayer \/ \E a \in Addr : Connected(a)
        BY <2>3, <2>6 DEF InsertSession, AddPlayer, Connected, channels
  <2>7. QED
        BY WhoChanges, <2>3, <2>4, <2>5, <2>6
<1>2. QED
      BY <1>1, Invariance, PTL DEF Spec, DropsOnlyBeforeConnect
=============================================================================
