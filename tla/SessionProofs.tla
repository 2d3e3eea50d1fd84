----------------------------- MODULE SessionProofs -----------------------------
(***************************************************************************)
(* Session, for all positions, blocks, radii, reaches and bursts: types,   *)
(* what a client is told in which order, and that a burst leaves nothing   *)
(* behind.                                                                 *)
(***************************************************************************)
EXTENDS Session, SequenceTheorems, TLAPS

\* The bound on the packets is kept by the bursts.
BurstCounted == fed + burst <= MaxPackets

\* What NothingLeftOver needs: what the handler has done to a burst before.
TakenUp ==
  /\ handler = "recv" => queue = <<>> /\ interactions = <<>>
  /\ handler = "respond" => interactions = <<>>

\* What the client of a session that entered the world was told first, and what
\* it may be told after.
Prologue == <<"networkSettings">> \o Welcome \o Entry
InWorld == {"startGame", "time", "radius", "chunks"}

WorldTold(told) ==
  /\ Len(told) >= 9
  /\ \A i \in 1..9 : told[i] = Prologue[i]
  /\ \A i \in 10..Len(told) : told[i] \in InWorld

\* What AnswersInOrder and ChunksAfterEntry need: how far the client has been told
\* is the state, and columns are due in the world only.
ToldByState ==
  /\ state = "WaitSettings" => Told = <<>>
  /\ state = "WaitLogin" => Told = <<"networkSettings">>
  /\ state = "Closed" => Told = <<"networkSettings", "disconnect">>
  /\ state = "WaitResourcePacks" => Told = <<"networkSettings">> \o Welcome
  /\ state = "Spawned" => WorldTold(Told)
  /\ chunksDue => state = "Spawned"

IInv == TypeOK /\ BurstCounted /\ TakenUp /\ ToldByState

\* What a packet handed to on_packet does outside of the session.
LEMMA Fed ==
  ASSUME TypeOK, BurstCounted, NEW due \in BOOLEAN, Feed(due)
  PROVE  /\ handler = "feed" /\ handler' = "feed" /\ chunksDue' = due
         /\ burst' \in 0..MaxBurst /\ fed' \in 0..MaxPackets /\ BurstCounted'
  BY BoundAssumption DEF Feed, TypeOK, BurstCounted

LEMMA Clamped == \A r \in Int : Clamp(r) \in 2..32
  BY DEF Clamp

LEMMA PrologueIs ==
  /\ Prologue = <<"networkSettings", "loginSuccess", "packsInfo", "playStatusSpawn",
                  "packStack", "startGame", "time", "radius", "playerSpawn">>
  /\ WorldTold(Prologue)
<1>1. Prologue = <<"networkSettings", "loginSuccess", "packsInfo", "playStatusSpawn",
                  "packStack", "startGame", "time", "radius", "playerSpawn">>
  <2> DEFINE first == <<"networkSettings", "loginSuccess", "packsInfo">>
             all == <<"networkSettings", "loginSuccess", "packsInfo", "playStatusSpawn",
                      "packStack", "startGame", "time", "radius", "playerSpawn">>
  <2>1. /\ <<"networkSettings">> \in Seq(Packet) /\ Welcome \in Seq(Packet)
        /\ Entry \in Seq(Packet) /\ first \in Seq(Packet) /\ all \in Seq(Packet)
        BY DEF Packet, Welcome, Entry
  <2>2. <<"networkSettings">> \o Welcome = first
    <3>1. /\ <<"networkSettings">> \o Welcome \in Seq(Packet)
          /\ Len(<<"networkSettings">> \o Welcome) = 3
          /\ \A i \in 1..3 : (<<"networkSettings">> \o Welcome)[i] = first[i]
          BY <2>1, ConcatProperties DEF Welcome
    <3>2. QED
          BY <2>1, <3>1, SeqEqual
  <2>3. first \o Entry = all
    <3>1. /\ first \o Entry \in Seq(Packet)
          /\ Len(first \o Entry) = 9
          /\ \A i \in 1..9 : (first \o Entry)[i] = all[i]
          BY <2>1, ConcatProperties DEF Entry
    <3>2. QED
          BY <2>1, <3>1, SeqEqual
  <2>4. QED
        BY <2>2, <2>3 DEF Prologue
<1>2. QED
      BY <1>1 DEF WorldTold

\* An answer is told after all that was told before.
LEMMA Answered ==
  ASSUME TypeOK, NEW packets \in Seq(Packet), Answer(packets), UNCHANGED sent
  PROVE  queue' \in Seq(Packet) /\ Told' = Told \o packets
<1>1. queue \in Seq(Packet) /\ sent \in Seq(Packet)
      BY DEF TypeOK
<1>2. queue' = queue \o packets /\ sent' = sent
      BY DEF Answer
<1>3. queue' \in Seq(Packet)
      BY <1>1, <1>2, ConcatProperties
<1>4. sent \o (queue \o packets) = (sent \o queue) \o packets
      BY <1>1, ConcatAssociative
<1>5. QED
      BY <1>2, <1>3, <1>4 DEF Told

\* What is told in the world leaves the prologue as it is.
LEMMA WorldGoesOn ==
  ASSUME NEW told \in Seq(Packet), WorldTold(told), NEW more \in Seq(InWorld)
  PROVE  WorldTold(told \o more)
<1>1. more \in Seq(Packet)
  <2>1. InWorld \subseteq Packet
        BY DEF InWorld, Packet
  <2>2. QED
        BY <2>1
<1>2. /\ Len(told \o more) = Len(told) + Len(more)
      /\ \A i \in 1..(Len(told) + Len(more)) :
           (told \o more)[i] = IF i <= Len(told) THEN told[i] ELSE more[i - Len(told)]
      BY <1>1, ConcatProperties
<1>3. Len(told) \in Nat /\ Len(more) \in Nat /\ \A i \in 1..Len(more) : more[i] \in InWorld
      OBVIOUS
<1>4. Len(told) >= 9 /\ \A i \in 1..9 : told[i] = Prologue[i]
      BY DEF WorldTold
<1>5. Len(told \o more) >= 9 /\ \A i \in 1..9 : (told \o more)[i] = Prologue[i]
      BY <1>2, <1>3, <1>4
<1>6. ASSUME NEW i \in 10..Len(told \o more)
      PROVE  (told \o more)[i] \in InWorld
  <2>1. CASE i <= Len(told)
    <3>1. told[i] \in InWorld
          BY <2>1, <1>3 DEF WorldTold
    <3>2. QED
          BY <3>1, <2>1, <1>2, <1>3
  <2>2. CASE i > Len(told)
    <3>1. i - Len(told) \in 1..Len(more)
          BY <2>2, <1>2, <1>3
    <3>2. more[i - Len(told)] \in InWorld
          BY <3>1, <1>3
    <3>3. QED
          BY <3>2, <2>2, <1>2, <1>3
  <2>3. QED
        BY <2>1, <2>2, <1>3
<1>7. QED
      BY <1>5, <1>6 DEF WorldTold

LEMMA InitIInv == Init => IInv
<1> SUFFICES ASSUME Init PROVE IInv
    OBVIOUS
<1>1. MaxBurst \in Nat /\ MaxPackets \in Nat
      BY BoundAssumption
<1>2. TypeOK
  <2>1. interactions \in Seq([act : {"break", "place"}, block : Block])
        BY DEF Init
  <2>2. state \in States /\ handler \in {"recv", "feed", "respond", "stuck"}
        BY DEF Init, States
  <2>3. /\ position \in Position \cup {Spawn} /\ viewDistance \in 2..32
        /\ burst \in 0..MaxBurst /\ fed \in 0..MaxPackets
        BY <1>1 DEF Init
  <2>4. chunksDue \in BOOLEAN
        BY DEF Init
  <2>5. queue \in Seq(Packet) /\ sent \in Seq(Packet)
        BY DEF Init
  <2>6. QED
        BY <2>1, <2>2, <2>3, <2>4, <2>5 DEF TypeOK
<1>3. ToldByState
      BY DEF Init, ToldByState, Told
<1>4. QED
      BY <1>1, <1>2, <1>3 DEF Init, IInv, BurstCounted, TakenUp

\* A packet is answered as far as the login has come.
LEMMA ToldStep ==
  ASSUME IInv,
         \/ RequestNetworkSettings
         \/ \E accepted \in BOOLEAN : Login(accepted)
         \/ ResourcePackClientResponse
         \/ \E x \in Position : MovePlayer(x)
         \/ \E r \in Radius : RequestChunkRadius(r)
         \/ \E act \in {"break", "place"}, b \in Block : Interact(act, b)
         \/ Respawn
         \/ Ignored
  PROVE  queue' \in Seq(Packet) /\ sent' \in Seq(Packet) /\ ToldByState'
<1>1. TypeOK /\ ToldByState /\ UNCHANGED sent
      BY DEF IInv, RequestNetworkSettings, Login, ResourcePackClientResponse, MovePlayer,
         RequestChunkRadius, Interact, Respawn, Ignored, Feed
<1>2. sent' \in Seq(Packet)
      BY <1>1 DEF TypeOK
<1>3. Told \in Seq(Packet)
      BY <1>1, ConcatProperties DEF TypeOK, Told
<1>4. CASE RequestNetworkSettings
  <2>1. Told = <<>> /\ Answer(<<"networkSettings">>)
        BY <1>1, <1>4 DEF RequestNetworkSettings, ToldByState
  <2>2. <<"networkSettings">> \in Seq(Packet)
        BY DEF Packet
  <2>3. queue' \in Seq(Packet) /\ Told' = <<"networkSettings">>
        BY <1>1, <2>1, <2>2, Answered, ConcatEmptySeq
  <2>4. state' = "WaitLogin" /\ chunksDue' = FALSE
        BY <1>4 DEF RequestNetworkSettings, Feed
  <2>5. QED
        BY <1>2, <2>3, <2>4 DEF ToldByState
<1>5. ASSUME NEW accepted \in BOOLEAN, Login(accepted)
      PROVE  queue' \in Seq(Packet) /\ ToldByState'
  <2>1. Told = <<"networkSettings">> /\ chunksDue' = FALSE
        BY <1>1, <1>5 DEF Login, ToldByState, Feed
  <2>2. CASE accepted
    <3>1. Answer(Welcome) /\ state' = "WaitResourcePacks" /\ Welcome \in Seq(Packet)
          BY <1>5, <2>2 DEF Login, Welcome, Packet
    <3>2. queue' \in Seq(Packet) /\ Told' = <<"networkSettings">> \o Welcome
          BY <1>1, <2>1, <3>1, Answered
    <3>3. QED
          BY <2>1, <3>1, <3>2 DEF ToldByState
  <2>3. CASE ~accepted
    <3>1. Answer(<<"disconnect">>) /\ state' = "Closed"
          BY <1>5, <2>3 DEF Login
    <3>2. <<"disconnect">> \in Seq(Packet)
          BY DEF Packet
    <3>3. queue' \in Seq(Packet) /\ Told' = <<"networkSettings">> \o <<"disconnect">>
          BY <1>1, <2>1, <3>1, <3>2, Answered
    <3>4. Told' = <<"networkSettings", "disconnect">>
      <4>1. /\ <<"networkSettings">> \in Seq(Packet)
            /\ <<"networkSettings", "disconnect">> \in Seq(Packet)
            BY DEF Packet
      <4>2. /\ Told' \in Seq(Packet) /\ Len(Told') = 2
            /\ \A i \in 1..2 : Told'[i] = <<"networkSettings", "disconnect">>[i]
            BY <3>2, <3>3, <4>1, ConcatProperties
      <4>3. QED
            BY <4>1, <4>2, SeqEqual
    <3>5. QED
          BY <2>1, <3>1, <3>3, <3>4 DEF ToldByState
  <2>4. QED
        BY <2>2, <2>3
<1>6. CASE ResourcePackClientResponse
  <2>1. /\ Told = <<"networkSettings">> \o Welcome /\ Answer(Entry) /\ state' = "Spawned"
        /\ Entry \in Seq(Packet)
        BY <1>1, <1>6 DEF ResourcePackClientResponse, ToldByState, Entry, Packet
  <2>2. queue' \in Seq(Packet) /\ Told' = Prologue
        BY <1>1, <2>1, Answered DEF Prologue
  <2>3. WorldTold(Told')
        BY <2>2, PrologueIs
  <2>4. QED
        BY <1>2, <2>1, <2>2, <2>3 DEF ToldByState
<1>7. ASSUME NEW more \in Seq(InWorld), state = "Spawned", state' = "Spawned", Answer(more)
      PROVE  queue' \in Seq(Packet) /\ ToldByState'
  <2>1. more \in Seq(Packet)
        BY DEF InWorld, Packet
  <2>2. queue' \in Seq(Packet) /\ Told' = Told \o more
        BY <1>1, <1>7, <2>1, Answered
  <2>3. WorldTold(Told')
        BY <1>1, <1>3, <1>7, <2>2, WorldGoesOn DEF ToldByState
  <2>4. QED
        BY <1>7, <2>2, <2>3 DEF ToldByState
<1>8. ASSUME NEW r \in Radius, RequestChunkRadius(r)
      PROVE  queue' \in Seq(Packet) /\ ToldByState'
  <2>1. <<"radius">> \in Seq(InWorld)
        BY DEF InWorld
  <2>2. QED
        BY <1>7, <1>8, <2>1 DEF RequestChunkRadius
<1>9. CASE Respawn
  <2>1. <<"startGame", "time">> \in Seq(InWorld)
        BY DEF InWorld
  <2>2. QED
        BY <1>2, <1>7, <1>9, <2>1 DEF Respawn
<1>10. ASSUME UNCHANGED <<state, queue>>, chunksDue' = FALSE
       PROVE  queue' \in Seq(Packet) /\ ToldByState'
       BY <1>1, <1>10 DEF TypeOK, ToldByState, Told
<1>11. CASE \/ \E x \in Position : MovePlayer(x)
            \/ \E act \in {"break", "place"}, b \in Block : Interact(act, b)
            \/ Ignored
       BY <1>2, <1>10, <1>11 DEF MovePlayer, Interact, Ignored, Feed, session
<1>12. QED
       BY <1>2, <1>4, <1>5, <1>6, <1>8, <1>9, <1>11

\* Every packet keeps the invariant, whatever on_packet makes of it.
LEMMA PacketStep ==
  ASSUME IInv,
         \/ RequestNetworkSettings
         \/ \E accepted \in BOOLEAN : Login(accepted)
         \/ ResourcePackClientResponse
         \/ \E x \in Position : MovePlayer(x)
         \/ \E r \in Radius : RequestChunkRadius(r)
         \/ \E act \in {"break", "place"}, b \in Block : Interact(act, b)
         \/ Respawn
         \/ Ignored
  PROVE  IInv'
<1> USE DEF IInv
<1>1. PICK due \in BOOLEAN : Feed(due)
      BY DEF RequestNetworkSettings, Login, ResourcePackClientResponse, MovePlayer,
         RequestChunkRadius, Interact, Respawn, Ignored
<1>2. /\ handler = "feed" /\ handler' = "feed" /\ chunksDue' = due
      /\ burst' \in 0..MaxBurst /\ fed' \in 0..MaxPackets /\ BurstCounted'
      BY <1>1, Fed
<1>3. state' \in States /\ position' \in Position \cup {Spawn} /\ viewDistance' \in 2..32
      BY Clamped, RadiusAssumption DEF TypeOK, States, RequestNetworkSettings, Login,
         ResourcePackClientResponse, MovePlayer, RequestChunkRadius, Interact, Respawn, Ignored,
         session
<1>4. interactions' \in Seq([act : {"break", "place"}, block : Block])
  <2>1. ASSUME NEW act \in {"break", "place"}, NEW b \in Block, Interact(act, b)
        PROVE  interactions' \in Seq([act : {"break", "place"}, block : Block])
    <3>1. [act |-> act, block |-> b] \in [act : {"break", "place"}, block : Block]
          OBVIOUS
    <3>2. QED
          BY <2>1, <3>1 DEF Interact, TypeOK
  <2>2. QED
        BY <2>1 DEF TypeOK, RequestNetworkSettings, Login, ResourcePackClientResponse,
           MovePlayer, RequestChunkRadius, Respawn, Ignored, session
<1>5. TypeOK' /\ ToldByState'
      BY <1>2, <1>3, <1>4, ToldStep DEF TypeOK
<1>6. TakenUp'
      BY <1>1, <1>2 DEF TakenUp
<1>7. QED
      BY <1>2, <1>5, <1>6

LEMMA ReceiveStep ==
  ASSUME IInv, NEW n \in 1..MaxBurst, Receive(n)
  PROVE  IInv'
<1>1. n \in Int /\ MaxPackets \in Nat /\ MaxBurst \in Nat
      BY BoundAssumption
<1>2. QED
      BY <1>1 DEF Receive, session, IInv, TypeOK, BurstCounted, TakenUp,
         ToldByState, Told

LEMMA ApplyStep ==
  ASSUME IInv, Apply
  PROVE  IInv'
<1>1. TypeOK' /\ BurstCounted'
      BY DEF Apply, IInv, TypeOK, BurstCounted
<1>2. TakenUp' /\ ToldByState'
      BY DEF Apply, IInv, TakenUp, ToldByState, Told
<1>3. QED
      BY <1>1, <1>2 DEF IInv

\* The answers go out, and the columns after them.
LEMMA RespondStep ==
  ASSUME IInv, Respond
  PROVE  IInv'
<1> USE DEF IInv
<1>1. /\ Told \in Seq(Packet) /\ Chunks \in Seq(InWorld) /\ Chunks \in Seq(Packet)
      /\ sent' = Told \o Chunks /\ queue' = <<>>
  <2>1. Told \in Seq(Packet)
        BY ConcatProperties DEF TypeOK, Told
  <2>2. <<"chunks">> \in Seq(InWorld) /\ <<"chunks">> \in Seq(Packet)
        BY DEF InWorld, Packet
  <2>3. Chunks \in Seq(InWorld) /\ Chunks \in Seq(Packet)
        BY <2>2 DEF Chunks
  <2>4. sent' = Told \o Chunks /\ queue' = <<>>
        BY DEF Respond, Told
  <2>5. QED
        BY <2>1, <2>3, <2>4
<1>2. sent' \in Seq(Packet) /\ queue' \in Seq(Packet)
      BY <1>1, ConcatProperties
<1>3. Told' = Told \o Chunks
      BY <1>1, <1>2, ConcatEmptySeq DEF Told
<1>4. ToldByState'
  <2>1. UNCHANGED <<state, chunksDue>>
        BY DEF Respond
  <2>2. CASE state = "Spawned"
        BY <1>1, <1>3, <2>1, <2>2, WorldGoesOn DEF ToldByState
  <2>3. CASE state # "Spawned"
    <3>1. Chunks = <<>>
          BY <2>3 DEF ToldByState, Chunks
    <3>2. Told' = Told
          BY <1>1, <1>3, <3>1, ConcatEmptySeq
    <3>3. QED
          BY <2>1, <2>3, <3>2 DEF ToldByState
  <2>4. QED
        BY <2>2, <2>3
<1>5. TypeOK' /\ BurstCounted' /\ TakenUp'
      BY <1>2 DEF Respond, TypeOK, BurstCounted, TakenUp
<1>6. QED
      BY <1>4, <1>5

\* The invariant.
THEOREM Invariance == Spec => []IInv
<1>1. ASSUME IInv, [Next]_vars PROVE IInv'
  <2>1. CASE UNCHANGED vars
        BY <1>1, <2>1 DEF vars, session, IInv, TypeOK, BurstCounted, TakenUp,
           ToldByState, Told
  <2>2. QED
        BY <1>1, <2>1, PacketStep, ReceiveStep, ApplyStep, RespondStep DEF Next
<1>2. QED
      BY <1>1, InitIInv, PTL DEF Spec

\* The session and its handler stay in their types.
THEOREM TypeCorrect == Spec => []TypeOK
<1>1. IInv => TypeOK
      BY DEF IInv
<1>2. QED
      BY <1>1, Invariance, PTL

\* In whatever bursts they come, packets are answered by a login that is told once and
\* in order, or refused.
THEOREM LoginInOrder == Spec => []AnswersInOrder
<1>1. ASSUME IInv PROVE AnswersInOrder
  <2>1. Told \in Seq(Packet) /\ ToldByState
        BY <1>1, ConcatProperties DEF IInv, TypeOK, Told
  <2>2. CASE state = "Spawned"
    <3>1. /\ Len(Told) \in Nat /\ Len(Told) >= 9 /\ DOMAIN Told = 1..Len(Told)
          /\ \A i \in 10..Len(Told) : Told[i] \in InWorld
          /\ \A i \in 1..9 : Told[i] = Prologue[i]
          BY <2>1, <2>2 DEF ToldByState, WorldTold
    <3>2. /\ Told[1] = "networkSettings" /\ Told[2] = "loginSuccess" /\ Told[3] = "packsInfo"
          /\ Told[4] = "playStatusSpawn" /\ Told[5] = "packStack" /\ Told[6] = "startGame"
          /\ Told[7] = "time" /\ Told[8] = "radius" /\ Told[9] = "playerSpawn"
          BY <3>1, PrologueIs
    <3>3. \A i \in DOMAIN Told : i \in {1, 2, 3, 4, 5, 6, 7, 8, 9} \/ Told[i] \in InWorld
          BY <3>1
    <3>4. /\ PlacesOf("networkSettings") = {1} /\ PlacesOf("loginSuccess") = {2}
          /\ PlacesOf("playerSpawn") = {9} /\ PlacesOf("disconnect") = {}
          BY <3>1, <3>2, <3>3 DEF PlacesOf, InWorld
    <3>5. QED
          BY <3>4 DEF AnswersInOrder, Follows
  <2>3. CASE state # "Spawned"
    <3>1. \/ Told = <<>>
          \/ Told = <<"networkSettings">>
          \/ Told = <<"networkSettings", "disconnect">>
          \/ Told = <<"networkSettings", "loginSuccess", "packsInfo">>
          BY <1>1, <2>1, <2>3 DEF IInv, TypeOK, States, ToldByState, Welcome
    <3>2. /\ PlacesOf("networkSettings") \subseteq {1} /\ PlacesOf("loginSuccess") \subseteq {2}
          /\ PlacesOf("playerSpawn") = {} /\ PlacesOf("disconnect") \subseteq {2}
          BY <3>1 DEF PlacesOf
    <3>3. Told # <<>> => PlacesOf("networkSettings") = {1}
          BY <3>1 DEF PlacesOf
    <3>4. PlacesOf("disconnect") # {} => Len(Told) = 2 /\ PlacesOf("loginSuccess") = {}
          BY <3>1 DEF PlacesOf
    <3>5. Told = <<>> => PlacesOf("loginSuccess") = {} /\ PlacesOf("disconnect") = {}
          BY DEF PlacesOf
    <3>6. /\ Follows("loginSuccess", "networkSettings")
          /\ Follows("disconnect", "networkSettings") /\ Follows("playerSpawn", "loginSuccess")
          BY <3>2, <3>3, <3>5 DEF Follows
    <3>7. \A i \in PlacesOf("disconnect") : i = Len(Told) /\ PlacesOf("loginSuccess") = {}
          BY <3>2, <3>4
    <3>8. QED
          BY <3>2, <3>6, <3>7 DEF AnswersInOrder
  <2>4. QED
        BY <2>2, <2>3
<1>2. QED
      BY <1>1, Invariance, PTL

\* No column goes to a client that has no world yet.
THEOREM ColumnsAfterEntry == Spec => []ChunksAfterEntry
<1>1. ASSUME IInv PROVE ChunksAfterEntry
  <2>1. Told \in Seq(Packet) /\ ToldByState
        BY <1>1, ConcatProperties DEF IInv, TypeOK, Told
  <2>2. CASE state = "Spawned"
    <3>1. Told[6] = "startGame" /\ Len(Told) >= 9 /\ \A i \in 1..9 : Told[i] # "chunks"
          BY <2>1, <2>2, PrologueIs DEF ToldByState, WorldTold
    <3>2. QED
          BY <2>1, <3>1 DEF ChunksAfterEntry, Follows, PlacesOf
  <2>3. CASE state # "Spawned"
    <3>1. \/ Told = <<>>
          \/ Told = <<"networkSettings">>
          \/ Told = <<"networkSettings", "disconnect">>
          \/ Told = <<"networkSettings", "loginSuccess", "packsInfo">>
          BY <1>1, <2>1, <2>3 DEF IInv, TypeOK, States, ToldByState, Welcome
    <3>2. QED
          BY <3>1 DEF ChunksAfterEntry, Follows, PlacesOf
  <2>4. QED
        BY <2>2, <2>3
<1>2. QED
      BY <1>1, Invariance, PTL

\* Neither answers nor interactions of a burst wait for the next one.
THEOREM BurstsAreFinished == Spec => []NothingLeftOver
<1>1. IInv => NothingLeftOver
      BY DEF IInv, TakenUp, NothingLeftOver
<1>2. QED
      BY <1>1, Invariance, PTL
=============================================================================
