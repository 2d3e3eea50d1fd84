-------------------------------- MODULE Session --------------------------------
(***************************************************************************)
(* One client's session (crates/server/src/session.rs) under the packet    *)
(* handler of run_server (crates/server/src/main.rs): a batch is a burst   *)
(* of packets fed to on_packet one by one, then the interactions they left *)
(* are applied, the answers are sent as one batch, and chunks follow if    *)
(* the flag that on_packet returned says so.                               *)
(*                                                                         *)
(* Positions and columns are one-dimensional.  The other sessions and the  *)
(* locks are ServerTasks; the blocks are World.                            *)
(***************************************************************************)
EXTENDS Integers, Sequences

CONSTANTS
  Position,     \* x coordinates a MOVE_PLAYER may name
  Block,        \* x coordinates of the blocks interacted with
  Radius,       \* radii a REQUEST_CHUNK_RADIUS may ask for
  Reach,        \* how far a client may interact (5)
  MaxBurst,     \* bound: packets in a batch
  MaxPackets    \* bound: packets in all

ASSUME PositionAssumption == Position \subseteq Int /\ Block \subseteq Int
ASSUME RadiusAssumption == Radius \subseteq Int
ASSUME BoundAssumption == {Reach, MaxBurst, MaxPackets} \subseteq Nat

VARIABLES
  state,          \* Session.state
  position,       \* Session.position
  viewDistance,   \* Session.view_distance
  interactions,   \* Session.pending_interactions: Seq of [act, block]
  queue,          \* Session.tx: the answers not yet collected
  handler,        \* the packet handler: what it is at
  burst,          \* packets of the batch still to be fed
  chunksDue,      \* should_send_chunks
  sent,           \* history: the packets that went to the client's send queue
  fed             \* packets fed so far (bounded)

session == <<state, position, viewDistance, interactions, queue>>
vars == <<session, handler, burst, chunksDue, sent, fed>>

States == {"WaitSettings", "WaitLogin", "WaitResourcePacks", "Spawned", "Closed"}
Spawn == 0

\* Mutant: there is no upper limit.
ClampBelow(r) == IF r < 2 THEN 2 ELSE r

Clamp(r) == IF r < 2 THEN 2 ELSE IF r > 32 THEN 32 ELSE r

\* The packets a Login, and an in-world entry, are answered with; of the second
\* those that no property tells apart are left out.
Welcome == <<"loginSuccess", "packsInfo">>
Entry == <<"playStatusSpawn", "packStack", "startGame", "time", "radius", "playerSpawn">>

Init ==
  /\ state = "WaitSettings" /\ position = Spawn /\ viewDistance = 4
  /\ interactions = <<>> /\ queue = <<>>
  /\ handler = "recv" /\ burst = 0 /\ chunksDue = FALSE
  /\ sent = <<>> /\ fed = 0

(***************************************************************************)
(* on_packet: each of these feeds one packet of the burst.                 *)
(***************************************************************************)
\* The packet handler feeds the next packet; due is what on_packet returns.
Feed(due) ==
  /\ handler = "feed" /\ burst > 0
  /\ burst' = burst - 1
  /\ fed' = fed + 1
  /\ chunksDue' = due
  /\ UNCHANGED <<handler, sent>>

Answer(packets) == queue' = queue \o packets

\* Mutant: a packet of the login sequence does not advance the state.
RequestNetworkSettingsStays ==
  /\ state = "WaitSettings"
  /\ Feed(FALSE)
  /\ Answer(<<"networkSettings">>)
  /\ UNCHANGED <<state, position, viewDistance, interactions>>

RequestNetworkSettings ==
  /\ state = "WaitSettings"
  /\ Feed(FALSE)
  /\ Answer(<<"networkSettings">>)
  /\ state' = "WaitLogin"
  /\ UNCHANGED <<position, viewDistance, interactions>>

\* Login: one that names another protocol version is refused; a body too short
\* for a version is accepted.
Login(accepted) ==
  /\ state = "WaitLogin"
  /\ Feed(FALSE)
  /\ IF accepted
       THEN Answer(Welcome) /\ state' = "WaitResourcePacks"
       ELSE Answer(<<"disconnect">>) /\ state' = "Closed"
  /\ UNCHANGED <<position, viewDistance, interactions>>

ResourcePackClientResponse ==
  /\ state = "WaitResourcePacks"
  /\ Feed(TRUE)
  /\ Answer(Entry)
  /\ state' = "Spawned"
  /\ position' = Spawn
  /\ UNCHANGED <<viewDistance, interactions>>

MovePlayer(x) ==
  /\ state = "Spawned"
  /\ Feed(FALSE)
  /\ position' = x
  /\ UNCHANGED <<state, viewDistance, interactions, queue>>

\* A request that does not parse is answered all the same.
RequestChunkRadius(r) ==
  /\ state = "Spawned"
  /\ Feed(FALSE)
  /\ viewDistance' \in {Clamp(r), viewDistance}
  /\ Answer(<<"radius">>)
  /\ UNCHANGED <<state, position, interactions>>

\* BREAK_BLOCK and PLACE_BLOCK
Interact(act, b) ==
  /\ state = "Spawned"
  /\ Feed(FALSE)
  /\ interactions' = Append(interactions, [act |-> act, block |-> b])
  /\ UNCHANGED <<state, position, viewDistance, queue>>

Respawn ==
  /\ state = "Spawned"
  /\ Feed(TRUE)
  /\ Answer(<<"startGame", "time">>)
  /\ position' = Spawn
  /\ UNCHANGED <<state, viewDistance, interactions>>

\* A packet that the state does not expect, that does not parse, or that is only
\* logged (input, chat, interact, use item, command, initialized).
Ignored ==
  /\ Feed(FALSE)
  /\ UNCHANGED session

(***************************************************************************)
(* The packet handler                                                      *)
(***************************************************************************)
\* A batch of n packets arrives.
Receive(n) ==
  /\ handler = "recv" /\ fed + n <= MaxPackets
  /\ handler' = "feed" /\ burst' = n
  /\ UNCHANGED <<session, chunksDue, sent, fed>>

WithinReach(b) == position - b <= Reach /\ b - position <= Reach

\* Mutant: the interactions are read and not taken.
ApplyKeeping ==
  /\ handler = "feed" /\ burst = 0
  /\ handler' = "respond"
  /\ UNCHANGED <<session, burst, chunksDue, sent, fed>>

\* The burst is fed: take_interactions, and each is applied, at the position the
\* burst left.  One that is in reach and has a block to change is broadcast,
\* which never returns (ServerTasks); the others pass: a break of air, a place
\* without a runtime id.
Apply ==
  /\ handler = "feed" /\ burst = 0
  /\ interactions' = <<>>
  /\ \/ handler' = "respond"
     \/ /\ \E i \in DOMAIN interactions : WithinReach(interactions[i].block)
        /\ handler' = "stuck"
  /\ UNCHANGED <<state, position, viewDistance, queue, burst, chunksDue, sent, fed>>

\* The columns go to the client as packets of their own: those around the place of
\* the player, within two of its column whatever its view distance.
Chunks == IF chunksDue THEN <<"chunks">> ELSE <<>>

\* Mutant: the chunks go first.
RespondAfterChunks ==
  /\ handler = "respond"
  /\ queue' = <<>>
  /\ sent' = sent \o Chunks \o queue
  /\ handler' = "recv"
  /\ UNCHANGED <<state, position, viewDistance, interactions, burst, chunksDue, fed>>

\* The answers go out in one batch, then the columns around the player.  (The code
\* collects the answers before it applies the interactions; nothing adds to them
\* between.)
Respond ==
  /\ handler = "respond"
  /\ queue' = <<>>
  /\ sent' = sent \o queue \o Chunks
  /\ handler' = "recv"
  /\ UNCHANGED <<state, position, viewDistance, interactions, burst, chunksDue, fed>>

Next ==
  \/ \E n \in 1..MaxBurst : Receive(n)
  \/ RequestNetworkSettings
  \/ \E accepted \in BOOLEAN : Login(accepted)
  \/ ResourcePackClientResponse
  \/ \E x \in Position : MovePlayer(x)
  \/ \E r \in Radius : RequestChunkRadius(r)
  \/ \E act \in {"break", "place"}, b \in Block : Interact(act, b)
  \/ Respawn
  \/ Ignored
  \/ Apply
  \/ Respond

Spec == Init /\ [][Next]_vars

(***************************************************************************)
(* Properties                                                              *)
(***************************************************************************)
\* The packets the client is told, and those that wait to be sent.
Told == sent \o queue

Packet == {"networkSettings", "loginSuccess", "packsInfo", "disconnect", "chunks",
           "playStatusSpawn", "packStack", "startGame", "time", "radius", "playerSpawn"}

\* Types.
TypeOK ==
  /\ state \in States
  /\ position \in Position \cup {Spawn}
  /\ viewDistance \in 2..32
  /\ interactions \in Seq([act : {"break", "place"}, block : Block])
  /\ queue \in Seq(Packet) /\ sent \in Seq(Packet)
  /\ handler \in {"recv", "feed", "respond", "stuck"}
  /\ burst \in 0..MaxBurst /\ fed \in 0..MaxPackets
  /\ chunksDue \in BOOLEAN

\* The places of a packet among those told.
PlacesOf(p) == {i \in DOMAIN Told : Told[i] = p}
Follows(q, p) == \A j \in PlacesOf(q) : \E i \in PlacesOf(p) : i < j

\* Whatever packets come, in whatever bursts, the client is told of each step of
\* its login once and in order: the settings, the login, the world; or that it is
\* refused, of no login, and nothing more.
AnswersInOrder ==
  /\ \A p \in {"networkSettings", "loginSuccess", "disconnect", "playerSpawn"} :
       \A i, j \in PlacesOf(p) : i = j
  /\ Follows("loginSuccess", "networkSettings")
  /\ Follows("playerSpawn", "loginSuccess")
  /\ Follows("disconnect", "networkSettings")
  /\ \A i \in PlacesOf("disconnect") : i = Len(Told) /\ PlacesOf("loginSuccess") = {}

\* No column reaches a client before the StartGame that makes its world.
ChunksAfterEntry == Follows("chunks", "startGame")

\* What a burst leaves, answers and interactions, is dealt with before the next
\* burst is read: nothing is applied at a position of a later burst.
NothingLeftOver ==
  handler = "recv" => queue = <<>> /\ interactions = <<>>
=============================================================================
