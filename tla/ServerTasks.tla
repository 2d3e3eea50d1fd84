------------------------------ MODULE ServerTasks ------------------------------
(***************************************************************************)
(* The tasks of the server binary (crates/server/src/main.rs, run_server)  *)
(* and the locks they share: the connection handler, the packet handler,   *)
(* the game loop and the console, over sessions (RwLock), world (Mutex)    *)
(* and game (Mutex).                                                       *)
(*                                                                         *)
(* A step is what a task does between two awaits.  A lock that is taken    *)
(* and released with no await on another lock in between is taken and      *)
(* released in one step; "held" records those that are kept over an await. *)
(* A read of sessions never outlives its step (no session's own lock is    *)
(* contended, since the packet handler has sessions for writing while it   *)
(* has a session), so held says only who has sessions for writing.         *)
(* RakNet is external: what it announces, and in which order, is           *)
(* ConnectionTable.                                                        *)
(***************************************************************************)
EXTENDS Naturals, Sequences, FiniteSets

CONSTANTS
  Addr,          \* client addresses
  Interactions,  \* the block interaction lists a batch may carry (see Event)
  MaxConnects,   \* bound: Connected announcements
  MaxBatches     \* bound: GamePacket announcements

\* What the session makes of a batch, as far as the tasks go: block
\* interactions within reach (break, place) and what is skipped at once (skip:
\* out of reach, or a place without a runtime id).
Event == {"break", "place", "skip"}

\* What is announced on in_tx: whom a batch is of; the interactions its packets ask
\* for; whether they ask for chunks; and whether decode_batch takes it for a batch.
Batch == [src : Addr, events : Interactions \cup {<<>>}, chunks : BOOLEAN, decodes : BOOLEAN]

ASSUME AddrAssumption == IsFiniteSet(Addr)
ASSUME InteractionsAssumption == Interactions \subseteq Seq(Event)
ASSUME TaskBounds == MaxConnects \in Nat /\ MaxBatches \in Nat

VARIABLES
  conn_rx,     \* addresses announced Connected, not yet handled
  in_rx,       \* batches announced, not yet handled
  connects,    \* Connected announcements so far (MaxConnects)
  batches,     \* GamePacket announcements so far (MaxBatches)
  sessions,    \* address -> entity id of its session, 0 for none
  players,     \* entity ids in GameState.players
  solid,       \* is the block the interactions are about not air?
  conn,        \* the connection handler: where it is
  entity_id,   \* ... and the id it gives
  packet,      \* the packet handler: where it is
  job,         \* ... the interactions it has yet to apply, and what follows
  game_loop,   \* the game loop: where it is
  console,     \* the console task: where it is
  held,        \* lock -> the task that holds it over an await
  running      \* tokio::select! has not returned

channels == <<conn_rx, in_rx, connects, batches>>
store    == <<sessions, players, solid>>
tasks    == <<conn, entity_id, packet, job, game_loop, console>>
vars == <<channels, store, tasks, held, running>>

Lock == {"sessions", "world", "game"}
Free == "free"
IsFree(lock) == held[lock] = Free

Init ==
  /\ conn_rx = <<>> /\ in_rx = <<>> /\ connects = 0 /\ batches = 0
  /\ sessions = [a \in Addr |-> 0] /\ players = {} /\ solid \in BOOLEAN
  /\ conn = "recv" /\ entity_id = 0
  /\ packet = "recv" /\ job = [events |-> <<>>, chunks |-> FALSE]
  /\ game_loop = "tick" /\ console = "ready"
  /\ held = [lock \in Lock |-> Free]
  /\ running = TRUE

(***************************************************************************)
(* RakNet: what it sends on the two channels                               *)
(***************************************************************************)
Connected(a) ==
  /\ running /\ connects < MaxConnects
  /\ connects' = connects + 1
  /\ conn_rx' = Append(conn_rx, a)
  /\ UNCHANGED <<in_rx, batches, store, tasks, held, running>>

\* A batch of an address announced Connected before.
GamePacket(a, events, chunks, decodes) ==
  /\ running /\ batches < MaxBatches
  /\ sessions[a] # 0 \/ a \in {conn_rx[i] : i \in DOMAIN conn_rx}
  /\ batches' = batches + 1
  /\ in_rx' = Append(in_rx, [src |-> a, events |-> events, chunks |-> chunks,
                             decodes |-> decodes])
  /\ UNCHANGED <<conn_rx, connects, store, tasks, held, running>>

(***************************************************************************)
(* The connection handler                                                  *)
(***************************************************************************)
HaveSession == {a \in Addr : sessions[a] # 0}

\* Mutant: sessions stays locked until the player is in the game.
InsertSessionHolding ==
  /\ running /\ conn = "recv" /\ conn_rx # <<>> /\ IsFree("sessions")
  /\ conn' = "join"
  /\ conn_rx' = Tail(conn_rx)
  /\ entity_id' = Cardinality(HaveSession) + 1
  /\ sessions' = [sessions EXCEPT ![Head(conn_rx)] =
                    IF @ = 0 THEN Cardinality(HaveSession) + 1 ELSE @]
  /\ held' = [held EXCEPT !["sessions"] = "conn"]
  /\ UNCHANGED <<in_rx, connects, batches, players, solid, packet, job, game_loop,
                 console, running>>

\* Mutant: the id is the number of sessions, the +1 gone but for the first.
InsertSessionSameId ==
  /\ running /\ conn = "recv" /\ conn_rx # <<>> /\ IsFree("sessions")
  /\ conn' = "join"
  /\ conn_rx' = Tail(conn_rx)
  /\ entity_id' = IF HaveSession = {} THEN 1 ELSE Cardinality(HaveSession)
  /\ sessions' = [sessions EXCEPT ![Head(conn_rx)] = IF @ = 0 THEN entity_id' ELSE @]
  /\ UNCHANGED <<in_rx, connects, batches, players, solid, packet, job, game_loop,
                 console, held, running>>

\* Mutant: the id counts the Connected events, not the sessions.
InsertSessionCounting ==
  /\ running /\ conn = "recv" /\ conn_rx # <<>> /\ IsFree("sessions")
  /\ conn' = "join"
  /\ conn_rx' = Tail(conn_rx)
  /\ entity_id' = connects - Len(conn_rx) + 1
  /\ sessions' = [sessions EXCEPT ![Head(conn_rx)] = IF @ = 0 THEN entity_id' ELSE @]
  /\ UNCHANGED <<in_rx, connects, batches, players, solid, packet, job, game_loop,
                 console, held, running>>

\* Mutant: no session is made if a player has its id.
InsertSessionUnlessPlayer ==
  /\ running /\ conn = "recv" /\ conn_rx # <<>> /\ IsFree("sessions")
  /\ conn' = "join"
  /\ conn_rx' = Tail(conn_rx)
  /\ entity_id' = Cardinality(HaveSession) + 1
  /\ sessions' = [sessions EXCEPT ![Head(conn_rx)] =
                    IF @ = 0 /\ entity_id' \notin players THEN entity_id' ELSE @]
  /\ UNCHANGED <<in_rx, connects, batches, players, solid, packet, job, game_loop,
                 console, held, running>>

\* Under the write lock: an id, and a session if the address has none.
InsertSession ==
  /\ running /\ conn = "recv" /\ conn_rx # <<>> /\ IsFree("sessions")
  /\ conn' = "join"
  /\ conn_rx' = Tail(conn_rx)
  /\ entity_id' = Cardinality(HaveSession) + 1
  /\ sessions' = [sessions EXCEPT ![Head(conn_rx)] =
                    IF @ = 0 THEN Cardinality(HaveSession) + 1 ELSE @]
  /\ UNCHANGED <<in_rx, connects, batches, players, solid, packet, job, game_loop,
                 console, held, running>>

\* Mutant: the id is worked out anew under the game lock.
AddPlayerNext ==
  /\ running /\ conn = "join" /\ IsFree("game")
  /\ conn' = "recv"
  /\ players' = players \cup {Cardinality(HaveSession) + 1}
  /\ held' = [lock \in Lock |-> IF held[lock] = "conn" THEN Free ELSE held[lock]]
  /\ UNCHANGED <<channels, sessions, solid, entity_id, packet, job, game_loop,
                 console, running>>

\* Under the game lock: the player, and a tick for PlayerJoin.
AddPlayer ==
  /\ running /\ conn = "join" /\ IsFree("game")
  /\ conn' = "recv"
  /\ players' = players \cup {entity_id}
  /\ held' = [lock \in Lock |-> IF held[lock] = "conn" THEN Free ELSE held[lock]]
  /\ UNCHANGED <<channels, sessions, solid, entity_id, packet, job, game_loop,
                 console, running>>

(***************************************************************************)
(* The packet handler                                                      *)
(***************************************************************************)
\* decode_batch fails: the next batch is dropped, before sessions is asked for.
RejectBatch ==
  /\ running /\ packet = "recv" /\ in_rx # <<>> /\ ~Head(in_rx).decodes
  /\ in_rx' = Tail(in_rx)
  /\ UNCHANGED <<conn_rx, connects, batches, store, tasks, held, running>>

\* The next batch, with sessions locked for writing.  A batch of an address
\* without a session is dropped; otherwise the session handles its packets and
\* the lock is kept while the interactions are applied.
TakeBatch ==
  /\ running /\ packet = "recv" /\ in_rx # <<>> /\ Head(in_rx).decodes
  /\ IsFree("sessions")
  /\ in_rx' = Tail(in_rx)
  /\ LET batch == Head(in_rx) IN
       IF sessions[batch.src] = 0
         THEN UNCHANGED <<packet, job, held>>
         ELSE /\ packet' = "apply"
              /\ job' = [events |-> batch.events, chunks |-> batch.chunks]
              /\ held' = [held EXCEPT !["sessions"] = "packet"]
  /\ UNCHANGED <<conn_rx, connects, batches, store, conn, entity_id, game_loop,
                 console, running>>

Applying(event) ==
  /\ running /\ packet = "apply" /\ job.events # <<>> /\ Head(job.events) = event

SkipInteraction ==
  /\ Applying("skip")
  /\ job' = [job EXCEPT !.events = Tail(@)]
  /\ UNCHANGED <<channels, store, conn, entity_id, packet, game_loop, console,
                 held, running>>

\* Break: under the world lock the block becomes air, and the lock is kept for
\* the broadcast; a block that is air already goes straight to the game.
BreakBlock ==
  /\ Applying("break") /\ IsFree("world")
  /\ solid' = FALSE
  /\ packet' = IF solid THEN "broadcast" ELSE "game"
  /\ held' = IF solid THEN [held EXCEPT !["world"] = "packet"] ELSE held
  /\ UNCHANGED <<channels, sessions, players, conn, entity_id, job, game_loop,
                 console, running>>

\* Place: the block is set under the world lock, which is released.
PlaceBlock ==
  /\ Applying("place") /\ IsFree("world")
  /\ solid' = TRUE
  /\ packet' = "broadcast"
  /\ UNCHANGED <<channels, sessions, players, conn, entity_id, job, game_loop,
                 console, held, running>>

\* sessions is locked for reading: to broadcast the block update (and then the
\* world is released), or to find the position to send chunks for.
ReadSessions ==
  /\ running /\ packet \in {"broadcast", "position"} /\ IsFree("sessions")
  /\ packet' = IF packet = "broadcast" THEN "game" ELSE "chunks"
  /\ held' = [held EXCEPT !["world"] = Free]
  /\ UNCHANGED <<channels, store, conn, entity_id, job, game_loop, console,
                 running>>

\* Under the game lock: a tick for the interaction, its outputs discarded.
TickInteraction ==
  /\ running /\ packet = "game" /\ IsFree("game")
  /\ packet' = "apply"
  /\ job' = [job EXCEPT !.events = Tail(@)]
  /\ UNCHANGED <<channels, store, conn, entity_id, game_loop, console, held,
                 running>>

\* Mutant: sessions stays locked until the chunks are sent.
EndBatchHolding ==
  /\ running /\ packet = "apply" /\ job.events = <<>>
  /\ packet' = IF job.chunks THEN "position" ELSE "recv"
  /\ held' = IF job.chunks THEN held ELSE [held EXCEPT !["sessions"] = Free]
  /\ UNCHANGED <<channels, store, conn, entity_id, job, game_loop, console,
                 running>>

\* All interactions are applied: sessions is released, the responses are sent.
EndBatch ==
  /\ running /\ packet = "apply" /\ job.events = <<>>
  /\ packet' = IF job.chunks THEN "position" ELSE "recv"
  /\ held' = [held EXCEPT !["sessions"] = Free]
  /\ UNCHANGED <<channels, store, conn, entity_id, job, game_loop, console,
                 running>>

\* send_chunks_for_player, under the world lock.
SendChunks ==
  /\ running /\ packet = "chunks" /\ IsFree("world")
  /\ packet' = "recv"
  /\ UNCHANGED <<channels, store, conn, entity_id, job, game_loop, console, held,
                 running>>

(***************************************************************************)
(* The game loop and the console                                           *)
(***************************************************************************)
\* A tick under the game lock; with a TimeUpdate among its outputs the lock is
\* kept for the broadcast.
Tick(timeUpdate) ==
  /\ running /\ game_loop = "tick" /\ IsFree("game")
  /\ game_loop' = IF timeUpdate THEN "output" ELSE "report"
  /\ held' = IF timeUpdate THEN [held EXCEPT !["game"] = "loop"] ELSE held
  /\ UNCHANGED <<channels, store, conn, entity_id, packet, job, console, running>>

\* process_game_output: sessions is read for the broadcast, then game released.
ProcessOutput ==
  /\ running /\ game_loop = "output" /\ IsFree("sessions")
  /\ game_loop' = "report"
  /\ held' = [held EXCEPT !["game"] = Free]
  /\ UNCHANGED <<channels, store, conn, entity_id, packet, job, console, running>>

\* Every 100th tick counts the players under the game lock; then the loop sleeps.
Report(due) ==
  /\ running /\ game_loop = "report"
  /\ due => IsFree("game")
  /\ game_loop' = "tick"
  /\ UNCHANGED <<channels, store, conn, entity_id, packet, job, console, held,
                 running>>

\* A console line: list counts the players under the game lock, any other
\* command leaves this state alone, and stop (or exit) ends the console task.
ConsoleLine(line) ==
  /\ running /\ console = "ready"
  /\ console' = line
  /\ UNCHANGED <<channels, store, conn, entity_id, packet, job, game_loop, held,
                 running>>

ListPlayers ==
  /\ running /\ console = "list" /\ IsFree("game")
  /\ console' = "ready"
  /\ UNCHANGED <<channels, store, conn, entity_id, packet, job, game_loop, held,
                 running>>

\* The RakNet task returns, its socket broken: select! returns, the process ends.
RaknetExits ==
  /\ running /\ running' = FALSE
  /\ UNCHANGED <<channels, store, tasks, held>>

(***************************************************************************)
(* Specification                                                           *)
(***************************************************************************)
ConnTask == InsertSession \/ AddPlayer

PacketTask ==
  \/ RejectBatch \/ TakeBatch \/ SkipInteraction \/ BreakBlock \/ PlaceBlock
  \/ ReadSessions \/ TickInteraction \/ EndBatch \/ SendChunks

LoopTask ==
  \/ \E timeUpdate \in BOOLEAN : Tick(timeUpdate)
  \/ ProcessOutput
  \/ \E due \in BOOLEAN : Report(due)

Raknet ==
  \/ \E a \in Addr : Connected(a)
  \/ \E a \in Addr, events \in Interactions, chunks \in BOOLEAN :
        GamePacket(a, events, chunks, TRUE)
  \/ \E a \in Addr : GamePacket(a, <<>>, FALSE, FALSE)
  \/ RaknetExits

Next ==
  \/ Raknet \/ ConnTask \/ PacketTask \/ LoopTask
  \/ \E line \in {"list", "stopped"} : ConsoleLine(line)
  \/ ListPlayers

Spec == Init /\ [][Next]_vars

\* The runtime polls every task that can go on, and tokio's locks are granted in
\* the order they are asked for, so a task whose lock is free again and again
\* gets it.  Clients, RakNet and whoever types at the console owe nothing.
Fairness ==
  /\ SF_vars(ConnTask) /\ SF_vars(PacketTask) /\ SF_vars(LoopTask)
  /\ SF_vars(ListPlayers)

FairSpec == Spec /\ Fairness

(***************************************************************************)
(* Properties                                                              *)
(***************************************************************************)
\* Types.
TypeOK ==
  /\ conn_rx \in Seq(Addr)
  /\ in_rx \in Seq(Batch)
  /\ connects \in 0..MaxConnects /\ batches \in 0..MaxBatches
  /\ sessions \in [Addr -> 0..Cardinality(Addr)]
  /\ players \subseteq 1..(Cardinality(Addr) + 1)
  /\ solid \in BOOLEAN /\ running \in BOOLEAN
  /\ conn \in {"recv", "join"} /\ entity_id \in 0..(Cardinality(Addr) + 1)
  /\ packet \in {"recv", "apply", "broadcast", "game", "position", "chunks"}
  /\ job \in [events : Seq(Event), chunks : BOOLEAN]
  /\ game_loop \in {"tick", "output", "report"}
  /\ console \in {"ready", "list", "stopped"}
  /\ held \in [Lock -> {Free, "conn", "packet", "loop"}]

\* len() + 1 names an entity once: no two sessions share an entity id, since ids
\* are given under the write lock and no session is ever removed.
EntityIdsDistinct ==
  \A a, b \in HaveSession : sessions[a] = sessions[b] => a = b

\* main.rs:260 "Add player to game state": between two connections the entity of
\* every session is a player, under whatever order of events, and no player has an
\* id beyond the next one to be given.  (A second Connected event of an address
\* adds a player under that id, whom the next session finds there.)
SessionsArePlayers ==
  conn = "recv" =>
    /\ \A a \in HaveSession : sessions[a] \in players
    /\ players \subseteq 1..(Cardinality(HaveSession) + 1)

\* A batch that can be decoded, taken off its channel with nothing done about it.
Drops == /\ packet = "recv" /\ in_rx # <<>> /\ Head(in_rx).decodes
         /\ in_rx' = Tail(in_rx) /\ packet' = "recv"

\* Connected events and batches reach two tasks on two channels, and a batch of an
\* address without a session is dropped (main.rs:414): only while the Connected
\* event of its address still waits, never once that was handled, unless it is one
\* that decode_batch refuses (main.rs:287).
DropsOnlyBeforeConnect ==
  [][Drops => \E i \in DOMAIN conn_rx : conn_rx[i] = Head(in_rx).src]_vars

\* What the two liveness properties except: a block in reach is broken or placed.
\* The packet handler then asks for sessions, which it holds, to broadcast it; or,
\* if there was no block, for the game, which the loop may hold while it asks for
\* sessions.
Interacting == packet \in {"broadcast", "game"}

\* main.rs:444 "20 TPS Game loop": until a client touches a block the loop never
\* stops ticking while the server runs.
TicksUntilInteraction ==
  <>~running \/ <>Interacting \/ []<><<\E u \in BOOLEAN : Tick(u)>>_vars

AllHandled ==
  []<>(packet = "recv" /\ in_rx = <<>>) /\ []<>(conn = "recv" /\ conn_rx = <<>>)

\* Until a client touches a block, every batch the packet handler takes up is
\* finished, and every batch and every connection announced is taken up, while the
\* server runs.
HandledUntilInteraction == <>~running \/ <>Interacting \/ AllHandled

\* What a comment says and the code does not do.

\* main.rs:444 "20 TPS Game loop": the loop ticks for ever, whatever batches hold.
TicksForEver == <>~running \/ []<><<\E u \in BOOLEAN : Tick(u)>>_vars
=============================================================================
