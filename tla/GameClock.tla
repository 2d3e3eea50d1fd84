------------------------------- MODULE GameClock -------------------------------
(***************************************************************************)
(* The clock of the game: GameState::tick of crates/game/src/lib.rs, whom  *)
(* run_server calls it for (crates/server/src/main.rs), and the time of    *)
(* day that a client is shown.                                             *)
(*                                                                         *)
(* tick is called by the game loop, which sends the outputs to the         *)
(* clients, and once for each event by the connection and the packet       *)
(* handler, which drop them.  Every call is made with the game locked.     *)
(* The players of the game are in ServerTasks.                             *)
(***************************************************************************)
EXTENDS Integers

CONSTANTS
  TicksPerUpdate,   \* ticks between two time updates (20)
  DayLength,        \* the length of a day (24000)
  Noon,             \* the time a game begins with, and a client is told first (6000)
  MaxTicks          \* bound: ticks in all

ASSUME LengthAssumption == TicksPerUpdate \in Nat \ {0} /\ DayLength \in Nat \ {0}
ASSUME NoonAssumption == Noon \in 0..(DayLength - 1)
ASSUME BoundAssumption == MaxTicks \in Nat

VARIABLES
  tick,      \* GameState.tick
  time,      \* GameState.world_state.time
  shown,     \* the time a client was told last, -1 before it is in the world
  quiet      \* history: loop ticks since the last tick of an event, or entry

vars == <<tick, time, shown, quiet>>

Nothing == -1

Init ==
  /\ tick = 0 /\ time = Noon
  /\ shown = Nothing
  /\ quiet = 0

\* tick: the time advances on every so many calls.
UpdateDue == (tick + 1) % TicksPerUpdate = 0

\* Mutant: the day has no end.
AdvanceUnwrapped ==
  /\ tick < MaxTicks
  /\ tick' = tick + 1
  /\ time' = IF UpdateDue THEN time + 1 ELSE time

Advance ==
  /\ tick < MaxTicks
  /\ tick' = tick + 1
  /\ time' = IF UpdateDue THEN (time + 1) % DayLength ELSE time

\* Mutant: the update carries the time before it.
LoopTickBehind ==
  /\ Advance
  /\ shown' = IF UpdateDue /\ shown # Nothing THEN time ELSE shown
  /\ quiet' = quiet + 1

\* The game loop: a TimeUpdate goes to the clients that are in the world.
LoopTick ==
  /\ Advance
  /\ shown' = IF UpdateDue /\ shown # Nothing THEN time' ELSE shown
  /\ quiet' = quiet + 1

\* A player joins, or a block is broken or placed: the outputs of the call are
\* dropped.
EventTick ==
  /\ Advance
  /\ quiet' = 0
  /\ UNCHANGED shown

\* The session tells the client noon, when it enters the world and when it
\* respawns, whatever the time is.
Enter ==
  /\ shown' = Noon
  /\ quiet' = 0
  /\ UNCHANGED <<tick, time>>

Next == LoopTick \/ EventTick \/ Enter

Spec == Init /\ [][Next]_vars

(***************************************************************************)
(* Properties                                                              *)
(***************************************************************************)
\* Types.
TypeOK ==
  /\ tick \in 0..MaxTicks
  /\ time \in 0..(DayLength - 1)
  /\ shown \in 0..(DayLength - 1) \cup {Nothing}
  /\ quiet \in Nat

\* An update that was lost with an event's outputs, and the noon of a late entry,
\* are made up for: after one period of loop ticks without an event or an entry a
\* client is shown the time.
QuietShowsTime == shown # Nothing /\ quiet >= TicksPerUpdate => shown = time
=============================================================================
