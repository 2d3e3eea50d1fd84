------------------------------- MODULE Console -------------------------------
(***************************************************************************)
(* The console task of the server (crates/server/src/main.rs), with the    *)
(* CommandManager it gives its lines to and the game clock beside it.  The *)
(* registry is shared: whoever holds the manager may register commands.    *)
(***************************************************************************)
EXTENDS GameClock, Commands

CONSTANTS
  Typings,         \* what is typed: [words, marks, slash] (see Line)
  Others,          \* lines that are not a list of words
  Labels,          \* what may be typed as a command's label
  Registrations,   \* what is registered: [name, info]
  MaxRegistered    \* bound: commands registered after the built-in ones

ASSUME RegisteredAssumption == MaxRegistered \in Nat

VARIABLES
  registry,     \* CommandRegistry.info: name -> Info
  console,      \* the console task reads lines, or has ended
  registered,   \* registrations so far (MaxRegistered)
  heard         \* history: what the last command was typed as, and parsed to

consoleVars == <<registry, console, registered, heard>>
allVars == <<vars, consoleVars>>

Unheard == [typed |-> <<>>, parts |-> <<>>]

ConsoleInit ==
  /\ Init
  /\ registry = Builtin
  /\ console = "reading"
  /\ registered = 0
  /\ heard = Unheard

(***************************************************************************)
(* The person at the console                                               *)
(***************************************************************************)
\* The marks a word can be typed with: bare, if it has neither blank nor mark, or
\* a mark that it does not have.
Marks(word) ==
  {m \in Quotation : m \notin ToSet(word)}
    \cup IF ToSet(word) \cap (Blank \cup Quotation) = {} THEN {"bare"} ELSE {}

\* A word as it is typed: bare, or in quotation marks.
Marked(word, mark) == IF mark = "bare" THEN word ELSE <<mark>> \o word \o <<mark>>

\* Some words, none of them empty, typed with marks that they can have; a bare
\* first word that begins with a slash needs another before it.
IsTyping(typing) ==
  /\ typing.words \in Seq(Seq(Char) \ {<<>>}) \ {<<>>}
  /\ \A i \in DOMAIN typing.words : typing.marks[i] \in Marks(typing.words[i])
  /\ \/ typing.slash
     \/ Marked(typing.words[1], typing.marks[1])[1] # Slash

ASSUME TypingsAssumption == \A typing \in Typings : IsTyping(typing)

\* Words with a blank between them, after a slash or not.
Line(typing) ==
  LET rest == FlattenSeq([i \in DOMAIN typing.words |->
                            <<"space">> \o Marked(typing.words[i], typing.marks[i])])
  IN  <<"space">> \o (IF typing.slash THEN <<Slash>> ELSE <<>>) \o Tail(rest)

(***************************************************************************)
(* The console task                                                        *)
(***************************************************************************)
\* What the task makes of a line itself, whatever its case.
Stops == {<<"stop">>, <<"exit">>}
Answers == {<<"list">>, <<"players">>, <<"tps">>}

Reads(line) == console = "reading" /\ Trim(line) # <<>>

\* stop or exit: the task ends, and nothing else does.
Stop(line) ==
  /\ Reads(line) /\ Lower(Trim(line)) \in Stops
  /\ console' = "ended"
  /\ heard' = Unheard
  /\ UNCHANGED <<vars, registry, registered>>

\* list, players or tps: the players or the ticks are told, and nothing changes.
Answer(line) ==
  /\ Reads(line) /\ Lower(Trim(line)) \in Answers
  /\ heard' = Unheard
  /\ UNCHANGED <<vars, registry, registered, console>>

\* Any other line is a command.  One without a label, or whose label names none,
\* is an error; a command may be any that the label names.  No command changes
\* the game, and one that says "Stopping" ends the task.
RunCommand(line, words) ==
  /\ Reads(line) /\ Lower(Trim(line)) \notin Stops \cup Answers
  /\ LET parts == Parse(Trim(line))
         named == IF parts = <<>> THEN {} ELSE Resolve(registry, Head(parts))
     IN  /\ heard' = [typed |-> words, parts |-> parts]
         /\ \/ named = {} /\ UNCHANGED console
            \/ \E n \in named :
                 console' = IF SaysStopping(registry[n], Tail(parts))
                              THEN "ended" ELSE console
  /\ UNCHANGED <<vars, registry, registered>>

Hear(line, words) == Stop(line) \/ Answer(line) \/ RunCommand(line, words)

\* CommandManager::register, under the write lock of the registry.
Register(name, info) ==
  /\ registered < MaxRegistered
  /\ registered' = registered + 1
  /\ registry' = Registered(registry, name, info)
  /\ UNCHANGED <<vars, console, heard>>

ConsoleNext ==
  \/ Next /\ UNCHANGED consoleVars
  \/ \E typing \in Typings : Hear(Line(typing), typing.words)
  \/ \E line \in Others : Hear(line, <<>>)
  \/ \E r \in Registrations : Register(r.name, r.info)

ConsoleSpec == ConsoleInit /\ [][ConsoleNext]_allVars

(***************************************************************************)
(* Properties                                                              *)
(***************************************************************************)
\* lib.rs:354 "Split by whitespace, preserving quoted strings": a command line is
\* parsed to the words that were typed, whichever of them were put in quotation
\* marks, with a slash before the first or without.
RunsWhatWasTyped == heard.typed # <<>> => heard.parts = heard.typed

\* Types, the clock's included.
ConsoleTypeOK ==
  /\ TypeOK
  /\ DOMAIN Builtin \subseteq DOMAIN registry
  /\ console \in {"reading", "ended"}
  /\ registered \in 0..MaxRegistered

\* The commands that a step registers, or registers anew.
New == {n \in DOMAIN registry' : n \notin DOMAIN registry \/ registry'[n] # registry[n]}

\* Registering a command leaves every label naming what it named, the same command
\* or the same choice of commands, but for the name it has, and the aliases that it
\* has or that the command it replaces had.  Of these it takes none that is the
\* name of a command: an alias never comes before a name (lib.rs:673-683).
RegisterKeepsLabels ==
  [][registry' # registry => \A label \in Labels :
       \/ Resolve(registry', label) = Resolve(registry, label)
       \/ /\ Lower(label) \notin DOMAIN registry
          /\ New \cap ({Lower(label)} \cup HaveAlias(registry, label)
                       \cup HaveAlias(registry', label)) # {}]_allVars
=============================================================================
