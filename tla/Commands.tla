------------------------------- MODULE Commands -------------------------------
(***************************************************************************)
(* crates/commands/src/lib.rs: how a line becomes a label and arguments    *)
(* (CommandParser::parse), which command a label names (CommandRegistry),  *)
(* and what the built-in commands say.  They only say: no command changes  *)
(* anything but its message.                                               *)
(*                                                                         *)
(* A line is a sequence of characters, and a word one of what separates    *)
(* and quotes nothing; a run of ordinary characters is one.                *)
(***************************************************************************)
EXTENDS Naturals, SequencesExt

CONSTANTS
  Ordinary,    \* runs of characters that mean nothing to the parser
  LowerCase    \* those with capitals -> what to_lowercase makes of them

ASSUME CaseAssumption == LowerCase \in [DOMAIN LowerCase -> Ordinary]
                      /\ DOMAIN LowerCase \subseteq Ordinary

Blank == {"space", "tab"}
Quotation == {"dquote", "squote"}
Slash == "slash"

ASSUME OrdinaryAssumption == Ordinary \cap (Blank \cup Quotation \cup {Slash, "none"}) = {}

Char == Ordinary \cup Blank \cup Quotation \cup {Slash}

(***************************************************************************)
(* CommandParser                                                           *)
(***************************************************************************)
\* str::trim
Trim(line) ==
  LET ink == {i \in DOMAIN line : line[i] \notin Blank}
  IN  IF ink = {} THEN <<>> ELSE SubSeq(line, Min(ink), Max(ink))

StripSlash(line) == IF line # <<>> /\ Head(line) = Slash THEN Tail(line) ELSE line

\* The word read so far is complete; one of no characters is no word.
Complete(st) == IF st.current = <<>> THEN st.parts ELSE Append(st.parts, st.current)

\* Mutant: either quotation mark ends what the other began.
ReadAnyQuote(st, ch) ==
  IF ch \in Quotation
    THEN [st EXCEPT !.quote = IF @ = "none" THEN ch ELSE "none"]
  ELSE IF ch \in Blank /\ st.quote = "none"
    THEN [st EXCEPT !.parts = Complete(st), !.current = <<>>]
  ELSE [st EXCEPT !.current = Append(@, ch)]

\* One character of the loop; quote is the mark that is open, if in_quotes.
Read(st, ch) ==
  IF ch \in Quotation /\ st.quote = "none" THEN [st EXCEPT !.quote = ch]
  ELSE IF ch = st.quote THEN [st EXCEPT !.quote = "none"]
  ELSE IF ch \in Blank /\ st.quote = "none"
    THEN [st EXCEPT !.parts = Complete(st), !.current = <<>>]
  ELSE [st EXCEPT !.current = Append(@, ch)]

Start == [parts |-> <<>>, current |-> <<>>, quote |-> "none"]

\* The loop over the characters of a text, begun in state st.
ReadAll(st, text) ==
  LET after[i \in 0..Len(text)] == IF i = 0 THEN st ELSE Read(after[i - 1], text[i])
  IN  after[Len(text)]

\* parse: the label and the arguments, as one sequence; <<>> if there is no label.
Parse(line) == Complete(ReadAll(Start, StripSlash(Trim(line))))

(***************************************************************************)
(* CommandRegistry                                                         *)
(***************************************************************************)
\* str::to_lowercase
Lower(word) ==
  [i \in DOMAIN word |-> IF word[i] \in DOMAIN LowerCase THEN LowerCase[word[i]] ELSE word[i]]

\* The commands of which an alias is the label.
HaveAlias(registry, label) ==
  {n \in DOMAIN registry : \E a \in registry[n].aliases : Lower(a) = Lower(label)}

\* Mutant: an alias goes before a name.
ResolveAliasFirst(registry, label) ==
  IF HaveAlias(registry, label) # {} THEN HaveAlias(registry, label)
  ELSE {Lower(label)} \cap DOMAIN registry

\* execute: the command a label names, if any: the one of that name, or else one
\* with that alias.  The map is searched in no order, so it may be any of them.
Resolve(registry, label) ==
  IF Lower(label) \in DOMAIN registry THEN {Lower(label)} ELSE HaveAlias(registry, label)

\* register: a new command, or one that replaces that of its name, aliases and all.
Registered(registry, name, info) ==
  [n \in DOMAIN registry \cup {name} |-> IF n = name THEN info ELSE registry[n]]

(***************************************************************************)
(* The built-in commands                                                   *)
(***************************************************************************)
\* What is said of a command: its aliases, which arguments its message repeats
\* (of those that are there), and whether the message contains "Stopping" itself.
Info(aliases, repeats) ==
  [aliases |-> aliases, repeats |-> repeats, modes |-> {}, stopping |-> FALSE]

\* Bound: a line has at most as many arguments.
MaxArguments == 9

Builtin ==
  <<"stop">>          :> [Info({}, {}) EXCEPT !.stopping = TRUE] @@
  <<"list">>          :> Info({}, {}) @@
  <<"say">>           :> Info({}, {}) @@
  <<"kick">>          :> Info({}, 1..MaxArguments) @@
  <<"gamemode">>      :> [Info({<<"gm">>}, {1}) EXCEPT !.modes =
                            {<<"survival">>, <<"creative">>, <<"adventure">>, <<"spectator">>}] @@
  <<"give">>          :> Info({}, {1, 2}) @@
  <<"time">>          :> Info({}, {}) @@
  <<"difficulty">>    :> Info({<<"difficulty">>}, {1}) @@
  <<"weather">>       :> Info({}, {1}) @@
  <<"kill">>          :> Info({}, {1}) @@
  <<"heal">>          :> Info({}, {1}) @@
  <<"feed">>          :> Info({}, {1}) @@
  <<"setworldspawn">> :> Info({}, {}) @@
  <<"clear">>         :> Info({}, {1}) @@
  <<"effect">>        :> Info({}, {1, 2}) @@
  <<"tp">>            :> Info({<<"teleport">>}, {1}) @@
  <<"summon">>        :> Info({}, {1})

\* The arguments a message repeats.  gamemode repeats its player after a mode that
\* is one, and otherwise only what is none.
Repeated(info, args) ==
  {i \in DOMAIN args : \/ i \in info.repeats
                       \/ i = 2 /\ Lower(args[1]) \in info.modes}

\* output.message.contains("Stopping"), of a command with arguments args.
SaysStopping(info, args) ==
  info.stopping \/ \E i \in Repeated(info, args) : "Stopping" \in ToSet(args[i])
=============================================================================
