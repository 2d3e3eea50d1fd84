------------------------------ MODULE MCConsole ------------------------------
(***************************************************************************)
(* Console for TLC.                                                        *)
(***************************************************************************)
EXTENDS Console

SomeOrdinary == {"say", "SAY", "gm", "tp", "warp", "kick", "Bob", "Stopping", "stopping",
                 "bob", "stop", "list"}
SomeLowerCase == ("SAY" :> "say") @@ ("Bob" :> "bob") @@ ("Stopping" :> "stopping")

SomeLabels == {<<"SAY">>, <<"gm">>, <<"tp">>, <<"warp">>, <<"kick">>}

\* A word that can be bare, and words with a blank, a slash or either mark.
SomeArguments == {<<"Stopping">>, <<Slash, "Bob", "squote">>, <<"dquote", "tab", "Bob">>}

TypingsOf(words, slash) ==
  {[words |-> words, marks |-> marks, slash |-> slash] :
     marks \in {m \in [DOMAIN words -> Quotation \cup {"bare"}] :
                 \A i \in DOMAIN words : m[i] \in Marks(words[i])}}

\* Every label after a slash, and what the commands with one and two arguments in
\* their messages repeat.
SomeTypings ==
  {[words |-> <<label>>, marks |-> <<"bare">>, slash |-> TRUE] : label \in SomeLabels} \cup
  UNION {TypingsOf(<<<<"tp">>, a>>, FALSE) : a \in SomeArguments} \cup
  TypingsOf(<<<<"kick">>, <<"dquote", "tab", "Bob">>, <<Slash, "Bob", "squote">>>>, TRUE)

\* Blanks, nothing after the slash, an empty word, a mark left open, and the
\* lines the task takes itself.
SomeOthers ==
  {<<"space", "tab">>, <<Slash>>, <<Slash, "dquote", "dquote">>, <<"say", "space", "squote", "Bob">>,
   <<"stop">>, <<"list", "space">>, <<Slash, "stop">>, <<Slash, "list">>}

\* New commands, one in the place of a built-in one, and aliases that are a name
\* or another's alias.
SomeRegistrations ==
  [name : {<<"warp">>, <<"say">>}, info : {Info(a, {}) : a \in {{<<"gm">>}, {<<"tp">>, <<"warp">>}}}]
=============================================================================
