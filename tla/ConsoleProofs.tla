----------------------------- MODULE ConsoleProofs -----------------------------
(***************************************************************************)
(* GameClock and Console.  The clock, for every period, length of day and  *)
(* number of ticks; the console, for all lines, labels and registrations:  *)
(* its types, which labels a registration may take, and that a command     *)
(* line is parsed to the words that were typed.                            *)
(*                                                                         *)
(* The last is proved by induction on the characters of a text and on the  *)
(* words of a line: the library states induction for an operator, so it is *)
(* stated here for a set of numbers.                                       *)
(***************************************************************************)
EXTENDS Console, SequenceTheorems, WellFoundedInduction, TLAPS

(***************************************************************************)
(* The clock                                                               *)
(***************************************************************************)
\* The strengthening QuietShowsTime needs: while a client is shown another time,
\* the quiet ticks are no more than those of the period that has begun.
BehindIsRecent ==
  shown # Nothing /\ shown # time => quiet <= tick % TicksPerUpdate

IInv == TypeOK /\ BehindIsRecent

\* One more tick begins a new period or goes on with the old one.
LEMMA NextTick ==
  ASSUME NEW n \in Nat \ {0}, NEW t \in Nat
  PROVE  /\ t % n \in 0..(n - 1) /\ t \div n \in Nat
         /\ (t + 1) % n = 0 => (t + 1) \div n = (t \div n) + 1
         /\ (t + 1) % n # 0 => /\ (t + 1) \div n = t \div n
                               /\ (t + 1) % n = (t % n) + 1
<1>1. t = n * (t \div n) + (t % n) /\ t % n \in 0..(n - 1) /\ t \div n \in Int
      OBVIOUS
<1>2. PICK q \in Int : q = t \div n
      BY <1>1
<1>3. PICK r \in 0..(n - 1) : r = t % n
      BY <1>1
<1>4. t = n * q + r
      BY <1>1, <1>2, <1>3
<1>5. q >= 0
  <2>1. ASSUME q <= -1 PROVE FALSE
    <3>1. n * q <= -n
          BY <2>1
    <3>2. QED
          BY <3>1, <1>4
  <2>2. QED
        BY <2>1
<1>6. CASE r = n - 1
  <2>1. t + 1 = n * (q + 1)
        BY <1>4, <1>6
  <2>2. (t + 1) \div n = q + 1 /\ (t + 1) % n = 0
        BY <2>1
  <2>3. QED
        BY <2>2, <1>1, <1>2, <1>5
<1>7. CASE r # n - 1
  <2>1. t + 1 = n * q + (r + 1) /\ r + 1 \in 1..(n - 1)
        BY <1>4, <1>7
  <2>2. (t + 1) \div n = q /\ (t + 1) % n = r + 1
        BY <2>1
  <2>3. QED
        BY <2>1, <2>2, <1>1, <1>2, <1>3, <1>5
<1>8. QED
      BY <1>6, <1>7

\* What every call of tick does to the types and to the period.
LEMMA Advances ==
  ASSUME TypeOK, Advance
  PROVE  /\ tick' \in 0..MaxTicks /\ time' \in 0..(DayLength - 1)
         /\ ~UpdateDue => /\ time' = time
                          /\ tick' % TicksPerUpdate = (tick % TicksPerUpdate) + 1
<1> USE LengthAssumption, BoundAssumption
<1>1. tick \in Nat /\ time \in Nat /\ tick' = tick + 1 /\ tick' \in 0..MaxTicks
      BY DEF TypeOK, Advance
<1>2. (time + 1) % DayLength \in 0..(DayLength - 1)
      BY <1>1
<1>3. time' \in 0..(DayLength - 1)
      BY <1>2 DEF Advance, TypeOK
<1>4. ASSUME ~UpdateDue
      PROVE  time' = time /\ tick' % TicksPerUpdate = (tick % TicksPerUpdate) + 1
      BY <1>1, <1>4, NextTick DEF UpdateDue, Advance
<1>5. QED
      BY <1>1, <1>3, <1>4

LEMMA InitIInv == Init => IInv
<1> SUFFICES ASSUME Init PROVE IInv
    OBVIOUS
<1> USE LengthAssumption, NoonAssumption, BoundAssumption
<1>1. TypeOK /\ BehindIsRecent
      BY DEF Init, TypeOK, BehindIsRecent, Nothing
<1>2. QED
      BY <1>1 DEF IInv

LEMMA StepIInv ==
  ASSUME IInv, [Next]_vars
  PROVE  IInv'
<1> USE LengthAssumption, NoonAssumption DEF IInv, Nothing
<1>1. CASE LoopTick
  <2>1. /\ tick' \in 0..MaxTicks /\ time' \in 0..(DayLength - 1)
        /\ ~UpdateDue => time' = time /\ tick' % TicksPerUpdate = (tick % TicksPerUpdate) + 1
        BY <1>1, Advances DEF LoopTick
  <2>2. TypeOK'
        BY <1>1, <2>1 DEF LoopTick, TypeOK
  <2>3. BehindIsRecent'
    <3>1. CASE UpdateDue
          BY <1>1, <3>1 DEF LoopTick, BehindIsRecent
    <3>2. CASE ~UpdateDue
      <4>1. tick % TicksPerUpdate \in Int
            BY NextTick DEF TypeOK
      <4>2. QED
            BY <1>1, <3>2, <4>1, <2>1 DEF LoopTick, BehindIsRecent, TypeOK
    <3>3. QED
          BY <3>1, <3>2
  <2>4. QED
        BY <2>1, <2>2, <2>3
<1>2. CASE EventTick
  <2>1. tick' \in 0..MaxTicks /\ time' \in 0..(DayLength - 1)
        BY <1>2, Advances DEF EventTick
  <2>2. tick' % TicksPerUpdate >= 0
    <3>1. PICK t \in Nat : t = tick'
          BY <2>1, BoundAssumption
    <3>2. t % TicksPerUpdate \in 0..(TicksPerUpdate - 1)
          BY NextTick
    <3>3. tick' % TicksPerUpdate \in 0..(TicksPerUpdate - 1)
          BY <3>1, <3>2, Zenon
    <3>4. QED
          BY <3>3
  <2>3. TypeOK'
        BY <1>2, <2>1 DEF EventTick, TypeOK
  <2>4. BehindIsRecent'
        BY <1>2, <2>2 DEF EventTick, BehindIsRecent
  <2>5. QED
        BY <2>1, <2>3, <2>4
<1>3. CASE Enter
  <2>1. tick % TicksPerUpdate \in Nat
        BY BoundAssumption, NextTick DEF TypeOK
  <2>2. QED
        BY <1>3, <2>1 DEF Enter, TypeOK, BehindIsRecent
<1>4. CASE UNCHANGED vars
      BY <1>4 DEF vars, TypeOK, BehindIsRecent
<1>5. QED
      BY <1>1, <1>2, <1>3, <1>4 DEF Next

\* The invariant.
THEOREM Invariance == Spec => []IInv
<1>1. QED
      BY InitIInv, StepIInv, PTL DEF Spec

\* A quiet period makes up for lost updates.
THEOREM QuietTimeIsShown == Spec => []QuietShowsTime
<1>1. IInv => QuietShowsTime
  <2> SUFFICES ASSUME IInv, shown # Nothing, quiet >= TicksPerUpdate PROVE shown = time
      BY DEF QuietShowsTime
  <2>1. tick % TicksPerUpdate \in 0..(TicksPerUpdate - 1)
        BY LengthAssumption, NextTick DEF IInv, TypeOK
  <2>2. QED
        BY <2>1, LengthAssumption DEF IInv, TypeOK, BehindIsRecent
<1>2. QED
      BY <1>1, Invariance, PTL

(***************************************************************************)
(* The console                                                             *)
(***************************************************************************)
\* A step of the server is one of the clock, or of none.
LEMMA ClockStep == [ConsoleNext]_allVars => [Next]_vars
<1>1. \A line, words : Hear(line, words) => UNCHANGED vars
      BY DEF Hear, Stop, Answer, RunCommand
<1>2. \A name, info : Register(name, info) => UNCHANGED vars
      BY DEF Register
<1>3. QED
      BY <1>1, <1>2 DEF ConsoleNext, allVars

\* Every behaviour of the console is one of the clock: no command changes the game.
LEMMA HasClock == ConsoleSpec => Spec
<1>1. ConsoleInit => Init
      BY DEF ConsoleInit
<1>2. QED
      BY <1>1, ClockStep, PTL DEF ConsoleSpec, Spec

\* A quiet period shows the clients the time, whatever is typed meanwhile.
THEOREM QuietAtConsole == ConsoleSpec => []QuietShowsTime
<1>1. QED
      BY HasClock, QuietTimeIsShown, PTL

\* Only register changes the registry.
LEMMA WhoRegisters ==
  ASSUME [ConsoleNext]_allVars, registry' # registry
  PROVE  \E name, info : registry' = Registered(registry, name, info)
<1>1. \A line, words : Hear(line, words) => UNCHANGED registry
      BY DEF Hear, Stop, Answer, RunCommand
<1>2. \A name, info : Register(name, info) => registry' = Registered(registry, name, info)
      BY DEF Register
<1>3. QED
      BY <1>1, <1>2 DEF ConsoleNext, allVars, consoleVars

\* What the types say of the console itself.
ConsoleTypes ==
  /\ DOMAIN Builtin \subseteq DOMAIN registry
  /\ console \in {"reading", "ended"}
  /\ registered \in 0..MaxRegistered

\* The time of day stays within the day, and every built-in command stays registered,
\* whatever is typed or registered.
THEOREM TypeCorrect == ConsoleSpec => []ConsoleTypeOK
<1>1. ConsoleInit => ConsoleTypes
      BY RegisteredAssumption DEF ConsoleInit, ConsoleTypes
<1>2. ConsoleTypes /\ [ConsoleNext]_allVars => ConsoleTypes'
  <2> SUFFICES ASSUME ConsoleTypes, [ConsoleNext]_allVars PROVE ConsoleTypes'
      OBVIOUS
  <2>1. \A line, words : Hear(line, words) => ConsoleTypes'
        BY DEF Hear, Stop, Answer, RunCommand, ConsoleTypes
  <2>2. \A name, info : Register(name, info) => ConsoleTypes'
        BY RegisteredAssumption DEF Register, Registered, ConsoleTypes
  <2>3. UNCHANGED consoleVars => ConsoleTypes'
        BY DEF consoleVars, ConsoleTypes
  <2>4. QED
        BY <2>1, <2>2, <2>3 DEF ConsoleNext, allVars
<1>3. IInv /\ ConsoleTypes => ConsoleTypeOK
      BY DEF IInv, ConsoleTypes, ConsoleTypeOK
<1>4. QED
      BY <1>1, <1>2, <1>3, HasClock, Invariance, PTL DEF ConsoleSpec

\* What registering a command does to the labels.
LEMMA LabelsKept ==
  ASSUME NEW label, NEW name, NEW info, registry' = Registered(registry, name, info)
  PROVE  \/ Resolve(registry', label) = Resolve(registry, label)
         \/ /\ Lower(label) \notin DOMAIN registry
            /\ New \cap ({Lower(label)} \cup HaveAlias(registry, label)
                         \cup HaveAlias(registry', label)) # {}
<1>1. DOMAIN registry' = DOMAIN registry \cup {name}
      BY DEF Registered
<1>2. CASE Lower(label) \in DOMAIN registry
      BY <1>1, <1>2 DEF Resolve
<1>3. ASSUME Lower(label) \notin DOMAIN registry,
             New \cap ({Lower(label)} \cup HaveAlias(registry, label)
                      \cup HaveAlias(registry', label)) = {}
      PROVE  Resolve(registry', label) = Resolve(registry, label)
  <2>1. Lower(label) \notin DOMAIN registry'
        BY <1>3 DEF New
  <2>2. ASSUME NEW n, n \notin New
        PROVE  n \in HaveAlias(registry, label) <=> n \in HaveAlias(registry', label)
    <3>1. n \in DOMAIN registry <=> n \in DOMAIN registry'
          BY <1>1, <2>2 DEF New
    <3>2. n \in DOMAIN registry' => registry'[n] = registry[n]
          BY <2>2 DEF New
    <3>3. QED
          BY <3>1, <3>2 DEF HaveAlias
  <2>3. HaveAlias(registry', label) = HaveAlias(registry, label)
        BY <1>3, <2>2
  <2>4. QED
        BY <1>3, <2>1, <2>3 DEF Resolve
<1>4. QED
      BY <1>2, <1>3

\* A registration takes over its own name and aliases at most, and of these none
\* that is a command's name.
THEOREM LabelsStay == ConsoleSpec => RegisterKeepsLabels
<1>1. [ConsoleNext]_allVars =>
        [registry' # registry => \A label \in Labels :
           \/ Resolve(registry', label) = Resolve(registry, label)
           \/ /\ Lower(label) \notin DOMAIN registry
              /\ New \cap ({Lower(label)} \cup HaveAlias(registry, label)
                           \cup HaveAlias(registry', label)) # {}]_allVars
      BY WhoRegisters, LabelsKept
<1>2. QED
      BY <1>1, PTL DEF ConsoleSpec, RegisterKeepsLabels

(***************************************************************************)
(* The loop of the parser                                                  *)
(***************************************************************************)

\* Induction, on a set of numbers.
LEMMA Induction ==
  ASSUME NEW S \in SUBSET Nat, 0 \in S, \A n \in S : n + 1 \in S
  PROVE  S = Nat
<1> DEFINE T == Nat \ S
<1> SUFFICES ASSUME T # {} PROVE FALSE
    OBVIOUS
<1>1. PICK n \in T : \A m \in T : ~(<<m, n>> \in OpToRel(<, Nat))
  <2>1. T \subseteq Nat
        OBVIOUS
  <2> HIDE DEF T
  <2>2. QED
        BY <2>1, WFMin, NatLessThanWellFounded
<1>2. n \in Nat /\ n # 0 /\ n \notin S
      BY <1>1
<1>3. n - 1 \in Nat /\ n - 1 < n /\ (n - 1) + 1 = n
      BY <1>2
<1>4. n - 1 \notin S
      BY <1>2, <1>3
<1>5. <<n - 1, n>> \in OpToRel(<, Nat)
      BY <1>2, <1>3 DEF OpToRel
<1>6. QED
      BY <1>1, <1>3, <1>4, <1>5

\* f is the loop over a text from st, character by character.
Reading(f, st, text) ==
  f = [i \in 0..Len(text) |-> IF i = 0 THEN st ELSE Read(f[i - 1], text[i])]

\* There is such a function, so that the loop is what its definition says.
LEMMA LoopExists ==
  ASSUME NEW st, NEW text \in Seq(Char)
  PROVE  \E f : Reading(f, st, text)
<1> DEFINE Upto(f, n) == f = [i \in 0..n |-> IF i = 0 THEN st ELSE Read(f[i - 1], text[i])]
           S == {n \in Nat : \E f : Upto(f, n)}
<1>1. 0 \in S
  <2>1. Upto([i \in 0..0 |-> st], 0)
        OBVIOUS
  <2>2. QED
        BY <2>1
<1>2. ASSUME NEW n \in S PROVE n + 1 \in S
  <2>1. PICK f : Upto(f, n)
        BY <1>2
  <2> DEFINE g == [i \in 0..(n + 1) |-> IF i = n + 1 THEN Read(f[n], text[n + 1]) ELSE f[i]]
  <2>2. Upto(g, n + 1)
    <3> DEFINE h == [i \in 0..(n + 1) |-> IF i = 0 THEN st ELSE Read(g[i - 1], text[i])]
    <3> SUFFICES ASSUME NEW i \in 0..(n + 1) PROVE g[i] = h[i]
        OBVIOUS
    <3>1. n \in Nat
          BY <1>2
    <3>2. CASE i = n + 1
          BY <3>1, <3>2
    <3>3. CASE i \in 0..n /\ i # 0
      <4>1. f[i] = Read(f[i - 1], text[i])
            BY <2>1, <3>1, <3>3
      <4>2. g[i] = f[i] /\ g[i - 1] = f[i - 1]
            BY <3>1, <3>3
      <4>3. QED
            BY <3>3, <4>1, <4>2
    <3>4. CASE i = 0
      <4>1. f[0] = st
            BY <2>1, <3>1
      <4>2. g[0] = f[0]
            BY <3>1
      <4>3. QED
            BY <3>4, <4>1, <4>2
    <3>5. QED
          BY <3>1, <3>2, <3>3, <3>4
  <2> HIDE DEF g, Upto
  <2>3. QED
        BY <1>2, <2>2
<1> HIDE DEF Upto
<1>3. S = Nat
  <2> HIDE DEF S
  <2>0. S \in SUBSET Nat BY DEF S
  <2>1. QED
        BY <1>1, <1>2, <2>0, Induction
<1>4. Len(text) \in Nat
      BY LenProperties
<1>5. \E f : Upto(f, Len(text))
      BY <1>3, <1>4
<1>6. QED
      BY <1>5 DEF Upto, Reading

\* The loop is what such a function has at the end of the text.
LEMMA ReadAllIsReading ==
  ASSUME NEW st, NEW text \in Seq(Char)
  PROVE  \E f : Reading(f, st, text) /\ ReadAll(st, text) = f[Len(text)]
<1> DEFINE f == CHOOSE g : g = [i \in 0..Len(text) |-> IF i = 0 THEN st ELSE Read(g[i - 1], text[i])]
<1>1. Reading(f, st, text)
      BY LoopExists DEF Reading
<1>2. ReadAll(st, text) = f[Len(text)]
      BY DEF ReadAll
<1> HIDE DEF f
<1>3. QED
      BY <1>1, <1>2

\* Such a function, step by step.
LEMMA ReadingSteps ==
  ASSUME NEW f, NEW st, NEW text \in Seq(Char), Reading(f, st, text)
  PROVE  f[0] = st /\ \A i \in 1..Len(text) : f[i] = Read(f[i - 1], text[i])
<1>1. Len(text) \in Nat
      BY LenProperties
<1> DEFINE F(g) == [i \in 0..Len(text) |-> IF i = 0 THEN st ELSE Read(g[i - 1], text[i])]
<1>2. \A i \in 0..Len(text) : F(f)[i] = IF i = 0 THEN st ELSE Read(f[i - 1], text[i])
      OBVIOUS
<1>3. f = F(f)
      BY DEF Reading
<1> HIDE DEF F
<1>4. \A i \in 0..Len(text) : f[i] = IF i = 0 THEN st ELSE Read(f[i - 1], text[i])
      BY <1>2, <1>3
<1>5. QED
      BY <1>1, <1>4

\* One character is read by one step.
LEMMA ReadAllOne ==
  ASSUME NEW st, NEW c \in Char
  PROVE  ReadAll(st, <<c>>) = Read(st, c)
<1>1. <<c>> \in Seq(Char) /\ Len(<<c>>) = 1 /\ <<c>>[1] = c
      OBVIOUS
<1>2. PICK f : Reading(f, st, <<c>>) /\ ReadAll(st, <<c>>) = f[1]
      BY <1>1, ReadAllIsReading
<1>3. f[0] = st /\ f[1] = Read(f[0], c)
      BY <1>1, <1>2 DEF Reading
<1>4. QED
      BY <1>2, <1>3

\* To read two texts is to read the one and then the other.
LEMMA ReadAllConcat ==
  ASSUME NEW st, NEW s \in Seq(Char), NEW t \in Seq(Char)
  PROVE  ReadAll(st, s \o t) = ReadAll(ReadAll(st, s), t)
<1>1. /\ s \o t \in Seq(Char) /\ Len(s) \in Nat /\ Len(t) \in Nat
      /\ Len(s \o t) = Len(s) + Len(t)
      /\ \A i \in 1..(Len(s) + Len(t)) :
           (s \o t)[i] = IF i <= Len(s) THEN s[i] ELSE t[i - Len(s)]
      BY ConcatProperties, LenProperties
<1> DEFINE text == s \o t
           n == Len(s)
           k == Len(t)
<1>2. PICK f : Reading(f, st, text) /\ ReadAll(st, text) = f[Len(text)]
      BY <1>1, ReadAllIsReading
<1>3. PICK g : Reading(g, st, s) /\ ReadAll(st, s) = g[n]
      BY ReadAllIsReading
<1>4. PICK h : Reading(h, g[n], t) /\ ReadAll(g[n], t) = h[k]
      BY ReadAllIsReading
<1>5. /\ f[0] = st /\ \A i \in 1..(n + k) : f[i] = Read(f[i - 1], text[i])
      /\ g[0] = st /\ \A i \in 1..n : g[i] = Read(g[i - 1], s[i])
      /\ h[0] = g[n] /\ \A i \in 1..k : h[i] = Read(h[i - 1], t[i])
  <2>1. /\ f[0] = st /\ \A i \in 1..(n + k) : f[i] = Read(f[i - 1], text[i])
        BY <1>1, <1>2, ReadingSteps
  <2>2. g[0] = st /\ \A i \in 1..n : g[i] = Read(g[i - 1], s[i])
        BY <1>1, <1>3, ReadingSteps
  <2>3. h[0] = g[n] /\ \A i \in 1..k : h[i] = Read(h[i - 1], t[i])
        BY <1>1, <1>4, ReadingSteps
  <2>4. QED
        BY <2>1, <2>2, <2>3
<1>6. /\ \A i \in 1..n : text[i] = s[i]
      /\ \A i \in 1..k : text[n + i] = t[i]
      BY <1>1
<1> HIDE DEF text
<1> DEFINE A == {i \in Nat : i <= n => f[i] = g[i]}
           B == {i \in Nat : i <= k => f[n + i] = h[i]}
<1>7. A = Nat
  <2>1. 0 \in A
        BY <1>5
  <2>2. ASSUME NEW i \in A PROVE i + 1 \in A
    <3>1. SUFFICES ASSUME i + 1 <= n PROVE f[i + 1] = g[i + 1]
          OBVIOUS
    <3>2. i + 1 \in 1..n /\ i + 1 \in 1..(n + k) /\ (i + 1) - 1 = i /\ f[i] = g[i]
          BY <1>1, <3>1
    <3>3. QED
          BY <1>5, <1>6, <3>2
  <2>3. A \in SUBSET Nat
        OBVIOUS
  <2> HIDE DEF A
  <2>4. QED
        BY <2>1, <2>2, <2>3, Induction
<1>8. f[n] = g[n]
      BY <1>1, <1>7
<1>9. B = Nat
  <2>1. 0 \in B
        BY <1>1, <1>5, <1>8
  <2>2. ASSUME NEW i \in B PROVE i + 1 \in B
    <3>1. SUFFICES ASSUME i + 1 <= k PROVE f[n + (i + 1)] = h[i + 1]
          OBVIOUS
    <3>2. /\ i + 1 \in 1..k /\ n + (i + 1) \in 1..(n + k)
          /\ (i + 1) - 1 = i /\ (n + (i + 1)) - 1 = n + i /\ f[n + i] = h[i]
          BY <1>1, <3>1
    <3>3. QED
          BY <1>5, <1>6, <3>2
  <2>3. B \in SUBSET Nat
        OBVIOUS
  <2> HIDE DEF B
  <2>4. QED
        BY <2>1, <2>2, <2>3, Induction
<1>10. f[n + k] = h[k]
       BY <1>1, <1>9
<1>11. QED
       BY <1>1, <1>2, <1>3, <1>4, <1>10 DEF text

\* The state of the loop, field by field.
State(parts, current, quote) == [parts |-> parts, current |-> current, quote |-> quote]

\* Characters that are taken into the word as they are, with that mark open.
Plain(quote) == IF quote = "none" THEN Char \ (Blank \cup Quotation) ELSE Char \ {quote}

\* "none" is no character.
LEMMA NoneIsNoChar == "none" \notin Char
BY OrdinaryAssumption DEF Char, Blank, Quotation, Slash

\* No characters change nothing.
LEMMA ReadAllEmpty ==
  ASSUME NEW st
  PROVE  ReadAll(st, <<>>) = st
<1>1. <<>> \in Seq(Char) /\ Len(<<>>) = 0
      BY EmptySeq
<1>2. PICK f : Reading(f, st, <<>>) /\ ReadAll(st, <<>>) = f[0]
      BY <1>1, ReadAllIsReading
<1>3. QED
      BY <1>1, <1>2, ReadingSteps

\* A character that is taken as it is goes to the end of the word.
LEMMA ReadPlain ==
  ASSUME NEW parts, NEW current, NEW quote \in Quotation \cup {"none"}, NEW ch \in Plain(quote)
  PROVE  Read(State(parts, current, quote), ch) = State(parts, Append(current, ch), quote)
<1>1. ch \in Char /\ ch # "none" /\ ch # quote
      BY NoneIsNoChar DEF Plain
<1>2. ~(ch \in Quotation /\ quote = "none") /\ ~(ch \in Blank /\ quote = "none")
      BY DEF Plain
<1> DEFINE st == State(parts, current, quote)
<1>3. st.quote = quote /\ st.current = current
      BY DEF State
<1>4. Read(st, ch) = [st EXCEPT !.current = Append(@, ch)]
  <2> HIDE DEF st
  <2>1. QED
        BY <1>1, <1>2, <1>3 DEF Read
<1>5. [st EXCEPT !.current = Append(@, ch)] = State(parts, Append(current, ch), quote)
      BY DEF State
<1>6. QED
      BY <1>4, <1>5

\* Such characters go to the end of the word, all of them, by induction on how many.
LEMMA ReadAllPlain ==
  ASSUME NEW parts, NEW current \in Seq(Char), NEW quote \in Quotation \cup {"none"},
         NEW text \in Seq(Plain(quote))
  PROVE  ReadAll(State(parts, current, quote), text) = State(parts, current \o text, quote)
<1> DEFINE Q == Plain(quote)
           st == State(parts, current, quote)
           S == {n \in Nat : \A s \in Seq(Q) :
                   Len(s) = n => ReadAll(st, s) = State(parts, current \o s, quote)}
<1>0. Q \subseteq Char
      BY DEF Plain
<1>1. 0 \in S
  <2>1. ASSUME NEW s \in Seq(Q), Len(s) = 0
        PROVE  ReadAll(st, s) = State(parts, current \o s, quote)
    <3>1. s = <<>>
          BY <2>1, EmptySeq
    <3>2. current \o s = current
          BY <3>1, ConcatEmptySeq
    <3>3. QED
          BY <3>1, <3>2, ReadAllEmpty
  <2>2. QED
        BY <2>1
<1>2. ASSUME NEW n \in S PROVE n + 1 \in S
  <2>1. ASSUME NEW s \in Seq(Q), Len(s) = n + 1
        PROVE  ReadAll(st, s) = State(parts, current \o s, quote)
    <3>0. n \in Nat
          OBVIOUS
    <3>1. s # <<>>
          BY <2>1, <3>0, EmptySeq
    <3>2. PICK t \in Seq(Q), e \in Q : s = Append(t, e)
          BY <3>1, SequenceEmptyOrAppend
    <3>3. Len(t) = n /\ s = t \o <<e>>
          BY <2>1, <3>0, <3>2, AppendProperties, AppendIsConcat, LenProperties
    <3>4. ReadAll(st, t) = State(parts, current \o t, quote)
          BY <1>2, <3>3
    <3>5. t \in Seq(Char) /\ <<e>> \in Seq(Char) /\ e \in Char
          BY <1>0, SeqMonotonic
    <3> HIDE DEF st, Q
    <3>6. ReadAll(st, s) = Read(State(parts, current \o t, quote), e)
      <4>1. ReadAll(st, s) = ReadAll(ReadAll(st, t), <<e>>)
            BY <3>3, <3>5, ReadAllConcat
      <4>2. QED
            BY <3>4, <3>5, <4>1, ReadAllOne
    <3>7. Read(State(parts, current \o t, quote), e) = State(parts, Append(current \o t, e), quote)
          BY ReadPlain DEF Q
    <3>8. Append(current \o t, e) = current \o s
      <4>1. current \o t \in Seq(Char)
            BY <3>5, ConcatProperties
      <4>2. Append(current \o t, e) = (current \o t) \o <<e>>
            BY <3>5, <4>1, AppendIsConcat
      <4>3. (current \o t) \o <<e>> = current \o (t \o <<e>>)
            BY <3>5, ConcatAssociative
      <4>4. QED
            BY <3>3, <4>2, <4>3
    <3>9. QED
          BY <3>6, <3>7, <3>8
  <2>2. QED
        BY <2>1
<1>3. S \in SUBSET Nat
      OBVIOUS
<1> HIDE DEF S
<1>4. S = Nat
      BY <1>1, <1>2, <1>3, Induction
<1>5. Len(text) \in Nat
      BY LenProperties
<1>6. QED
      BY <1>4, <1>5 DEF S

\* A typed word has characters, and none at its ends that Trim takes away.
LEMMA MarkedEnds ==
  ASSUME NEW word \in Seq(Char), word # <<>>, NEW mark \in Marks(word), NEW typed,
         typed = Marked(word, mark)
  PROVE  /\ typed \in Seq(Char) /\ Len(typed) \in Nat \ {0}
         /\ typed[1] \notin Blank /\ typed[Len(typed)] \notin Blank
<1>1. Len(word) \in Nat \ {0} /\ DOMAIN word = 1..Len(word)
      BY EmptySeq, LenProperties
<1>2. CASE mark = "bare"
  <2>1. ToSet(word) \cap (Blank \cup Quotation) = {}
        BY <1>2 DEF Marks, Quotation
  <2>2. word[1] \in ToSet(word) /\ word[Len(word)] \in ToSet(word)
        BY <1>1 DEF ToSet
  <2>3. typed = word
        BY <1>2 DEF Marked
  <2>4. QED
        BY <1>1, <2>1, <2>2, <2>3
<1>3. CASE mark # "bare"
  <2>1. mark \in Quotation
        BY <1>3 DEF Marks
  <2>2. mark \in Char /\ mark \notin Blank
        BY <2>1 DEF Char, Quotation, Blank
  <2> DEFINE m == <<mark>>
  <2>3. m \in Seq(Char) /\ Len(m) = 1 /\ m[1] = mark
        BY <2>2
  <2>4. typed = (m \o word) \o m
        BY <1>3 DEF Marked
  <2> HIDE DEF m
  <2>5. /\ m \o word \in Seq(Char) /\ Len(m \o word) = Len(word) + 1
        /\ (m \o word)[1] = mark
        BY <1>1, <2>3, ConcatProperties
  <2>6. /\ typed \in Seq(Char) /\ Len(typed) = Len(word) + 2
        /\ typed[1] = mark /\ typed[Len(word) + 2] = mark
        BY <1>1, <2>3, <2>4, <2>5, ConcatProperties
  <2>7. QED
        BY <1>1, <2>2, <2>6
<1>4. QED
      BY <1>2, <1>3

\* A mark opens the quotation, and the same mark ends it.
LEMMA ReadMark ==
  ASSUME NEW parts, NEW current, NEW mark \in Quotation
  PROVE  /\ Read(State(parts, current, "none"), mark) = State(parts, current, mark)
         /\ Read(State(parts, current, mark), mark) = State(parts, current, "none")
<1>1. mark # "none"
      BY DEF Quotation
<1>2. State(parts, current, "none").quote = "none" /\ State(parts, current, mark).quote = mark
      BY DEF State
<1>3. /\ Read(State(parts, current, "none"), mark)
           = [State(parts, current, "none") EXCEPT !.quote = mark]
      /\ Read(State(parts, current, mark), mark)
           = [State(parts, current, mark) EXCEPT !.quote = "none"]
  <2> HIDE DEF State
  <2>1. QED
        BY <1>1, <1>2 DEF Read
<1>4. QED
      BY <1>3 DEF State

\* A typed word is read as the word.
LEMMA ReadMarked ==
  ASSUME NEW parts, NEW word \in Seq(Char), NEW mark \in Marks(word)
  PROVE  ReadAll(State(parts, <<>>, "none"), Marked(word, mark)) = State(parts, word, "none")
<1>1. /\ Len(word) \in Nat /\ DOMAIN word = 1..Len(word) /\ word \in [1..Len(word) -> Char]
      /\ <<>> \in Seq(Char) /\ <<>> \o word = word
      BY LenProperties, EmptySeq, ConcatEmptySeq
<1>2. \A Q : (\A i \in DOMAIN word : word[i] \in Q) => word \in Seq(Q)
      BY <1>1
<1>3. CASE mark = "bare"
  <2>1. ToSet(word) \cap (Blank \cup Quotation) = {}
        BY <1>3 DEF Marks, Quotation
  <2>2. word \in Seq(Plain("none"))
    <3>1. \A i \in DOMAIN word : word[i] \in Plain("none")
          BY <1>1, <2>1 DEF ToSet, Plain
    <3>2. QED
          BY <1>2, <3>1
  <2>3. ReadAll(State(parts, <<>>, "none"), word) = State(parts, <<>> \o word, "none")
        BY <1>1, <2>2, ReadAllPlain
  <2>4. QED
        BY <1>1, <1>3, <2>3 DEF Marked
<1>4. CASE mark # "bare"
  <2>1. mark \in Quotation /\ mark \notin ToSet(word)
        BY <1>4 DEF Marks
  <2>2. mark \in Char /\ mark # "none"
        BY <2>1 DEF Char, Quotation
  <2>3. word \in Seq(Plain(mark))
    <3>1. \A i \in DOMAIN word : word[i] \in Plain(mark)
          BY <1>1, <2>1, <2>2 DEF ToSet, Plain
    <3>2. QED
          BY <1>2, <3>1
  <2> DEFINE m == <<mark>>
  <2>4. m \in Seq(Char)
        BY <2>2
  <2>5. Marked(word, mark) = (m \o word) \o m
        BY <1>4 DEF Marked
  <2>6. \A st : ReadAll(st, m) = Read(st, mark)
        BY <2>2, ReadAllOne
  <2> HIDE DEF m
  <2>7. m \o word \in Seq(Char)
        BY <2>4, ConcatProperties
  <2>8. ReadAll(State(parts, <<>>, mark), word) = State(parts, word, mark)
    <3>1. ReadAll(State(parts, <<>>, mark), word) = State(parts, <<>> \o word, mark)
          BY <1>1, <2>1, <2>3, ReadAllPlain
    <3>2. QED
          BY <1>1, <3>1
  <2> DEFINE st == State(parts, <<>>, "none")
  <2>9. ReadAll(st, m) = State(parts, <<>>, mark)
        BY <2>1, <2>6, ReadMark
  <2>10. ReadAll(State(parts, word, mark), m) = State(parts, word, "none")
        BY <2>1, <2>6, ReadMark
  <2> HIDE DEF st
  <2>11. ReadAll(st, m \o word) = State(parts, word, mark)
    <3>1. ReadAll(st, m \o word) = ReadAll(ReadAll(st, m), word)
          BY <2>4, ReadAllConcat
    <3>2. QED
          BY <2>8, <2>9, <3>1
  <2>12. ReadAll(st, (m \o word) \o m) = State(parts, word, "none")
    <3>1. ReadAll(st, (m \o word) \o m) = ReadAll(ReadAll(st, m \o word), m)
          BY <2>4, <2>7, ReadAllConcat
    <3>2. QED
          BY <2>10, <2>11, <3>1
  <2>13. QED
        BY <2>5, <2>12 DEF st
<1>5. QED
      BY <1>3, <1>4

\* A word as it is typed, with the blank before it.
Piece(word, mark) == <<"space">> \o Marked(word, mark)

\* A blank completes the word before it; then the next is read.
LEMMA ReadPiece ==
  ASSUME NEW parts, NEW current, NEW word \in Seq(Char), word # <<>>, NEW mark \in Marks(word)
  PROVE  ReadAll(State(parts, current, "none"), Piece(word, mark))
           = State(Complete(State(parts, current, "none")), word, "none")
<1> DEFINE st == State(parts, current, "none")
           blank == <<"space">>
           typed == Marked(word, mark)
<1>1. "space" \in Char /\ "space" \in Blank /\ "space" \notin Quotation /\ "space" # "none"
      BY DEF Char, Blank, Quotation
<1>2. Read(st, "space") = State(Complete(st), <<>>, "none")
  <2>1. st.quote = "none"
        BY DEF State
  <2>2. Read(st, "space") = [st EXCEPT !.parts = Complete(st), !.current = <<>>]
    <3> HIDE DEF st
    <3>1. QED
          BY <1>1, <2>1 DEF Read
  <2>3. \A more : [st EXCEPT !.parts = more, !.current = <<>>] = State(more, <<>>, "none")
    <3> SUFFICES ASSUME NEW more
                 PROVE  [st EXCEPT !.parts = more, !.current = <<>>] = State(more, <<>>, "none")
        OBVIOUS
    <3>1. [st EXCEPT !.parts = more, !.current = <<>>]
            = [[st EXCEPT !.parts = more] EXCEPT !.current = <<>>]
          BY DEF State
    <3>2. [[st EXCEPT !.parts = more] EXCEPT !.current = <<>>] = State(more, <<>>, "none")
      <4>1. [st EXCEPT !.parts = more] = State(more, current, "none")
            BY DEF State
      <4>2. [State(more, current, "none") EXCEPT !.current = <<>>] = State(more, <<>>, "none")
            BY DEF State
      <4> HIDE DEF st
      <4>3. QED
            BY <4>1, <4>2
    <3> HIDE DEF st
    <3>3. QED
          BY <3>1, <3>2
  <2>4. QED
        BY <2>2, <2>3
<1>3. blank \in Seq(Char) /\ typed \in Seq(Char)
      BY <1>1, MarkedEnds
<1>4. ReadAll(st, blank) = State(Complete(st), <<>>, "none")
      BY <1>1, <1>2, ReadAllOne
<1>5. ReadAll(State(Complete(st), <<>>, "none"), typed) = State(Complete(st), word, "none")
      BY ReadMarked
<1>6. ReadAll(st, blank \o typed) = ReadAll(ReadAll(st, blank), typed)
      BY <1>3, ReadAllConcat
<1> HIDE DEF st, blank, typed
<1>7. QED
      BY <1>4, <1>5, <1>6 DEF st, blank, typed, Piece

(***************************************************************************)
(* The pieces of a line                                                    *)
(***************************************************************************)
\* f joins the pieces, one by one.
Joining(f, pieces) ==
  f = [i \in 1..Len(pieces) |-> IF i = 1 THEN pieces[i] ELSE f[i - 1] \o pieces[i]]

\* There is such a function.
LEMMA JoiningExists ==
  ASSUME NEW pieces, Len(pieces) \in Nat
  PROVE  \E f : Joining(f, pieces)
<1> DEFINE Upto(f, n) ==
             f = [i \in 1..n |-> IF i = 1 THEN pieces[i] ELSE f[i - 1] \o pieces[i]]
           S == {n \in Nat : \E f : Upto(f, n)}
<1>1. 0 \in S
  <2>1. Upto([i \in 1..0 |-> pieces[i]], 0)
        OBVIOUS
  <2>2. QED
        BY <2>1
<1>2. ASSUME NEW n \in S PROVE n + 1 \in S
  <2>1. PICK f : Upto(f, n)
        BY <1>2
  <2> DEFINE last == IF n = 0 THEN pieces[1] ELSE f[n] \o pieces[n + 1]
             g == [i \in 1..(n + 1) |-> IF i = n + 1 THEN last ELSE f[i]]
  <2>2. Upto(g, n + 1)
    <3> DEFINE h == [i \in 1..(n + 1) |-> IF i = 1 THEN pieces[i] ELSE g[i - 1] \o pieces[i]]
    <3> SUFFICES ASSUME NEW i \in 1..(n + 1) PROVE g[i] = h[i]
        OBVIOUS
    <3>1. n \in Nat
          BY <1>2
    <3>2. CASE i = n + 1
          BY <3>1, <3>2
    <3>3. CASE i \in 1..n /\ i # 1
      <4>1. f[i] = f[i - 1] \o pieces[i]
            BY <2>1, <3>1, <3>3
      <4>2. g[i] = f[i] /\ g[i - 1] = f[i - 1]
            BY <3>1, <3>3
      <4>3. QED
            BY <3>3, <4>1, <4>2
    <3>4. CASE i = 1 /\ n # 0
      <4>1. f[1] = pieces[1]
            BY <2>1, <3>1, <3>4
      <4>2. g[1] = f[1]
            BY <3>1, <3>4
      <4>3. QED
            BY <3>4, <4>1, <4>2
    <3>5. QED
          BY <3>1, <3>2, <3>3, <3>4
  <2> HIDE DEF g, Upto
  <2>3. QED
        BY <1>2, <2>2
<1> HIDE DEF Upto
<1>3. S = Nat
  <2>1. S \in SUBSET Nat
        OBVIOUS
  <2> HIDE DEF S
  <2>2. QED
        BY <1>1, <1>2, <2>1, Induction
<1>4. \E f : Upto(f, Len(pieces))
      BY <1>3
<1>5. QED
      BY <1>4 DEF Upto, Joining

\* FlattenSeq is what it has at the last piece.
LEMMA FlattenIsJoining ==
  ASSUME NEW pieces, Len(pieces) \in Nat \ {0}
  PROVE  \E f : Joining(f, pieces) /\ FlattenSeq(pieces) = f[Len(pieces)]
<1> DEFINE f == CHOOSE g : g = [i \in 1..Len(pieces) |->
                                  IF i = 1 THEN pieces[i] ELSE g[i - 1] \o pieces[i]]
<1>1. Joining(f, pieces)
      BY JoiningExists DEF Joining
<1>2. FlattenSeq(pieces) = f[Len(pieces)]
      BY DEF FlattenSeq
<1> HIDE DEF f
<1>3. QED
      BY <1>1, <1>2

\* Such a function, piece by piece.
LEMMA JoiningSteps ==
  ASSUME NEW f, NEW pieces, Len(pieces) \in Nat \ {0}, Joining(f, pieces)
  PROVE  /\ f[1] = pieces[1]
         /\ \A i \in 2..Len(pieces) : f[i] = f[i - 1] \o pieces[i]
<1> DEFINE F(g) == [i \in 1..Len(pieces) |-> IF i = 1 THEN pieces[i] ELSE g[i - 1] \o pieces[i]]
<1>1. \A i \in 1..Len(pieces) : F(f)[i] = IF i = 1 THEN pieces[i] ELSE f[i - 1] \o pieces[i]
      OBVIOUS
<1>2. f = F(f)
      BY DEF Joining
<1> HIDE DEF F
<1>3. \A i \in 1..Len(pieces) : f[i] = IF i = 1 THEN pieces[i] ELSE f[i - 1] \o pieces[i]
      BY <1>1, <1>2
<1>4. f[1] = pieces[1]
  <2>1. 1 \in 1..Len(pieces)
        OBVIOUS
  <2>2. QED
        BY <1>3, <2>1
<1>5. ASSUME NEW i \in 2..Len(pieces) PROVE f[i] = f[i - 1] \o pieces[i]
  <2>1. i \in 1..Len(pieces) /\ i # 1
        OBVIOUS
  <2>2. QED
        BY <1>3, <2>1
<1>6. QED
      BY <1>4, <1>5

\* The words that are typed with these marks, none of them empty.
Typed(words, marks) ==
  /\ words \in Seq(Seq(Char) \ {<<>>})
  /\ words # <<>>
  /\ \A i \in DOMAIN words : marks[i] \in Marks(words[i])

\* The words with their blanks.
Pieces(words, marks) == [i \in DOMAIN words |-> Piece(words[i], marks[i])]

\* A text begins with a blank and what the first word is typed as, and ends with no blank.
Framed(text, first) ==
  /\ text \in Seq(Char) /\ Len(text) >= 2
  /\ text[1] = "space" /\ text[2] = first /\ text[2] \notin Blank
  /\ text[Len(text)] \notin Blank

\* A word with the blank before it is such a text.
LEMMA PieceFramed ==
  ASSUME NEW word \in Seq(Char), word # <<>>, NEW mark \in Marks(word)
  PROVE  Framed(Piece(word, mark), Marked(word, mark)[1])
<1> DEFINE blank == <<"space">>
           typed == Marked(word, mark)
<1>1. blank \in Seq(Char) /\ Len(blank) = 1 /\ blank[1] = "space"
      BY DEF Char, Blank
<1>2. /\ typed \in Seq(Char) /\ Len(typed) \in Nat \ {0}
      /\ typed[1] \notin Blank /\ typed[Len(typed)] \notin Blank
      BY MarkedEnds
<1>3. Piece(word, mark) = blank \o typed
      BY DEF Piece
<1> HIDE DEF blank, typed
<1>4. /\ blank \o typed \in Seq(Char) /\ Len(blank \o typed) = Len(typed) + 1
      /\ \A i \in 1..(Len(typed) + 1) :
           (blank \o typed)[i] = IF i <= 1 THEN blank[i] ELSE typed[i - 1]
  <2>1. /\ blank \o typed \in Seq(Char) /\ Len(blank \o typed) = Len(blank) + Len(typed)
        /\ \A i \in 1..(Len(blank) + Len(typed)) :
             (blank \o typed)[i] = IF i <= Len(blank) THEN blank[i] ELSE typed[i - Len(blank)]
        BY <1>1, <1>2, ConcatProperties
  <2>2. Len(blank) + Len(typed) = Len(typed) + 1
        BY <1>1, <1>2
  <2>3. QED
        BY <1>1, <2>1, <2>2
<1>5. (blank \o typed)[1] = "space" /\ (blank \o typed)[2] = typed[1]
      BY <1>1, <1>2, <1>4
<1>6. (blank \o typed)[Len(typed) + 1] = typed[Len(typed)]
      BY <1>2, <1>4
<1>7. QED
      BY <1>2, <1>3, <1>4, <1>5, <1>6 DEF Framed, typed

\* And so are two of them.
LEMMA FramedConcat ==
  ASSUME NEW s, NEW t, NEW first, NEW second, Framed(s, first), Framed(t, second)
  PROVE  Framed(s \o t, first)
<1>1. /\ s \in Seq(Char) /\ Len(s) \in Nat /\ Len(s) >= 2
      /\ t \in Seq(Char) /\ Len(t) \in Nat /\ Len(t) >= 2
      BY LenProperties DEF Framed
<1>2. /\ s \o t \in Seq(Char) /\ Len(s \o t) = Len(s) + Len(t)
      /\ \A i \in 1..(Len(s) + Len(t)) :
           (s \o t)[i] = IF i <= Len(s) THEN s[i] ELSE t[i - Len(s)]
      BY <1>1, ConcatProperties
<1>3. (s \o t)[1] = s[1] /\ (s \o t)[2] = s[2] /\ (s \o t)[Len(s) + Len(t)] = t[Len(t)]
      BY <1>1, <1>2
<1>4. QED
      BY <1>1, <1>2, <1>3 DEF Framed

\* Some typed words, with blanks between them, are read as the words.
LEMMA ReadPieces ==
  ASSUME NEW words, NEW marks, Typed(words, marks), NEW text,
         text = FlattenSeq(Pieces(words, marks))
  PROVE  /\ Framed(text, Marked(words[1], marks[1])[1])
         /\ Complete(ReadAll(Start, text)) = words
<1> DEFINE n == Len(words)
           pieces == Pieces(words, marks)
           Word == Seq(Char) \ {<<>>}
           first == Marked(words[1], marks[1])[1]
<1>1. /\ words \in Seq(Word) /\ n \in Nat \ {0} /\ DOMAIN words = 1..n
      /\ \A i \in 1..n : words[i] \in Seq(Char) /\ words[i] # <<>> /\ marks[i] \in Marks(words[i])
      BY LenProperties, EmptySeq, ElementOfSeq DEF Typed
<1>2. pieces = [i \in 1..n |-> Piece(words[i], marks[i])]
      BY <1>1 DEF Pieces
<1>3. Len(pieces) = n /\ \A i \in 1..n : pieces[i] = Piece(words[i], marks[i])
      BY <1>1, <1>2
<1>0. text = FlattenSeq(pieces)
      OBVIOUS
<1>4. PICK f : Joining(f, pieces) /\ text = f[n]
  <2> HIDE DEF pieces
  <2>1. QED
        BY <1>0, <1>1, <1>3, FlattenIsJoining
<1>5. f[1] = pieces[1] /\ \A i \in 2..n : f[i] = f[i - 1] \o pieces[i]
  <2> HIDE DEF pieces
  <2>1. Len(pieces) \in Nat \ {0}
        BY <1>1, <1>3
  <2>2. /\ f[1] = pieces[1]
        /\ \A i \in 2..Len(pieces) : f[i] = f[i - 1] \o pieces[i]
        BY <1>4, <2>1, JoiningSteps
  <2>3. QED
        BY <1>3, <2>2
<1> HIDE DEF pieces
<1> DEFINE Before(i) == SubSeq(words, 1, i - 1)
           Good(i) == /\ Framed(f[i], first)
                      /\ ReadAll(Start, f[i]) = State(Before(i), words[i], "none")
           S == {i \in Nat : i + 1 <= n => Good(i + 1)}
<1>6. \A parts, word : word # <<>> => Complete(State(parts, word, "none")) = Append(parts, word)
      BY DEF Complete, State
<1>7. \A i \in 1..n : Append(Before(i), words[i]) = SubSeq(words, 1, i)
  <2> SUFFICES ASSUME NEW i \in 1..n
               PROVE  Append(SubSeq(words, 1, i - 1), words[i]) = SubSeq(words, 1, i)
      OBVIOUS
  <2> HIDE DEF Word
  <2>1. SubSeq(words, 1, i - 1) \in Seq(Word) /\ words[i] \in Word
    <3>1. \A k \in 1..(i - 1) : words[k] \in Word
          BY <1>1, ElementOfSeq
    <3>2. QED
          BY <1>1, <3>1, ElementOfSeq, SubSeqProperties
  <2>2. SubSeq(words, 1, i) = SubSeq(words, 1, i - 1) \o <<words[i]>>
    <3>1. 1 \in 1..Len(words) /\ i \in 1..Len(words)
          BY <1>1
    <3>2. QED
          BY <1>1, <3>1, SubSeqRecursiveSecond
  <2>3. QED
        BY <2>1, <2>2, AppendIsConcat
<1>8. 0 \in S
  <2>1. words[1] \in Seq(Char) /\ words[1] # <<>> /\ marks[1] \in Marks(words[1])
        BY <1>1
  <2>2. f[1] = Piece(words[1], marks[1])
        BY <1>1, <1>3, <1>5
  <2>3. Framed(f[1], first)
        BY <2>1, <2>2, PieceFramed
  <2>4. Start = State(<<>>, <<>>, "none") /\ Complete(Start) = <<>>
        BY DEF Start, State, Complete
  <2>5. ReadAll(Start, f[1]) = State(<<>>, words[1], "none")
        BY <2>1, <2>2, <2>4, ReadPiece
  <2>6. Before(1) = <<>>
        BY SubSeqEmpty
  <2> HIDE DEF Before
  <2>7. QED
        BY <2>3, <2>5, <2>6
<1>9. ASSUME NEW j \in S PROVE j + 1 \in S
  <2>1. SUFFICES ASSUME (j + 1) + 1 <= n PROVE Good((j + 1) + 1)
        BY <1>9
  <2> DEFINE i == j + 1
  <2>2. i \in 1..n /\ i + 1 \in 2..n /\ i + 1 \in 1..n /\ (i + 1) - 1 = i /\ Good(i)
        BY <1>1, <1>9, <2>1
  <2> HIDE DEF i, S
  <2>3. /\ words[i + 1] \in Seq(Char) /\ words[i + 1] # <<>> /\ marks[i + 1] \in Marks(words[i + 1])
        /\ words[i] # <<>>
        BY <1>1, <2>2
  <2> DEFINE piece == Piece(words[i + 1], marks[i + 1])
  <2>4. f[i + 1] = f[i] \o piece
        BY <1>3, <1>5, <2>2
  <2>5. Framed(piece, Marked(words[i + 1], marks[i + 1])[1])
        BY <2>3, PieceFramed
  <2>6. Complete(State(Before(i), words[i], "none")) = Append(Before(i), words[i])
        BY <1>6, <2>3
  <2>7. ReadAll(State(Before(i), words[i], "none"), piece)
          = State(Append(Before(i), words[i]), words[i + 1], "none")
        BY <2>3, <2>6, ReadPiece
  <2>8. Append(Before(i), words[i]) = Before(i + 1)
        BY <1>7, <2>2
  <2> HIDE DEF piece, first, Before
  <2>9. Framed(f[i + 1], first)
        BY <2>2, <2>4, <2>5, FramedConcat
  <2>10. f[i] \in Seq(Char) /\ piece \in Seq(Char)
        BY <2>2, <2>5 DEF Framed
  <2>11. ReadAll(Start, f[i] \o piece) = ReadAll(ReadAll(Start, f[i]), piece)
        BY <2>10, ReadAllConcat
  <2>12. QED
        BY <2>2, <2>4, <2>7, <2>8, <2>9, <2>11 DEF i
<1>10. S = Nat
  <2>1. S \in SUBSET Nat
        OBVIOUS
  <2> HIDE DEF S
  <2>2. QED
        BY <1>8, <1>9, <2>1, Induction
<1>11. Good(n)
  <2>1. n - 1 \in S /\ (n - 1) + 1 = n
    <3> HIDE DEF S
    <3>1. QED
          BY <1>1, <1>10
  <2> HIDE DEF Good
  <2>2. QED
        BY <1>1, <2>1
<1>12. Complete(State(Before(n), words[n], "none")) = words
  <2>1. n \in 1..n /\ words[n] # <<>>
        BY <1>1
  <2>2. Complete(State(Before(n), words[n], "none")) = SubSeq(words, 1, n)
        BY <1>6, <1>7, <2>1
  <2>3. SubSeq(words, 1, n) = words
        BY <1>1, SubSeqFull
  <2>4. QED
        BY <2>2, <2>3
<1>13. QED
       BY <1>4, <1>11, <1>12

\* Trim takes away what is blank at the ends, and no more.
LEMMA TrimBlank ==
  ASSUME NEW text \in Seq(Char), NEW a \in 1..Len(text),
         \A i \in 1..(a - 1) : text[i] \in Blank,
         text[a] \notin Blank, text[Len(text)] \notin Blank
  PROVE  Trim(text) = SubSeq(text, a, Len(text))
<1> DEFINE ink == {i \in DOMAIN text : text[i] \notin Blank}
<1>1. Len(text) \in Nat /\ DOMAIN text = 1..Len(text)
      BY LenProperties
<1>2. /\ a \in ink /\ \A i \in ink : a <= i
      /\ Len(text) \in ink /\ \A i \in ink : i <= Len(text)
      /\ ink \subseteq Nat
      BY <1>1
<1> HIDE DEF ink
<1>3. Min(ink) = a
  <2>1. Min(ink) \in ink /\ \A i \in ink : Min(ink) <= i
        BY <1>2 DEF Min
  <2>2. \A m : m \in ink /\ (\A i \in ink : m <= i) => m = a
        BY <1>2
  <2>3. QED
        BY <2>1, <2>2
<1>4. Max(ink) = Len(text)
  <2> DEFINE n == Len(text)
  <2>1. n \in Nat /\ n \in ink /\ \A i \in ink : i <= n
        BY <1>1, <1>2
  <2>2. Max(ink) \in ink /\ \A i \in ink : Max(ink) >= i
        BY <1>2 DEF Max
  <2> HIDE DEF n
  <2>3. \A m : m \in ink /\ (\A i \in ink : m >= i) => m = n
        BY <1>2, <2>1
  <2>4. Max(ink) = n
        BY <2>2, <2>3
  <2>5. QED
        BY <2>4 DEF n
<1>5. ink # {}
      BY <1>2
<1>6. QED
      BY <1>3, <1>4, <1>5 DEF Trim, ink

\* A typed line is parsed to the words that were typed.
LEMMA ParseLine ==
  ASSUME NEW typing, IsTyping(typing)
  PROVE  Parse(Trim(Line(typing))) = typing.words
<1> DEFINE words == typing.words
           marks == typing.marks
           text == FlattenSeq(Pieces(words, marks))
           first == Marked(words[1], marks[1])[1]
           slash == IF typing.slash THEN <<Slash>> ELSE <<>>
           blank == <<"space">>
           body == Tail(text)
           inner == slash \o body
           line == Line(typing)
<1>1. Typed(words, marks)
      BY DEF IsTyping, Typed
<1>2. Framed(text, first) /\ Complete(ReadAll(Start, text)) = words
  <2> HIDE DEF words, marks
  <2>1. QED
        BY <1>1, ReadPieces
<1>3. line = (blank \o slash) \o body
      BY DEF Line, Pieces, Piece
<1>4. typing.slash \/ first # Slash
      BY DEF IsTyping
<1>5. /\ blank \in Seq(Char) /\ Len(blank) = 1 /\ blank[1] = "space"
      /\ "space" \in Char /\ "space" \in Blank
      BY DEF Char, Blank
<1>6. /\ slash \in Seq(Char)
      /\ typing.slash => Len(slash) = 1 /\ slash[1] = Slash
      /\ ~typing.slash => slash = <<>> /\ Len(slash) = 0
  <2>1. Slash \in Char
        BY DEF Char
  <2>2. CASE typing.slash
        BY <2>1, <2>2
  <2>3. CASE ~typing.slash
        BY <2>3, EmptySeq
  <2>4. QED
        BY <2>2, <2>3
<1>7. Slash \notin Blank
      BY DEF Slash, Blank
<1> HIDE DEF words, marks, text, first, slash, blank, line
<1>8. /\ text \in Seq(Char) /\ Len(text) \in Nat /\ Len(text) >= 2 /\ text # <<>>
      /\ text[1] = "space" /\ text[2] = first /\ first \notin Blank
      /\ text[Len(text)] \notin Blank
      BY <1>2, LenProperties, EmptySeq DEF Framed
<1>9. /\ body \in Seq(Char) /\ Len(body) = Len(text) - 1
      /\ \A i \in 1..(Len(text) - 1) : body[i] = text[i + 1]
      BY <1>8, HeadTailProperties
<1>10. body[1] = first /\ body[Len(body)] \notin Blank /\ Len(body) \in Nat \ {0}
       BY <1>8, <1>9
<1>11. text = blank \o body
  <2>1. /\ blank \o body \in Seq(Char) /\ Len(blank \o body) = Len(text)
        /\ \A i \in 1..Len(text) : (blank \o body)[i] = IF i <= 1 THEN blank[i] ELSE body[i - 1]
    <3>1. blank \in Seq(Char) /\ body \in Seq(Char)
          BY <1>5, <1>9
    <3>2. /\ blank \o body \in Seq(Char) /\ Len(blank \o body) = Len(blank) + Len(body)
          /\ \A i \in 1..(Len(blank) + Len(body)) :
               (blank \o body)[i] = IF i <= Len(blank) THEN blank[i] ELSE body[i - Len(blank)]
          BY <3>1, ConcatProperties
    <3>3. Len(blank) + Len(body) = Len(text)
          BY <1>5, <1>8, <1>9
    <3>4. QED
          BY <1>5, <3>2, <3>3
  <2>2. \A i \in 1..Len(text) : text[i] = (blank \o body)[i]
        BY <1>5, <1>8, <1>9, <2>1
  <2>3. QED
        BY <1>8, <2>1, <2>2, SeqEqual
<1> HIDE DEF body
\* What the slash and the words are, between the blanks.
<1>12. /\ inner \in Seq(Char) /\ Len(inner) \in Nat \ {0}
       /\ inner[1] \notin Blank /\ inner[Len(inner)] \notin Blank
       /\ typing.slash => inner[1] = Slash
       /\ ~typing.slash => inner[1] # Slash
  <2>1. /\ inner \in Seq(Char) /\ Len(inner) = Len(slash) + Len(body)
        /\ \A i \in 1..(Len(slash) + Len(body)) :
             inner[i] = IF i <= Len(slash) THEN slash[i] ELSE body[i - Len(slash)]
    <3>1. slash \in Seq(Char) /\ body \in Seq(Char)
          BY <1>6, <1>9
    <3>2. QED
          BY <3>1, ConcatProperties
  <2> HIDE DEF inner
  <2>2. CASE typing.slash
    <3>1. Len(slash) = 1 /\ slash[1] = Slash
          BY <1>6, <2>2
    <3>2. Len(inner) = 1 + Len(body) /\ inner[1] = Slash
          BY <1>10, <2>1, <3>1
    <3>3. inner[Len(inner)] = body[Len(body)]
          BY <1>10, <2>1, <3>1, <3>2
    <3>4. QED
          BY <1>7, <1>10, <2>1, <2>2, <3>2, <3>3
  <2>3. CASE ~typing.slash
        BY <1>4, <1>6, <1>8, <1>10, <2>1, <2>3
  <2>4. QED
        BY <2>2, <2>3
<1>13. StripSlash(inner) = body
  <2>1. inner # <<>> /\ Head(inner) = inner[1]
        BY <1>12, EmptySeq
  <2>2. CASE typing.slash
    <3>1. Tail(inner) = body
      <4>1. slash = <<Slash>>
            BY <2>2 DEF slash
      <4>2. QED
            BY <1>9, <4>1
    <3>2. QED
          BY <1>12, <2>1, <2>2, <3>1 DEF StripSlash
  <2>3. CASE ~typing.slash
    <3>1. inner = body
          BY <1>6, <1>9, <2>3, ConcatEmptySeq
    <3>2. QED
          BY <1>12, <2>1, <2>3, <3>1 DEF StripSlash
  <2>4. QED
        BY <2>2, <2>3
<1> HIDE DEF inner
<1>18. line = blank \o inner
       BY <1>3, <1>5, <1>6, <1>9, ConcatAssociative DEF inner
<1>14. Trim(inner) = inner
  <2>1. Trim(inner) = SubSeq(inner, 1, Len(inner))
        BY <1>12, TrimBlank
  <2>2. QED
        BY <1>12, <2>1, SubSeqFull
<1>15. Trim(line) = inner
  <2>1. /\ line \in Seq(Char) /\ Len(line) = Len(inner) + 1
        /\ \A i \in 1..(Len(inner) + 1) : line[i] = IF i <= 1 THEN blank[i] ELSE inner[i - 1]
    <3>1. blank \in Seq(Char) /\ inner \in Seq(Char)
          BY <1>5, <1>12
    <3>2. /\ line \in Seq(Char) /\ Len(line) = Len(blank) + Len(inner)
          /\ \A i \in 1..(Len(blank) + Len(inner)) :
               line[i] = IF i <= Len(blank) THEN blank[i] ELSE inner[i - Len(blank)]
          BY <1>18, <3>1, ConcatProperties
    <3>3. Len(blank) + Len(inner) = Len(inner) + 1
          BY <1>5, <1>12
    <3>4. QED
          BY <1>5, <3>2, <3>3
  <2>2. /\ 2 \in 1..Len(line) /\ line[2] \notin Blank /\ line[Len(line)] \notin Blank
        /\ \A i \in 1..(2 - 1) : line[i] \in Blank
        BY <1>5, <1>12, <2>1
  <2>3. Trim(line) = SubSeq(line, 2, Len(line))
        BY <2>1, <2>2, TrimBlank
  <2>4. /\ SubSeq(line, 2, Len(line)) \in Seq(Char)
        /\ Len(SubSeq(line, 2, Len(line))) = Len(inner)
        /\ \A i \in 1..Len(inner) : SubSeq(line, 2, Len(line))[i] = inner[i]
    <3>1. \A i \in 2..Len(line) : line[i] \in Char
          BY <2>1, ElementOfSeq
    <3>2. /\ SubSeq(line, 2, Len(line)) \in Seq(Char)
          /\ Len(SubSeq(line, 2, Len(line))) = IF 2 <= Len(line) THEN Len(line) - 2 + 1 ELSE 0
          /\ \A i \in 1..(Len(line) - 2 + 1) : SubSeq(line, 2, Len(line))[i] = line[2 + i - 1]
          BY <1>12, <2>1, <3>1, SubSeqProperties
    <3>3. QED
          BY <1>12, <2>1, <3>2
  <2>5. QED
        BY <1>12, <2>3, <2>4, SeqEqual
<1>16. ReadAll(Start, text) = ReadAll(Start, body)
  <2>1. ReadAll(Start, blank) = Read(Start, "space")
        BY <1>5, ReadAllOne DEF blank
  <2>2. Read(Start, "space") = Start
        BY DEF Read, Start, Complete, Blank, Quotation
  <2>3. ReadAll(Start, blank \o body) = ReadAll(ReadAll(Start, blank), body)
        BY <1>5, <1>9, ReadAllConcat
  <2>4. QED
        BY <1>11, <2>1, <2>2, <2>3
<1>17. QED
       BY <1>2, <1>13, <1>14, <1>15, <1>16 DEF Parse, line, words

\* A command line is parsed to the words that were typed, with the slash or without,
\* bare or in quotation marks, whatever the words are.
THEOREM WordsAreRun == ConsoleSpec => []RunsWhatWasTyped
<1>1. ConsoleInit => RunsWhatWasTyped
      BY DEF ConsoleInit, RunsWhatWasTyped, Unheard
<1>2. RunsWhatWasTyped /\ [ConsoleNext]_allVars => RunsWhatWasTyped'
  <2> SUFFICES ASSUME RunsWhatWasTyped, [ConsoleNext]_allVars PROVE RunsWhatWasTyped'
      OBVIOUS
  <2>1. ASSUME NEW line, NEW words, Hear(line, words), words # <<>> => Parse(Trim(line)) = words
        PROVE  RunsWhatWasTyped'
        BY <2>1 DEF Hear, Stop, Answer, RunCommand, RunsWhatWasTyped, Unheard
  <2>2. ASSUME NEW typing \in Typings, Hear(Line(typing), typing.words)
        PROVE  RunsWhatWasTyped'
        BY <2>1, <2>2, ParseLine, TypingsAssumption
  <2>3. ASSUME NEW line, Hear(line, <<>>)
        PROVE  RunsWhatWasTyped'
        BY <2>1, <2>3
  <2>4. ASSUME UNCHANGED heard PROVE RunsWhatWasTyped'
        BY <2>4 DEF RunsWhatWasTyped
  <2>5. QED
        BY <2>2, <2>3, <2>4 DEF ConsoleNext, Register, allVars, consoleVars
<1>3. QED
      BY <1>1, <1>2, PTL DEF ConsoleSpec
=============================================================================
