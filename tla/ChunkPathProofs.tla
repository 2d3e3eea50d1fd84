---------------------------- MODULE ChunkPathProofs ----------------------------
(***************************************************************************)
(* ChunkPath, for any subchunk that set_block makes, any probes, limits of *)
(* the MTU and columns: the handshake agrees, what is sent after it fits   *)
(* its datagrams, the payload and its packets are read as they were sent,  *)
(* the subchunks are read from the columns in them, and the ACK of all     *)
(* datagrams but one is read as the numbers it was made of.                *)
(*                                                                         *)
(* A sequence is told from a function by Sequence, and a sequence of known *)
(* length by Long; Within says where in a buffer some bytes are.  What a   *)
(* loop of the code puts together, or takes apart, is a recursive function *)
(* of the model: that there is one, and what it keeps, is proved by        *)
(* induction on the rounds of the loop.                                    *)
(***************************************************************************)
EXTENDS ChunkPath, SequenceTheorems, FiniteSetTheorems, WellFoundedInduction, TLAPS

(***************************************************************************)
(* Sequences                                                               *)
(***************************************************************************)
\* A sequence, of anything.
Sequence(s) == \E S : s \in Seq(S)

\* A sequence of n things.
Long(s, n) == Sequence(s) /\ Len(s) = n

\* A sequence is a function of its length.
LEMMA Lengths ==
  ASSUME NEW s, Sequence(s)
  PROVE  Len(s) \in Nat /\ DOMAIN s = 1..Len(s) /\ (Len(s) = 0 <=> s = <<>>)
<1>1. PICK S : s \in Seq(S)
      BY DEF Sequence
<1>2. QED
      BY <1>1, LenProperties, EmptySeq

\* A function on 1..n is a sequence.
LEMMA FunctionIsSequence ==
  ASSUME NEW n \in Nat, NEW s, s = [i \in 1..n |-> s[i]]
  PROVE  Long(s, n)
<1> DEFINE S == {s[i] : i \in 1..n}
<1>1. s \in [1..n -> S]
  <2>1. \A i \in 1..n : s[i] \in S
        OBVIOUS
  <2> HIDE DEF S
  <2>2. QED
        BY <2>1
<1> HIDE DEF S
<1>2. s \in Seq(S)
      BY <1>1
<1>3. Len(s) = n
      BY <1>1, <1>2, LenProperties
<1>4. QED
      BY <1>2, <1>3 DEF Sequence, Long

\* Two sequences, one after the other.
LEMMA ConcatSequence ==
  ASSUME NEW s, NEW t, Sequence(s), Sequence(t)
  PROVE  /\ Sequence(s \o t) /\ Len(s \o t) = Len(s) + Len(t)
         /\ \A i \in 1..Len(s) : (s \o t)[i] = s[i]
         /\ \A i \in 1..Len(t) : (s \o t)[Len(s) + i] = t[i]
<1>1. PICK S, T : s \in Seq(S) /\ t \in Seq(T)
      BY DEF Sequence
<1> DEFINE U == S \cup T
<1>2. s \in Seq(U) /\ t \in Seq(U)
      BY <1>1, SeqMonotonic
<1> HIDE DEF U
<1>3. /\ s \o t \in Seq(U) /\ Len(s \o t) = Len(s) + Len(t)
      /\ \A i \in 1..(Len(s) + Len(t)) :
           (s \o t)[i] = IF i <= Len(s) THEN s[i] ELSE t[i - Len(s)]
      BY <1>2, ConcatProperties
<1>4. Len(s) \in Nat /\ Len(t) \in Nat
      BY Lengths
<1>5. ASSUME NEW i \in 1..Len(t) PROVE (s \o t)[Len(s) + i] = t[i]
  <2>1. /\ Len(s) + i \in 1..(Len(s) + Len(t)) /\ ~(Len(s) + i <= Len(s))
        /\ (Len(s) + i) - Len(s) = i
        BY <1>4
  <2>2. QED
        BY <1>3, <2>1
<1>6. QED
      BY <1>3, <1>4, <1>5 DEF Sequence

\* Their length is the sum.
LEMMA ConcatLong ==
  ASSUME NEW s, NEW m \in Nat, Long(s, m), NEW t, NEW n \in Nat, Long(t, n),
         NEW k \in Nat, k = m + n
  PROVE  Long(s \o t, k)
BY ConcatSequence DEF Long

\* The empty sequence is one of no length.
LEMMA EmptySequence == Long(<<>>, 0)
<1>1. <<>> \in Seq({})
      BY EmptySeq
<1>2. QED
      BY <1>1, EmptySeq DEF Sequence, Long

\* A sequence of one.
LEMMA OneSequence ==
  ASSUME NEW v
  PROVE  Long(<<v>>, 1) /\ <<v>>[1] = v
<1>1. <<v>> \in Seq({v}) /\ Len(<<v>>) = 1 /\ <<v>>[1] = v
      OBVIOUS
<1>2. QED
      BY <1>1 DEF Sequence, Long

\* Two things are a sequence of two.
LEMMA TwoSequence ==
  ASSUME NEW v, NEW w
  PROVE  Long(<<v, w>>, 2) /\ <<v, w>>[1] = v /\ <<v, w>>[2] = w
<1>1. <<v, w>> \in Seq({v, w})
      OBVIOUS
<1>2. Len(<<v, w>>) = 2
      OBVIOUS
<1>3. QED
      BY <1>1, <1>2 DEF Long, Sequence

\* Three things are a sequence of three.
LEMMA ThreeSequence ==
  ASSUME NEW u, NEW v, NEW w
  PROVE  /\ Long(<<u, v, w>>, 3)
         /\ <<u, v, w>>[1] = u /\ <<u, v, w>>[2] = v /\ <<u, v, w>>[3] = w
<1>1. <<u, v, w>> \in Seq({u, v, w})
      OBVIOUS
<1>2. Len(<<u, v, w>>) = 3
      OBVIOUS
<1>3. QED
      BY <1>1, <1>2 DEF Long, Sequence

\* As many zeros as are asked for.
LEMMA ZerosSequence ==
  ASSUME NEW size \in Nat
  PROVE  Long(Zeros(size), size)
<1>1. Zeros(size) = [i \in 1..size |-> Zeros(size)[i]]
      BY DEF Zeros
<1>2. QED
      BY <1>1, FunctionIsSequence

\* Two sequences of the same length and things are the same.
LEMMA SameSequence ==
  ASSUME NEW s, NEW t, NEW n \in Nat, Long(s, n), Long(t, n), \A i \in 1..n : s[i] = t[i]
  PROVE  s = t
<1>1. PICK S, T : s \in Seq(S) /\ t \in Seq(T)
      BY DEF Long, Sequence
<1>2. Len(s) = n /\ Len(t) = n
      BY DEF Long
<1>3. s \in [1..n -> S] /\ t \in [1..n -> T]
      BY <1>1, <1>2, LenProperties
<1>4. QED
      BY <1>3

\* The bytes of s from at to to are p.
Within(s, at, to, p) ==
  /\ Sequence(s) /\ at \in Nat /\ to \in Nat /\ at <= to /\ to <= Len(s)
  /\ Sequence(p) /\ Len(p) = to - at /\ \A i \in 1..(to - at) : p[i] = s[at + i]

\* The bytes that are read there are p.
LEMMA WithinSlice ==
  ASSUME NEW s, NEW at, NEW to, NEW p, Within(s, at, to, p)
  PROVE  Slice(s, at, to) = p
<1>1. /\ Sequence(s) /\ at \in Nat /\ to \in Nat /\ at <= to /\ to <= Len(s)
      /\ Sequence(p) /\ Len(p) = to - at /\ \A i \in 1..(to - at) : p[i] = s[at + i]
      BY DEF Within
<1>2. Slice(s, at, to) = [i \in 1..(to - at) |-> s[at + i]]
  <2>1. Slice(s, at, to) = [i \in 1..(to - (at + 1) + 1) |-> s[i + (at + 1) - 1]]
        BY <1>1 DEF Slice
  <2>2. to - (at + 1) + 1 = to - at /\ \A i \in Int : i + (at + 1) - 1 = at + i
        BY <1>1
  <2>3. QED
        BY <1>1, <2>1, <2>2
<1>3. p = [i \in 1..(to - at) |-> p[i]]
  <2>1. DOMAIN p = 1..(to - at)
        BY <1>1, Lengths
  <2>2. PICK S : p \in Seq(S)
        BY <1>1 DEF Sequence
  <2>3. QED
        BY <1>1, <2>1, <2>2
<1>4. QED
      BY <1>1, <1>2, <1>3

\* The whole is within itself.
LEMMA WithinAll ==
  ASSUME NEW p, NEW n \in Nat, Long(p, n)
  PROVE  Within(p, 0, n, p)
BY DEF Within, Long

\* What is within a sequence is within one that goes on.
LEMMA WithinOn ==
  ASSUME NEW s, NEW at, NEW to, NEW p, NEW c, Within(s, at, to, p), Sequence(c)
  PROVE  Within(s \o c, at, to, p)
<1>1. /\ Sequence(s) /\ at \in Nat /\ to \in Nat /\ at <= to /\ to <= Len(s)
      /\ Sequence(p) /\ Len(p) = to - at /\ \A i \in 1..(to - at) : p[i] = s[at + i]
      BY DEF Within
<1>2. /\ Sequence(s \o c) /\ Len(s \o c) = Len(s) + Len(c)
      /\ \A i \in 1..Len(s) : (s \o c)[i] = s[i]
      BY <1>1, ConcatSequence
<1>3. Len(s) \in Nat /\ Len(c) \in Nat
      BY <1>1, Lengths
<1>4. ASSUME NEW i \in 1..(to - at) PROVE p[i] = (s \o c)[at + i]
  <2>1. at + i \in 1..Len(s)
        BY <1>1, <1>3
  <2>2. QED
        BY <1>1, <1>2, <2>1
<1>5. QED
      BY <1>1, <1>2, <1>3, <1>4 DEF Within

\* The end of a sequence is within it.
LEMMA WithinEnd ==
  ASSUME NEW s, NEW m \in Nat, NEW p, NEW n \in Nat, NEW k \in Nat, Long(s, m), Long(p, n),
         k = m + n
  PROVE  Within(s \o p, m, k, p) /\ Long(s \o p, k)
<1>1. Long(s \o p, k)
      BY ConcatLong
<1>2. \A i \in 1..n : (s \o p)[m + i] = p[i]
      BY ConcatSequence DEF Long
<1>3. QED
      BY <1>1, <1>2 DEF Within, Long

\* A part of a part.
LEMMA WithinPart ==
  ASSUME NEW s, NEW at, NEW to, NEW p, Within(s, at, to, p),
         NEW x, NEW y, NEW q, Within(p, x, y, q)
  PROVE  Within(s, at + x, at + y, q)
<1>1. /\ Sequence(s) /\ at \in Nat /\ to \in Nat /\ at <= to /\ to <= Len(s)
      /\ Sequence(p) /\ Len(p) = to - at /\ \A i \in 1..(to - at) : p[i] = s[at + i]
      BY DEF Within
<1>2. /\ x \in Nat /\ y \in Nat /\ x <= y /\ y <= Len(p)
      /\ Sequence(q) /\ Len(q) = y - x /\ \A i \in 1..(y - x) : q[i] = p[x + i]
      BY DEF Within
<1>3. Len(s) \in Nat
      BY <1>1, Lengths
<1>4. ASSUME NEW i \in 1..((at + y) - (at + x)) PROVE q[i] = s[(at + x) + i]
  <2>1. i \in 1..(y - x) /\ x + i \in 1..(to - at) /\ at + (x + i) = (at + x) + i
        BY <1>1, <1>2
  <2>2. QED
        BY <1>1, <1>2, <2>1
<1>5. /\ at + x \in Nat /\ at + y \in Nat /\ at + x <= at + y /\ at + y <= Len(s)
      /\ Len(q) = (at + y) - (at + x)
      BY <1>1, <1>2, <1>3
<1>6. QED
      BY <1>1, <1>2, <1>4, <1>5 DEF Within

\* The first byte of a part.
LEMMA WithinFirst ==
  ASSUME NEW s, NEW at, NEW to, NEW p, Within(s, at, to, p), at < to
  PROVE  s[at + 1] = p[1]
BY DEF Within

\* Nothing is within every sequence.
LEMMA WithinNone ==
  ASSUME NEW t, Sequence(t), NEW at \in 0..Len(t)
  PROVE  Within(t, at, at, <<>>)
<1>1. Long(<<>>, 0)
      BY EmptySequence
<1>2. Len(t) \in Nat
      BY Lengths
<1>3. at - at = 0 /\ 1..0 = {}
      BY <1>2
<1>4. QED
      BY <1>1, <1>2, <1>3 DEF Within, Long

\* A slice is within what it is of.
LEMMA SliceWithin ==
  ASSUME NEW t, Sequence(t), NEW x \in 0..Len(t), NEW y \in x..Len(t)
  PROVE  Within(t, x, y, Slice(t, x, y))
<1>1. PICK S : t \in Seq(S)
      BY DEF Sequence
<1>2. Len(t) \in Nat
      BY Lengths
<1>3. \A i \in (x + 1)..y : t[i] \in S
      BY <1>1, <1>2, ElementOfSeq
<1> DEFINE p == SubSeq(t, x + 1, y)
<1>4. /\ p \in Seq(S) /\ Len(p) = IF x + 1 <= y THEN y - (x + 1) + 1 ELSE 0
      /\ \A i \in 1..(y - (x + 1) + 1) : p[i] = t[x + 1 + i - 1]
      BY <1>2, <1>3, SubSeqProperties
<1> HIDE DEF p
<1>5. Len(p) = y - x /\ \A i \in 1..(y - x) : p[i] = t[x + i]
      BY <1>2, <1>4
<1>6. Within(t, x, y, p)
      BY <1>2, <1>4, <1>5 DEF Within, Sequence
<1>7. QED
      BY <1>6 DEF p, Slice

\* The first things of a sequence.
First(s, i) == SubSeq(s, 1, i)

\* A sequence, from its beginning, one thing after the other.
LEMMA FirstThings ==
  ASSUME NEW s, NEW n \in Nat, Long(s, n)
  PROVE  /\ First(s, 0) = <<>> /\ First(s, n) = s
         /\ \A i \in 1..n : First(s, i) = Append(First(s, i - 1), s[i])
<1>1. PICK S : s \in Seq(S)
      BY DEF Long, Sequence
<1>2. Len(s) = n /\ \A i \in 1..n : s[i] \in S
      BY <1>1, ElementOfSeq DEF Long
<1>3. ASSUME NEW i \in 0..n
      PROVE  /\ First(s, i) \in Seq(S) /\ Len(First(s, i)) = i
             /\ \A k \in 1..i : First(s, i)[k] = s[k]
  <2>1. /\ SubSeq(s, 1, i) \in Seq(S)
        /\ Len(SubSeq(s, 1, i)) = IF 1 <= i THEN i - 1 + 1 ELSE 0
        /\ \A k \in 1..(i - 1 + 1) : SubSeq(s, 1, i)[k] = s[1 + k - 1]
        BY <1>1, <1>2, SubSeqProperties
  <2>2. QED
        BY <2>1 DEF First
<1>4. First(s, 0) = <<>>
      BY <1>3, EmptySeq
<1>5. First(s, n) = s
  <2>1. Long(First(s, n), n) /\ \A k \in 1..n : First(s, n)[k] = s[k]
        BY <1>3 DEF Long, Sequence
  <2>2. QED
        BY <2>1, SameSequence
<1>6. ASSUME NEW i \in 1..n PROVE First(s, i) = Append(First(s, i - 1), s[i])
  <2> DEFINE t == First(s, i - 1)
  <2>1. i - 1 \in 0..n /\ i \in 0..n
        OBVIOUS
  <2>2. t \in Seq(S) /\ Len(t) = i - 1 /\ \A k \in 1..(i - 1) : t[k] = s[k]
        BY <1>3, <2>1
  <2> HIDE DEF t
  <2>3. /\ Append(t, s[i]) \in Seq(S) /\ Len(Append(t, s[i])) = i
        /\ Append(t, s[i])[i] = s[i]
        /\ \A k \in 1..(i - 1) : Append(t, s[i])[k] = s[k]
        BY <1>2, <2>2, AppendProperties
  <2> DEFINE u == Append(t, s[i])
  <2>4. Long(u, i)
        BY <2>3 DEF Long, Sequence
  <2>5. u[i] = s[i] /\ \A k \in 1..(i - 1) : u[k] = s[k]
        BY <2>3
  <2> HIDE DEF u
  <2>6. \A k \in 1..i : u[k] = s[k]
    <3>1. \A k \in 1..i : k = i \/ k \in 1..(i - 1)
          OBVIOUS
    <3>2. QED
          BY <2>5, <3>1
  <2>7. Long(First(s, i), i) /\ \A k \in 1..i : First(s, i)[k] = s[k]
        BY <1>3, <2>1 DEF Long, Sequence
  <2>8. First(s, i) = u
    <3>1. i \in Nat /\ \A k \in 1..i : First(s, i)[k] = u[k]
          BY <2>7, <2>6
    <3>2. QED
          BY <2>4, <2>7, <3>1, SameSequence
  <2>9. QED
        BY <2>8 DEF t, u
<1>7. QED
      BY <1>4, <1>5, <1>6

\* The smaller of two.
LEMMA MinOfTwo ==
  ASSUME NEW a \in Int, NEW b \in Int
  PROVE  Min({a, b}) \in {a, b} /\ Min({a, b}) <= a /\ Min({a, b}) <= b
<1>1. \E m \in {a, b} : \A k \in {a, b} : m <= k
  <2>1. CASE a <= b
        BY <2>1
  <2>2. CASE b <= a
        BY <2>2
  <2>3. QED
        BY <2>1, <2>2
<1>2. Min({a, b}) \in {a, b} /\ \A k \in {a, b} : Min({a, b}) <= k
      BY <1>1 DEF Min
<1>3. QED
      BY <1>2

\* The greater of two.
LEMMA MaxOfTwo ==
  ASSUME NEW a \in Int, NEW b \in Int
  PROVE  Max({a, b}) \in {a, b} /\ Max({a, b}) >= a /\ Max({a, b}) >= b
<1>1. \E m \in {a, b} : \A k \in {a, b} : m >= k
  <2>1. CASE a >= b
        BY <2>1
  <2>2. CASE b >= a
        BY <2>2
  <2>3. QED
        BY <2>1, <2>2
<1>2. Max({a, b}) \in {a, b} /\ \A k \in {a, b} : Max({a, b}) >= k
      BY <1>1 DEF Max
<1>3. QED
      BY <1>2

(***************************************************************************)
(* Loops                                                                   *)
(***************************************************************************)
\* Induction, on a set of numbers.
LEMMA Induction ==
  ASSUME NEW S \in SUBSET Nat, 0 \in S, \A n \in S : n + 1 \in S
  PROVE  S = Nat
<1> DEFINE T == Nat \ S
<1> SUFFICES ASSUME T # {} PROVE FALSE
    OBVIOUS
<1>1. PICK n \in T : \A m \in T : ~(<<m, n>> \in OpToRel(<, Nat))
  <2>1. T \subseteq Nat
        OBVIOUS
  <2> HIDE DEF T
  <2>2. QED
        BY <2>1, WFMin, NatLessThanWellFounded
<1>2. n \in Nat /\ n # 0 /\ n \notin S
      BY <1>1
<1>3. n - 1 \in Nat /\ n - 1 < n /\ (n - 1) + 1 = n
      BY <1>2
<1>4. n - 1 \notin S
      BY <1>2, <1>3
<1>5. <<n - 1, n>> \in OpToRel(<, Nat)
      BY <1>2, <1>3 DEF OpToRel
<1>6. QED
      BY <1>1, <1>3, <1>4, <1>5

\* Two loops that take the same steps end alike.
LEMMA SameLoop ==
  ASSUME NEW n \in Nat, NEW f, NEW g, f[0] = g[0],
         \A i \in 1..n : f[i - 1] = g[i - 1] => f[i] = g[i]
  PROVE  f[n] = g[n]
<1> DEFINE S == {i \in Nat : i <= n => f[i] = g[i]}
<1>1. 0 \in S
      OBVIOUS
<1>2. ASSUME NEW i \in S PROVE i + 1 \in S
  <2>1. SUFFICES ASSUME i + 1 <= n PROVE f[i + 1] = g[i + 1]
        OBVIOUS
  <2>2. i \in Nat /\ i + 1 \in 1..n /\ (i + 1) - 1 = i /\ f[i] = g[i]
        BY <1>2, <2>1
  <2>3. QED
        BY <2>2
<1>3. S = Nat
  <2>1. S \in SUBSET Nat
        OBVIOUS
  <2> HIDE DEF S
  <2>2. QED
        BY <1>1, <1>2, <2>1, Induction
<1>4. QED
      BY <1>3

\* f goes through so many rounds of a loop.
Looping(f, n, base, step) == f[0] = base /\ \A i \in 1..n : f[i] = step[f[i - 1]]

\* A loop over numbers has a function.
LEMMA Recursion ==
  ASSUME NEW n \in Nat, NEW X, NEW base \in X, NEW step \in [X -> X]
  PROVE  \E f \in [0..n -> X] : Looping(f, n, base, step)
<1> DEFINE Loop(f, k) == f[0] = base /\ \A i \in 1..k : f[i] = step[f[i - 1]]
           S == {k \in Nat : \E f \in [0..k -> X] : Loop(f, k)}
<1>1. 0 \in S
  <2>1. Loop([i \in 0..0 |-> base], 0) /\ [i \in 0..0 |-> base] \in [0..0 -> X]
        OBVIOUS
  <2>2. QED
        BY <2>1
<1>2. ASSUME NEW k \in S PROVE k + 1 \in S
  <2>1. PICK f \in [0..k -> X] : Loop(f, k)
        BY <1>2
  <2>2. k \in Nat
        BY <1>2
  <2> DEFINE g == [i \in 0..(k + 1) |-> IF i = k + 1 THEN step[f[k]] ELSE f[i]]
  <2>3. g \in [0..(k + 1) -> X]
        BY <2>2
  <2>4. Loop(g, k + 1)
    <3>1. g[0] = base
          BY <2>1, <2>2
    <3>2. ASSUME NEW i \in 1..(k + 1) PROVE g[i] = step[g[i - 1]]
      <4>1. CASE i = k + 1
            BY <2>2, <4>1
      <4>2. CASE i \in 1..k
        <5>1. f[i] = step[f[i - 1]]
              BY <2>1, <4>2
        <5>2. g[i] = f[i] /\ g[i - 1] = f[i - 1]
              BY <2>2, <4>2
        <5>3. QED
              BY <5>1, <5>2
      <4>3. QED
            BY <2>2, <4>1, <4>2
    <3>3. QED
          BY <3>1, <3>2
  <2> HIDE DEF g, Loop
  <2>5. QED
        BY <2>2, <2>3, <2>4
<1>3. S = Nat
  <2>1. S \in SUBSET Nat
        OBVIOUS
  <2> HIDE DEF S
  <2>2. QED
        BY <1>1, <1>2, <2>1, Induction
<1>4. QED
      BY <1>3 DEF Looping

\* Some numbers have a least one.
LEMMA MinOfSome ==
  ASSUME NEW S \in SUBSET Nat, S # {}
  PROVE  Min(S) \in S /\ \A y \in S : Min(S) <= y
<1> DEFINE T == {n \in Nat : \A m \in 0..n : m \notin S}
<1>1. SUFFICES ASSUME \A x \in S : \E y \in S : ~(x <= y) PROVE FALSE
      BY DEF Min
<1>2. 0 \in T
  <2>1. 0 \notin S
        BY <1>1
  <2>2. QED
        BY <2>1
<1>3. ASSUME NEW n \in T PROVE n + 1 \in T
  <2>1. n + 1 \notin S
    <3>1. SUFFICES ASSUME n + 1 \in S PROVE FALSE
          OBVIOUS
    <3>2. PICK y \in S : ~(n + 1 <= y)
          BY <1>1, <3>1
    <3>3. n \in Nat /\ y \in 0..n
          BY <3>2
    <3>4. QED
          BY <3>3
  <2>2. ASSUME NEW m \in 0..(n + 1) PROVE m \notin S
    <3>1. m = n + 1 \/ m \in 0..n
          OBVIOUS
    <3>2. QED
          BY <2>1, <3>1
  <2>3. QED
        BY <2>2
<1>4. T = Nat
  <2>1. T \in SUBSET Nat
        OBVIOUS
  <2> HIDE DEF T
  <2>2. QED
        BY <1>2, <1>3, <2>1, Induction
<1>5. \A n \in Nat : n \notin S
  <2>1. \A n \in T : n \notin S
        OBVIOUS
  <2> HIDE DEF T
  <2>2. QED
        BY <1>4, <2>1
<1>6. QED
      BY <1>5

\* Some numbers up to n have a greatest one.
LEMMA MaxOfSome ==
  ASSUME NEW n \in Nat, NEW S, S \subseteq 1..n, S # {}
  PROVE  Max(S) \in S /\ \A y \in S : Max(S) >= y
<1> DEFINE T == {n - i : i \in S}
<1>1. T \in SUBSET Nat /\ T # {}
  <2>1. \A i \in S : i \in Int /\ n - i \in Nat
        OBVIOUS
  <2>2. PICK i \in S : TRUE
        OBVIOUS
  <2>3. n - i \in T
        OBVIOUS
  <2>4. \A t \in T : \E j \in S : t = n - j
        OBVIOUS
  <2> HIDE DEF T
  <2>5. QED
        BY <2>1, <2>3, <2>4
<1>2. PICK t \in T : \A y \in T : t <= y
  <2> HIDE DEF T
  <2>1. Min(T) \in T /\ \A y \in T : Min(T) <= y
        BY <1>1, MinOfSome
  <2>2. QED
        BY <2>1
<1>3. PICK x \in S : t = n - x
      OBVIOUS
<1>4. ASSUME NEW y \in S PROVE x >= y
  <2>1. n - y \in T
        OBVIOUS
  <2>2. t <= n - y
        BY <1>2, <2>1
  <2>3. QED
        BY <1>3, <2>2
<1> HIDE DEF T
<1>5. \E m \in S : \A y \in S : m >= y
      BY <1>4
<1>6. QED
      BY <1>5 DEF Max

(***************************************************************************)
(* Joining                                                                 *)
(***************************************************************************)
\* f joins the pieces, one by one.
Joining(f, pieces) ==
  f = [i \in 1..Len(pieces) |-> IF i = 1 THEN pieces[i] ELSE f[i - 1] \o pieces[i]]

\* There is such a function.
LEMMA JoiningExists ==
  ASSUME NEW pieces, Len(pieces) \in Nat
  PROVE  \E f : Joining(f, pieces)
<1> DEFINE Upto(f, n) ==
             f = [i \in 1..n |-> IF i = 1 THEN pieces[i] ELSE f[i - 1] \o pieces[i]]
           S == {n \in Nat : \E f : Upto(f, n)}
<1>1. 0 \in S
  <2>1. Upto([i \in 1..0 |-> pieces[i]], 0)
        OBVIOUS
  <2>2. QED
        BY <2>1
<1>2. ASSUME NEW n \in S PROVE n + 1 \in S
  <2>1. PICK f : Upto(f, n)
        BY <1>2
  <2> DEFINE last == IF n = 0 THEN pieces[1] ELSE f[n] \o pieces[n + 1]
             g == [i \in 1..(n + 1) |-> IF i = n + 1 THEN last ELSE f[i]]
  <2>2. Upto(g, n + 1)
    <3> DEFINE h == [i \in 1..(n + 1) |-> IF i = 1 THEN pieces[i] ELSE g[i - 1] \o pieces[i]]
    <3> SUFFICES ASSUME NEW i \in 1..(n + 1) PROVE g[i] = h[i]
        OBVIOUS
    <3>1. n \in Nat
          BY <1>2
    <3>2. CASE i = n + 1
          BY <3>1, <3>2
    <3>3. CASE i \in 1..n /\ i # 1
      <4>1. f[i] = f[i - 1] \o pieces[i]
            BY <2>1, <3>1, <3>3
      <4>2. g[i] = f[i] /\ g[i - 1] = f[i - 1]
            BY <3>1, <3>3
      <4>3. QED
            BY <3>3, <4>1, <4>2
    <3>4. CASE i = 1 /\ n # 0
      <4>1. f[1] = pieces[1]
            BY <2>1, <3>1, <3>4
      <4>2. g[1] = f[1]
            BY <3>1, <3>4
      <4>3. QED
            BY <3>4, <4>1, <4>2
    <3>5. QED
          BY <3>1, <3>2, <3>3, <3>4
  <2> HIDE DEF g, Upto
  <2>3. QED
        BY <1>2, <2>2
<1> HIDE DEF Upto
<1>3. S = Nat
  <2>1. S \in SUBSET Nat
        OBVIOUS
  <2> HIDE DEF S
  <2>2. QED
        BY <1>1, <1>2, <2>1, Induction
<1>4. \E f : Upto(f, Len(pieces))
      BY <1>3
<1>5. QED
      BY <1>4 DEF Upto, Joining

\* FlattenSeq is what it has at the last piece.
LEMMA FlattenIsJoining ==
  ASSUME NEW pieces, Len(pieces) \in Nat \ {0}
  PROVE  \E f : Joining(f, pieces) /\ FlattenSeq(pieces) = f[Len(pieces)]
<1> DEFINE f == CHOOSE g : g = [i \in 1..Len(pieces) |->
                                  IF i = 1 THEN pieces[i] ELSE g[i - 1] \o pieces[i]]
<1>1. Joining(f, pieces)
      BY JoiningExists DEF Joining
<1>2. FlattenSeq(pieces) = f[Len(pieces)]
      BY DEF FlattenSeq
<1> HIDE DEF f
<1>3. QED
      BY <1>1, <1>2

\* Such a function, piece by piece.
LEMMA JoiningSteps ==
  ASSUME NEW f, NEW pieces, Len(pieces) \in Nat \ {0}, Joining(f, pieces)
  PROVE  /\ f[1] = pieces[1]
         /\ \A i \in 2..Len(pieces) : f[i] = f[i - 1] \o pieces[i]
<1> DEFINE F(g) == [i \in 1..Len(pieces) |-> IF i = 1 THEN pieces[i] ELSE g[i - 1] \o pieces[i]]
<1>1. \A i \in 1..Len(pieces) : F(f)[i] = IF i = 1 THEN pieces[i] ELSE f[i - 1] \o pieces[i]
      OBVIOUS
<1>2. f = F(f)
      BY DEF Joining
<1> HIDE DEF F
<1>3. \A i \in 1..Len(pieces) : f[i] = IF i = 1 THEN pieces[i] ELSE f[i - 1] \o pieces[i]
      BY <1>1, <1>2
<1>4. f[1] = pieces[1]
  <2>1. 1 \in 1..Len(pieces)
        OBVIOUS
  <2>2. QED
        BY <1>3, <2>1
<1>5. ASSUME NEW i \in 2..Len(pieces) PROVE f[i] = f[i - 1] \o pieces[i]
  <2>1. i \in 1..Len(pieces) /\ i # 1
        OBVIOUS
  <2>2. QED
        BY <1>3, <2>1
<1>6. QED
      BY <1>4, <1>5

\* It adds the last piece to what the others are joined to.
LEMMA FlattenAppend ==
  ASSUME NEW p, NEW q, Len(p) \in Nat \ {0}, Len(q) = Len(p) + 1,
         \A i \in 1..Len(p) : q[i] = p[i]
  PROVE  FlattenSeq(q) = FlattenSeq(p) \o q[Len(q)]
<1> DEFINE n == Len(p)
<1>1. PICK f : Joining(f, p) /\ FlattenSeq(p) = f[n]
      BY FlattenIsJoining
<1>2. PICK g : Joining(g, q) /\ FlattenSeq(q) = g[n + 1]
      BY FlattenIsJoining
<1>3. f[1] = p[1] /\ \A i \in 2..n : f[i] = f[i - 1] \o p[i]
  <2>1. Joining(f, p)
        BY <1>1
  <2>2. Len(p) \in Nat \ {0}
        OBVIOUS
  <2>3. f[1] = p[1] /\ \A i \in 2..Len(p) : f[i] = f[i - 1] \o p[i]
        BY ONLY <2>1, <2>2, JoiningSteps
  <2>4. QED
        BY <2>3
<1>4. g[1] = q[1] /\ \A i \in 2..(n + 1) : g[i] = g[i - 1] \o q[i]
  <2>1. Len(q) \in Nat \ {0} /\ Len(q) = n + 1
        OBVIOUS
  <2>2. g[1] = q[1] /\ \A i \in 2..Len(q) : g[i] = g[i - 1] \o q[i]
    <3>1. Joining(g, q)
          BY <1>2
    <3>2. Len(q) \in Nat \ {0}
          BY <2>1
    <3>3. QED
          BY ONLY <3>1, <3>2, JoiningSteps
  <2>3. QED
        BY <2>1, <2>2
<1> DEFINE S == {i \in Nat : i + 1 <= n => g[i + 1] = f[i + 1]}
<1>5. 0 \in S
      BY <1>3, <1>4
<1>6. ASSUME NEW i \in S PROVE i + 1 \in S
  <2>1. SUFFICES ASSUME (i + 1) + 1 <= n PROVE g[(i + 1) + 1] = f[(i + 1) + 1]
        OBVIOUS
  <2>2. /\ (i + 1) + 1 \in 2..n /\ (i + 1) + 1 \in 2..(n + 1) /\ (i + 1) + 1 \in 1..n
        /\ ((i + 1) + 1) - 1 = i + 1 /\ g[i + 1] = f[i + 1]
        BY <2>1
  <2> DEFINE k == (i + 1) + 1
  <2>3. k \in 2..n /\ k \in 2..(n + 1) /\ q[k] = p[k] /\ g[k - 1] = f[k - 1]
        BY <2>2
  <2> HIDE DEF k
  <2>4. g[k] = f[k]
        BY <1>3, <1>4, <2>3
  <2>5. QED
        BY <2>4 DEF k
<1>7. S = Nat
  <2>1. S \in SUBSET Nat
        OBVIOUS
  <2> HIDE DEF S
  <2>2. QED
        BY <1>5, <1>6, <2>1, Induction
<1>8. g[n] = f[n]
  <2>1. n - 1 \in S /\ (n - 1) + 1 = n
    <3> HIDE DEF S
    <3>1. QED
          BY <1>7
  <2>2. QED
        BY <2>1
<1>9. g[n + 1] = g[n] \o q[n + 1]
  <2>1. n + 1 \in 2..(n + 1) /\ (n + 1) - 1 = n
        OBVIOUS
  <2>2. QED
        BY <1>4, <2>1
<1>10. QED
       BY <1>1, <1>2, <1>8, <1>9

\* One piece is what it is joined to.
LEMMA FlattenOne ==
  ASSUME NEW p, Len(p) = 1
  PROVE  FlattenSeq(p) = p[1]
<1>1. Len(p) \in Nat \ {0}
      OBVIOUS
<1>2. PICK f : Joining(f, p) /\ FlattenSeq(p) = f[Len(p)]
      BY <1>1, FlattenIsJoining
<1>3. f[1] = p[1]
      BY <1>1, <1>2, JoiningSteps
<1>4. QED
      BY <1>2, <1>3

\* Two pieces are joined one after the other.
LEMMA FlattenTwo ==
  ASSUME NEW p, Len(p) = 2
  PROVE  FlattenSeq(p) = p[1] \o p[2]
<1>1. Len(p) \in Nat \ {0}
      OBVIOUS
<1>2. PICK f : Joining(f, p) /\ FlattenSeq(p) = f[Len(p)]
      BY <1>1, FlattenIsJoining
<1>3. f[1] = p[1] /\ \A i \in 2..Len(p) : f[i] = f[i - 1] \o p[i]
      BY <1>1, <1>2, JoiningSteps
<1>4. 2 \in 2..Len(p) /\ 2 - 1 = 1
      OBVIOUS
<1>5. QED
      BY <1>2, <1>3, <1>4

\* Sequences are joined to a sequence.
LEMMA FlattenSequence ==
  ASSUME NEW p, Len(p) \in Nat \ {0}, \A i \in 1..Len(p) : Sequence(p[i])
  PROVE  Sequence(FlattenSeq(p))
<1> DEFINE n == Len(p)
<1>1. PICK f : Joining(f, p) /\ FlattenSeq(p) = f[n]
      BY FlattenIsJoining
<1>2. f[1] = p[1] /\ \A i \in 2..n : f[i] = f[i - 1] \o p[i]
      BY <1>1, JoiningSteps
<1> DEFINE S == {i \in Nat : i + 1 <= n => Sequence(f[i + 1])}
<1>3. 0 \in S
      BY <1>2
<1>4. ASSUME NEW i \in S PROVE i + 1 \in S
  <2>1. SUFFICES ASSUME (i + 1) + 1 <= n PROVE Sequence(f[(i + 1) + 1])
        OBVIOUS
  <2>2. /\ (i + 1) + 1 \in 2..n /\ (i + 1) + 1 \in 1..n
        /\ ((i + 1) + 1) - 1 = i + 1 /\ Sequence(f[i + 1])
        BY <2>1
  <2>3. f[(i + 1) + 1] = f[i + 1] \o p[(i + 1) + 1] /\ Sequence(p[(i + 1) + 1])
        BY <1>2, <2>2
  <2>4. QED
        BY <2>2, <2>3, ConcatSequence
<1>5. S = Nat
  <2>1. S \in SUBSET Nat
        OBVIOUS
  <2> HIDE DEF S
  <2>2. QED
        BY <1>3, <1>4, <2>1, Induction
<1>6. Sequence(f[n])
  <2>1. n - 1 \in S /\ (n - 1) + 1 = n
    <3> HIDE DEF S
    <3>1. QED
          BY <1>5
  <2>2. QED
        BY <2>1
<1>7. QED
      BY <1>1, <1>6

\* Where the pieces begin and end in what they are joined to.
LEMMA PiecesWithin ==
  ASSUME NEW pieces, NEW n \in Nat, Long(pieces, n), \A i \in 1..n : Sequence(pieces[i])
  PROVE  \E at : /\ at[0] = 0
                 /\ \A i \in 0..n : at[i] \in Nat
                 /\ \A i \in 1..n : /\ at[i] = at[i - 1] + Len(pieces[i])
                                    /\ Within(FlattenSeq(pieces), at[i - 1], at[i], pieces[i])
                 /\ Long(FlattenSeq(pieces), at[n])
<1>1. CASE n = 0
  <2>1. FlattenSeq(pieces) = pieces
        BY <1>1 DEF FlattenSeq, Long
  <2> DEFINE at == [i \in 0..0 |-> 0]
  <2>2. /\ at[0] = 0 /\ \A i \in 0..n : at[i] \in Nat
        /\ 1..n = {}
        /\ Long(FlattenSeq(pieces), at[n])
        BY <1>1, <2>1
  <2> HIDE DEF at
  <2>3. QED
        BY <2>2
<1>2. CASE n # 0
  <2>1. Len(pieces) = n
        BY DEF Long
  <2>2. PICK f : Joining(f, pieces) /\ FlattenSeq(pieces) = f[n]
        BY <1>2, <2>1, FlattenIsJoining
  <2>3. f[1] = pieces[1] /\ \A i \in 2..n : f[i] = f[i - 1] \o pieces[i]
        BY <1>2, <2>1, <2>2, JoiningSteps
  <2> DEFINE at == [i \in 0..n |-> IF i = 0 THEN 0 ELSE Len(f[i])]
             Holds(m) == /\ Long(f[m], at[m]) /\ at[m] \in Nat
                         /\ \A i \in 1..m : /\ at[i] = at[i - 1] + Len(pieces[i])
                                            /\ Within(f[m], at[i - 1], at[i], pieces[i])
             S == {m \in Nat : m + 1 <= n => Holds(m + 1)}
  <2>4. at[0] = 0 /\ \A i \in 1..n : at[i] = Len(f[i])
        OBVIOUS
  <2> HIDE DEF at
  <2>5. 0 \in S
    <3>1. 1 \in 1..n
          BY <1>2
    <3>2. Sequence(pieces[1]) /\ f[1] = pieces[1] /\ at[1] = Len(pieces[1])
          BY <2>3, <2>4, <3>1
    <3>3. Len(pieces[1]) \in Nat
          BY <3>2, Lengths
    <3>4. Long(f[1], at[1]) /\ at[1] \in Nat
          BY <3>2, <3>3 DEF Long
    <3>5. Within(f[1], 0, at[1], pieces[1])
          BY <3>2, <3>4, WithinAll
    <3>6. at[1] = at[1 - 1] + Len(pieces[1]) /\ Within(f[1], at[1 - 1], at[1], pieces[1])
          BY <2>4, <3>2, <3>3, <3>5
    <3>7. Holds(1)
      <4>1. \A i \in 1..1 : i = 1
            OBVIOUS
      <4>2. QED
            BY <3>4, <3>6, <4>1
    <3> HIDE DEF Holds
    <3>8. QED
          BY <3>7
  <2>6. ASSUME NEW m \in S PROVE m + 1 \in S
    <3>1. SUFFICES ASSUME (m + 1) + 1 <= n PROVE Holds((m + 1) + 1)
          BY <2>6
    <3> DEFINE k == m + 1
               p == pieces[k + 1]
    <3>2. k \in Nat /\ k + 1 \in 2..n /\ k + 1 \in 1..n /\ k \in 1..n /\ (k + 1) - 1 = k /\ k <= n
          BY <2>6, <3>1
    <3>3. Holds(k)
      <4> HIDE DEF Holds
      <4>1. QED
            BY <2>6, <3>2
    <3>4. Sequence(p)
          BY <3>2
    <3> HIDE DEF k, p
    <3>5. Len(p) \in Nat /\ Long(p, Len(p))
          BY <3>4, Lengths DEF Long
    <3>6. f[k + 1] = f[k] \o p
          BY <2>3, <3>2 DEF p
    <3>7. Long(f[k], at[k]) /\ at[k] \in Nat
          BY <3>3
    <3>8. Long(f[k] \o p, at[k] + Len(p)) /\ Within(f[k] \o p, at[k], at[k] + Len(p), p)
      <4>1. at[k] + Len(p) \in Nat
            BY <3>5, <3>7
      <4>2. QED
            BY <3>5, <3>7, <4>1, WithinEnd
    <3>9. at[k + 1] = at[k] + Len(p)
          BY <2>4, <3>2, <3>6, <3>8 DEF Long
    <3>10. ASSUME NEW i \in 1..(k + 1)
           PROVE  /\ at[i] = at[i - 1] + Len(pieces[i])
                  /\ Within(f[k + 1], at[i - 1], at[i], pieces[i])
      <4>1. CASE i = k + 1
            BY <3>2, <3>6, <3>8, <3>9, <4>1 DEF p
      <4>2. CASE i \in 1..k
        <5>1. /\ at[i] = at[i - 1] + Len(pieces[i])
              /\ Within(f[k], at[i - 1], at[i], pieces[i])
              BY <3>3, <4>2
        <5>2. Within(f[k] \o p, at[i - 1], at[i], pieces[i])
              BY <3>4, <5>1, WithinOn
        <5>3. QED
              BY <3>6, <5>1, <5>2
      <4>3. QED
            BY <3>2, <4>1, <4>2
    <3>11. Holds(k + 1)
           BY <3>5, <3>6, <3>7, <3>8, <3>9, <3>10
    <3> HIDE DEF Holds
    <3>12. QED
           BY <3>11 DEF k
  <2>7. S = Nat
    <3>1. S \in SUBSET Nat
          OBVIOUS
    <3> HIDE DEF S
    <3>2. QED
          BY <2>5, <2>6, <3>1, Induction
  <2>8. \A i \in 1..n : Holds(i)
    <3> HIDE DEF Holds
    <3> SUFFICES ASSUME NEW i \in 1..n PROVE Holds(i)
        OBVIOUS
    <3>1. i - 1 \in Nat /\ (i - 1) + 1 = i /\ i <= n
          OBVIOUS
    <3>2. i - 1 \in S
          BY <2>7, <3>1
    <3>3. QED
          BY <3>1, <3>2
  <2>9. n \in 1..n
        BY <1>2
  <2>10. \A i \in 0..n : at[i] \in Nat
         BY <2>4, <2>8
  <2>11. QED
         BY <2>2, <2>4, <2>8, <2>9, <2>10
<1>3. QED
      BY <1>1, <1>2

\* Pieces that are not empty end no earlier than there are pieces.
LEMMA PiecesCount ==
  ASSUME NEW n \in Nat, NEW at, at[0] = 0, \A i \in 0..n : at[i] \in Nat,
         \A i \in 1..n : at[i - 1] < at[i]
  PROVE  n <= at[n]
<1> DEFINE S == {i \in Nat : i <= n => i <= at[i]}
<1>1. 0 \in S
      OBVIOUS
<1>2. ASSUME NEW i \in S PROVE i + 1 \in S
  <2>1. SUFFICES ASSUME i + 1 <= n PROVE i + 1 <= at[i + 1]
        OBVIOUS
  <2>2. /\ i \in Nat /\ i + 1 \in 1..n /\ (i + 1) - 1 = i /\ i \in 0..n /\ i + 1 \in 0..n
        /\ i <= at[i]
        BY <1>2, <2>1
  <2>3. at[i] < at[i + 1] /\ at[i] \in Nat /\ at[i + 1] \in Nat
        BY <2>2
  <2>4. QED
        BY <2>2, <2>3
<1>3. S = Nat
  <2>1. S \in SUBSET Nat
        OBVIOUS
  <2> HIDE DEF S
  <2>2. QED
        BY <1>1, <1>2, <2>1, Induction
<1>4. QED
      BY <1>3

\* Pieces that follow each other in a sequence, from its beginning to its end, are
\* joined to it.
LEMMA FlattenIs ==
  ASSUME NEW pieces, NEW n \in Nat, Long(pieces, n), NEW t, Sequence(t),
         NEW at, at[0] = 0, at[n] = Len(t),
         \A i \in 1..n : Within(t, at[i - 1], at[i], pieces[i])
  PROVE  FlattenSeq(pieces) = t
<1>1. CASE n = 0
  <2>1. FlattenSeq(pieces) = pieces
        BY <1>1 DEF FlattenSeq, Long
  <2>2. pieces = <<>> /\ t = <<>>
        BY <1>1, Lengths DEF Long
  <2>3. QED
        BY <2>1, <2>2
<1>2. CASE n # 0
  <2>1. Len(pieces) = n /\ n \in Nat \ {0}
        BY <1>2 DEF Long
  <2>2. PICK f : Joining(f, pieces) /\ FlattenSeq(pieces) = f[n]
        BY <2>1, FlattenIsJoining
  <2>3. f[1] = pieces[1] /\ \A i \in 2..n : f[i] = f[i - 1] \o pieces[i]
        BY <2>1, <2>2, JoiningSteps
  <2>4. PICK S : t \in Seq(S)
        BY DEF Sequence
  <2> DEFINE T == {i \in Nat : i + 1 <= n => f[i + 1] = First(t, at[i + 1])}
  <2>5. 0 \in T
    <3>1. Slice(t, at[0], at[1]) = pieces[1]
      <4>1. Within(t, at[1 - 1], at[1], pieces[1]) /\ 1 - 1 = 0
            BY <2>1
      <4>2. QED
            BY <4>1, WithinSlice
    <3>2. f[0 + 1] = First(t, at[0 + 1])
          BY <2>3, <3>1 DEF Slice, First
    <3>3. QED
          BY <3>2
  <2>6. ASSUME NEW i \in T PROVE i + 1 \in T
    <3>1. SUFFICES ASSUME (i + 1) + 1 <= n PROVE f[(i + 1) + 1] = First(t, at[(i + 1) + 1])
          BY <2>6
    <3> DEFINE k == (i + 1) + 1
               x == at[i + 1]
               y == at[k]
    <3>2. i \in Nat /\ k \in 1..n /\ k \in 2..n /\ k - 1 = i + 1 /\ f[i + 1] = First(t, at[i + 1])
          BY <2>6, <3>1
    <3>3. Within(t, x, y, pieces[k])
          BY <3>2
    <3>4. f[k] = First(t, x) \o pieces[k]
          BY <2>3, <3>2
    <3> HIDE DEF x, y, k
    <3>5. pieces[k] = SubSeq(t, x + 1, y)
          BY <3>3, WithinSlice DEF Slice
    <3>6. x \in 0..Len(t) /\ y \in x..Len(t) /\ Len(t) \in Nat
          BY <3>3, Lengths DEF Within
    <3>7. SubSeq(t, 1, x) \o SubSeq(t, x + 1, y) = SubSeq(t, 1, y)
      <4>1. 1 \in 1..(Len(t) + 1) /\ x \in (1 - 1)..Len(t)
            BY <3>6
      <4>2. QED
            BY <2>4, <3>6, <4>1, ConcatAdjacentSubSeq
    <3>8. f[k] = First(t, y)
          BY <3>4, <3>5, <3>7 DEF First
    <3>9. QED
          BY <3>8 DEF k, y
  <2>7. T = Nat
    <3>1. T \in SUBSET Nat
          OBVIOUS
    <3> HIDE DEF T
    <3>2. QED
          BY <2>5, <2>6, <3>1, Induction
  <2>8. f[n] = First(t, at[n])
    <3>1. n - 1 \in T /\ (n - 1) + 1 = n
      <4> HIDE DEF T
      <4>1. QED
            BY <2>1, <2>7
    <3>2. QED
          BY <3>1
  <2>9. First(t, at[n]) = t
    <3>1. Long(t, Len(t)) /\ Len(t) \in Nat
          BY Lengths DEF Long
    <3>2. QED
          BY <3>1, FirstThings
  <2>10. QED
         BY <2>2, <2>8, <2>9
<1>3. QED
      BY <1>1, <1>2

\* The only piece that is not empty is what they are joined to.
LEMMA FlattenOnly ==
  ASSUME NEW pieces, NEW n \in Nat, Long(pieces, n), NEW k \in 1..n, Sequence(pieces[k]),
         \A i \in 1..n : i # k => pieces[i] = <<>>
  PROVE  FlattenSeq(pieces) = pieces[k]
<1> DEFINE t == pieces[k]
           at == [i \in 0..n |-> IF i < k THEN 0 ELSE Len(t)]
<1>1. Len(t) \in Nat
      BY Lengths
<1>2. at[0] = 0 /\ at[n] = Len(t)
      OBVIOUS
<1>3. ASSUME NEW i \in 1..n PROVE Within(t, at[i - 1], at[i], pieces[i])
  <2>1. i - 1 \in 0..n /\ i \in 0..n
        OBVIOUS
  <2>2. CASE i = k
    <3>1. at[i - 1] = 0 /\ at[i] = Len(t)
          BY <2>1, <2>2
    <3>2. Within(t, 0, Len(t), t)
          BY <1>1, WithinAll DEF Long
    <3>3. QED
          BY <2>2, <3>1, <3>2
  <2>3. CASE i # k
    <3>1. at[i - 1] = at[i] /\ at[i] \in 0..Len(t)
          BY <1>1, <2>1, <2>3
    <3>2. pieces[i] = <<>>
          BY <2>3
    <3> HIDE DEF at
    <3>3. QED
          BY <3>1, <3>2, WithinNone
  <2>4. QED
        BY <2>2, <2>3
<1> HIDE DEF at
<1>4. QED
      BY <1>2, <1>3, FlattenIs

\* A thing is joined to the last piece as to the whole.
LEMMA FlattenGrows ==
  ASSUME NEW p, NEW q, NEW n \in Nat \ {0}, Long(p, n), Long(q, n), NEW f,
         \A i \in 1..n : Sequence(p[i]),
         \A i \in 1..(n - 1) : q[i] = p[i], q[n] = Append(p[n], f)
  PROVE  FlattenSeq(q) = Append(FlattenSeq(p), f)
<1>1. Len(p) = n /\ Len(q) = n
      BY DEF Long
<1>2. CASE n = 1
      BY <1>1, <1>2, FlattenOne
<1>3. CASE n # 1
  <2> DEFINE m == n - 1
             h == [i \in 1..m |-> p[i]]
  <2>1. m \in Nat \ {0} /\ n = m + 1
        BY <1>3
  <2>2. Long(h, m) /\ \A i \in 1..m : h[i] = p[i]
    <3>1. h = [i \in 1..m |-> h[i]]
          OBVIOUS
    <3>2. \A i \in 1..m : h[i] = p[i]
          OBVIOUS
    <3> HIDE DEF h, m
    <3>3. QED
          BY <2>1, <3>1, <3>2, FunctionIsSequence
  <2>3. \A i \in 1..m : q[i] = h[i]
        BY <2>2
  <2> HIDE DEF h, m
  <2>4. Len(h) = m
        BY <2>2 DEF Long
  <2>5. FlattenSeq(p) = FlattenSeq(h) \o p[n]
        BY <1>1, <2>1, <2>2, <2>4, FlattenAppend
  <2>6. FlattenSeq(q) = FlattenSeq(h) \o q[n]
        BY <1>1, <2>1, <2>3, <2>4, FlattenAppend
  <2>7. Sequence(FlattenSeq(h)) /\ Sequence(p[n])
    <3>1. \A i \in 1..m : i \in 1..n
          BY <2>1
    <3>2. \A i \in 1..Len(h) : Sequence(h[i])
          BY <2>2, <2>4, <3>1
    <3>3. Sequence(FlattenSeq(h))
          BY <2>1, <2>4, <3>2, FlattenSequence
    <3>4. QED
          BY <3>3
  <2> DEFINE s == FlattenSeq(h)
             t == p[n]
  <2>8. PICK S : s \in Seq(S)
        BY <2>7 DEF Sequence
  <2>9. PICK T : t \in Seq(T)
        BY <2>7 DEF Sequence
  <2> HIDE DEF s, t
  <2>10. s \o Append(t, f) = Append(s \o t, f)
    <3> DEFINE U == S \cup T \cup {f}
    <3>1. s \in Seq(U) /\ t \in Seq(U) /\ f \in U
          BY <2>8, <2>9, SeqMonotonic
    <3> HIDE DEF U
    <3>2. QED
          BY <3>1
  <2>11. QED
         BY <2>5, <2>6, <2>10 DEF s, t
<1>4. QED
      BY <1>2, <1>3

(***************************************************************************)
(* Numbers                                                                 *)
(***************************************************************************)
\* Numbers are divided in one way.
LEMMA DividedOnce ==
  ASSUME NEW d \in Nat \ {0}, NEW q \in Nat, NEW r \in 0..(d - 1), NEW v, v = d * q + r
  PROVE  v \in Nat /\ v \div d = q /\ v % d = r
<1>1. d * q \in Nat
      OBVIOUS
<1>2. v \in Nat
      BY <1>1
<1> DEFINE x == v \div d
           y == v % d
<1>3. x \in Nat /\ y \in 0..(d - 1) /\ v = d * x + y
      BY <1>2
<1> HIDE DEF x, y
<1>4. d * x \in Nat
      BY <1>3
<1>5. CASE x > q
  <2> DEFINE z == d * (x - q - 1)
  <2>1. x - q - 1 \in Nat
        BY <1>3, <1>5
  <2>2. z \in Nat
        BY <2>1
  <2>3. d * x = d * q + z + d
        BY <1>3
  <2> HIDE DEF z
  <2>4. QED
        BY <1>1, <1>2, <1>3, <1>4, <2>2, <2>3
<1>6. CASE x < q
  <2> DEFINE z == d * (q - x - 1)
  <2>1. q - x - 1 \in Nat
        BY <1>3, <1>6
  <2>2. z \in Nat
        BY <2>1
  <2>3. d * q = d * x + z + d
        BY <1>3
  <2> HIDE DEF z
  <2>4. QED
        BY <1>1, <1>2, <1>3, <1>4, <2>2, <2>3
<1>7. CASE x = q
  <2>1. y = r
        BY <1>1, <1>3, <1>7
  <2>2. QED
        BY <1>2, <1>7, <2>1 DEF x, y
<1>8. QED
      BY <1>3, <1>5, <1>6, <1>7

\* A number below d is what is left of it.
LEMMA Below ==
  ASSUME NEW d \in Nat \ {0}, NEW v \in 0..(d - 1)
  PROVE  v % d = v
<1> DEFINE q == 0
<1>1. q \in Nat /\ v = d * q + v
      OBVIOUS
<1> HIDE DEF q
<1>2. QED
      BY <1>1, DividedOnce

\* The bytes of a number are as many as are asked for.
LEMMA BytesOfNumber ==
  ASSUME NEW size \in Nat, NEW v
  PROVE  /\ Long(LE(size, v), size)
         /\ Long(BE(size, v), size)
         /\ \A i \in 1..size : BE(size, v)[i] = LE(size, v)[size - i + 1]
<1>1. Long(LE(size, v), size)
  <2>1. LE(size, v) = [i \in 1..size |-> LE(size, v)[i]]
        BY DEF LE
  <2>2. QED
        BY <2>1, FunctionIsSequence
<1>2. BE(size, v) = [i \in 1..size |-> LE(size, v)[size - i + 1]]
      BY <1>1 DEF BE, Reverse, Long
<1>3. BE(size, v) = [i \in 1..size |-> BE(size, v)[i]]
      BY <1>2
<1>4. QED
      BY <1>1, <1>2, <1>3, FunctionIsSequence

\* Every shift takes the lowest byte away.
LEMMA ShiftedSteps ==
  ASSUME NEW n \in Nat, NEW v \in Nat
  PROVE  /\ Shifted(n, v) \in [0..n -> Nat]
         /\ Shifted(n, v)[0] = v
         /\ \A i \in 1..n : Shifted(n, v)[i] = Shifted(n, v)[i - 1] \div 256
<1> DEFINE F(f) == [i \in 0..n |-> IF i = 0 THEN v ELSE f[i - 1] \div 256]
           rest == CHOOSE f : f = F(f)
           step == [x \in Nat |-> x \div 256]
<1>1. step \in [Nat -> Nat]
      OBVIOUS
<1>2. PICK f \in [0..n -> Nat] : Looping(f, n, v, step)
  <2> HIDE DEF step, rest, F
  <2>1. QED
        BY <1>1, Recursion
<1>3. f = F(f)
  <2>1. ASSUME NEW i \in 0..n PROVE f[i] = IF i = 0 THEN v ELSE f[i - 1] \div 256
    <3>1. CASE i = 0
          BY <1>2, <3>1 DEF Looping
    <3>2. CASE i # 0
      <4>1. i \in 1..n /\ i - 1 \in 0..n /\ f[i - 1] \in Nat
            BY <1>2, <3>2
      <4>2. f[i] = step[f[i - 1]]
            BY <1>2, <4>1 DEF Looping
      <4>3. QED
            BY <3>2, <4>1, <4>2
    <3>3. QED
          BY <3>1, <3>2
  <2>2. f = [i \in 0..n |-> f[i]]
        BY <1>2
  <2>3. QED
        BY <2>1, <2>2
<1>4. rest = F(rest)
  <2> HIDE DEF F
  <2>1. QED
        BY <1>3
<1>5. Shifted(n, v) = rest
      BY DEF Shifted
<1> HIDE DEF rest
<1>6. rest[0] = v /\ \A i \in 1..n : rest[i] = rest[i - 1] \div 256
  <2>1. \A i \in 0..n : F(rest)[i] = IF i = 0 THEN v ELSE rest[i - 1] \div 256
        OBVIOUS
  <2> HIDE DEF F
  <2>2. QED
        BY <1>4, <2>1
<1>7. rest \in [0..n -> Nat]
  <2> DEFINE T == {i \in Nat : i <= n => rest[i] \in Nat}
  <2>1. 0 \in T
        BY <1>6
  <2>2. ASSUME NEW i \in T PROVE i + 1 \in T
    <3>1. SUFFICES ASSUME i + 1 <= n PROVE rest[i + 1] \in Nat
          OBVIOUS
    <3>2. rest[i] \in Nat /\ i + 1 \in 1..n /\ (i + 1) - 1 = i
          BY <2>2, <3>1
    <3>3. rest[i + 1] = rest[i] \div 256
          BY <1>6, <3>2
    <3>4. QED
          BY <3>2, <3>3
  <2>3. T = Nat
    <3>1. T \in SUBSET Nat
          OBVIOUS
    <3> HIDE DEF T
    <3>2. QED
          BY <2>1, <2>2, <3>1, Induction
  <2>4. \A i \in 0..n : rest[i] \in Nat
        BY <2>3
  <2>5. rest = [i \in 0..n |-> rest[i]]
        BY <1>4
  <2>6. QED
        BY <2>4, <2>5
<1>8. QED
      BY <1>5, <1>6, <1>7

\* The loop of FromLE, from the last byte to the first.
LEMMA FromLoop ==
  ASSUME NEW bytes, NEW n \in Nat, Len(bytes) = n,
         NEW w, w = [i \in 1..(n + 1) |-> IF i > n THEN 0 ELSE bytes[i] + 256 * w[i + 1]]
  PROVE  FromLE(bytes) = w[1]
<1> DEFINE F(g) == [i \in 1..(n + 1) |-> IF i > n THEN 0 ELSE bytes[i] + 256 * g[i + 1]]
           value == CHOOSE g : g = F(g)
<1>1. value = F(value)
  <2>1. w = F(w)
        OBVIOUS
  <2> HIDE DEF F
  <2>2. QED
        BY <2>1
<1>2. FromLE(bytes) = value[1]
      BY DEF FromLE
<1> HIDE DEF value
<1>3. \A g : F(g)[n + 1] = 0 /\ \A i \in 1..n : F(g)[i] = bytes[i] + 256 * g[i + 1]
      OBVIOUS
<1>4. w = F(w)
      OBVIOUS
<1> HIDE DEF F
<1>5. /\ value[n + 1] = 0 /\ \A i \in 1..n : value[i] = bytes[i] + 256 * value[i + 1]
      /\ w[n + 1] = 0 /\ \A i \in 1..n : w[i] = bytes[i] + 256 * w[i + 1]
      BY <1>1, <1>3, <1>4
<1> DEFINE f == [i \in 0..n |-> value[(n - i) + 1]]
           g == [i \in 0..n |-> w[(n - i) + 1]]
<1>6. f[0] = g[0]
      BY <1>5
<1>7. ASSUME NEW i \in 1..n, f[i - 1] = g[i - 1] PROVE f[i] = g[i]
  <2> DEFINE k == (n - i) + 1
  <2>1. k \in 1..n /\ (n - (i - 1)) + 1 = k + 1 /\ i - 1 \in 0..n /\ i \in 0..n
        OBVIOUS
  <2>2. value[k + 1] = w[k + 1]
        BY <1>7, <2>1
  <2>3. value[k] = bytes[k] + 256 * value[k + 1] /\ w[k] = bytes[k] + 256 * w[k + 1]
        BY <1>5, <2>1
  <2>4. f[i] = value[k] /\ g[i] = w[k]
        BY <2>1
  <2>5. QED
        BY <2>2, <2>3, <2>4
<1>8. f[n] = value[1] /\ g[n] = w[1]
      OBVIOUS
<1> HIDE DEF f, g
<1>9. f[n] = g[n]
      BY <1>6, <1>7, SameLoop
<1>10. QED
       BY <1>2, <1>8, <1>9

\* A number is read as it was written, if all of it is shifted out.
LEMMA NumberRead ==
  ASSUME NEW n \in Nat, NEW v \in Nat, Shifted(n, v)[n] = 0
  PROVE  FromLE(LE(n, v)) = v /\ FromBE(BE(n, v)) = v
<1>1. Shifted(n, v) \in [0..n -> Nat]
      BY ShiftedSteps
<1>2. Shifted(n, v)[0] = v
      BY ShiftedSteps
<1>3. \A i \in 1..n : Shifted(n, v)[i] = Shifted(n, v)[i - 1] \div 256
      BY ShiftedSteps
<1> DEFINE rest == Shifted(n, v)
           w == [i \in 1..(n + 1) |-> rest[i - 1]]
           bytes == LE(n, v)
<1>4. bytes = [i \in 1..n |-> rest[i - 1] % 256]
      BY DEF LE
<1>5. /\ rest \in [0..n -> Nat] /\ rest[0] = v /\ rest[n] = 0
      /\ \A i \in 1..n : rest[i] = rest[i - 1] \div 256
      BY <1>1, <1>2, <1>3
<1> HIDE DEF rest
<1>6. Long(bytes, n)
      BY BytesOfNumber
<1> HIDE DEF bytes
<1>7. w = [i \in 1..(n + 1) |-> IF i > n THEN 0 ELSE bytes[i] + 256 * w[i + 1]]
  <2> SUFFICES ASSUME NEW i \in 1..(n + 1)
               PROVE  w[i] = IF i > n THEN 0 ELSE bytes[i] + 256 * w[i + 1]
      OBVIOUS
  <2>1. CASE i = n + 1
        BY <1>5, <2>1
  <2>2. CASE i \in 1..n
    <3>1. w[i] = rest[i - 1] /\ w[i + 1] = rest[i] /\ bytes[i] = rest[i - 1] % 256
          BY <1>4, <2>2
    <3>2. rest[i] = rest[i - 1] \div 256 /\ rest[i - 1] \in Nat
          BY <1>5, <2>2
    <3> DEFINE x == rest[i - 1]
    <3>3. x \in Nat
          BY <3>2
    <3> HIDE DEF x, w
    <3>4. x = (x % 256) + 256 * (x \div 256)
          BY <3>3
    <3> DEFINE y == x \div 256
               z == x % 256
    <3>5. x = z + 256 * y
          BY <3>4
    <3> HIDE DEF y, z
    <3>6. w[i] = x /\ w[i + 1] = y /\ bytes[i] = z /\ ~(i > n)
      <4>1. w[i] = x /\ w[i + 1] = y
            BY <3>1, <3>2 DEF x, y
      <4>2. bytes[i] = z
            BY <3>1 DEF x, z
      <4>3. QED
            BY <2>2, <4>1, <4>2
    <3>7. QED
          BY ONLY <3>5, <3>6
  <2>3. QED
        BY <2>1, <2>2
<1>8. FromLE(bytes) = v
  <2>1. w[1] = v
        BY <1>5
  <2> HIDE DEF w
  <2>2. QED
        BY <1>6, <1>7, <2>1, FromLoop DEF Long
<1>9. Reverse(BE(n, v)) = bytes
  <2>1. /\ Long(BE(n, v), n)
        /\ \A i \in 1..n : BE(n, v)[i] = bytes[n - i + 1]
        BY BytesOfNumber DEF bytes
  <2>2. Reverse(BE(n, v)) = [i \in 1..n |-> BE(n, v)[(n - i) + 1]]
        BY <2>1 DEF Reverse, Long
  <2>3. ASSUME NEW i \in 1..n PROVE BE(n, v)[(n - i) + 1] = bytes[i]
    <3>1. (n - i) + 1 \in 1..n /\ n - ((n - i) + 1) + 1 = i
          OBVIOUS
    <3>2. QED
          BY <2>1, <3>1
  <2>4. bytes = [i \in 1..n |-> bytes[i]]
        BY <1>4
  <2>5. QED
        BY <2>2, <2>3, <2>4
<1>10. QED
      BY <1>8, <1>9 DEF FromBE, bytes

\* So are numbers of two, three and four bytes.
LEMMA BytesRead ==
  /\ \A v \in 0..(2^16 - 1) : FromBE(BE(2, v)) = v
  /\ \A v \in 0..(2^24 - 1) : FromLE(LE(3, v)) = v
  /\ \A v \in 0..(2^32 - 1) : FromBE(BE(4, v)) = v /\ FromLE(LE(4, v)) = v
<1>1. ASSUME NEW v \in 0..(2^16 - 1) PROVE FromBE(BE(2, v)) = v
  <2> DEFINE r == Shifted(2, v)
  <2>1. r[0] = v /\ \A i \in 1..2 : r[i] = r[i - 1] \div 256
        BY ShiftedSteps
  <2> HIDE DEF r
  <2>2. r[1] = v \div 256 /\ r[2] = r[1] \div 256
        BY <2>1
  <2>3. r[2] = 0
        BY <2>2
  <2>4. QED
        BY <2>3, NumberRead DEF r
<1>2. ASSUME NEW v \in 0..(2^24 - 1) PROVE FromLE(LE(3, v)) = v
  <2> DEFINE r == Shifted(3, v)
  <2>1. r[0] = v /\ \A i \in 1..3 : r[i] = r[i - 1] \div 256
        BY ShiftedSteps
  <2> HIDE DEF r
  <2>2. r[1] = v \div 256 /\ r[2] = r[1] \div 256 /\ r[3] = r[2] \div 256
        BY <2>1
  <2>3. r[3] = 0
        BY <2>2
  <2>4. QED
        BY <2>3, NumberRead DEF r
<1>3. ASSUME NEW v \in 0..(2^32 - 1) PROVE FromBE(BE(4, v)) = v /\ FromLE(LE(4, v)) = v
  <2> DEFINE r == Shifted(4, v)
  <2>1. r[0] = v /\ \A i \in 1..4 : r[i] = r[i - 1] \div 256
        BY ShiftedSteps
  <2> HIDE DEF r
  <2>2. /\ r[1] = v \div 256 /\ r[2] = r[1] \div 256
        /\ r[3] = r[2] \div 256 /\ r[4] = r[3] \div 256
        BY <2>1
  <2>3. r[4] = 0
        BY <2>2
  <2>4. QED
        BY <2>3, NumberRead DEF r
<1>4. QED
      BY <1>1, <1>2, <1>3

\* A VarInt is some bytes.
LEMMA VarIntSequence ==
  ASSUME NEW v \in Int
  PROVE  Sequence(WriteVarU32(v)) /\ Len(WriteVarU32(v)) \in Nat
<1> DEFINE size == CHOOSE n \in 1..5 : /\ n = 5 \/ v < 128^n
                                       /\ n = 1 \/ v >= 128^(n - 1)
<1>1. \E n \in 1..5 : (n = 5 \/ v < 128^n) /\ (n = 1 \/ v >= 128^(n - 1))
  <2>1. CASE v < 128^1
        BY <2>1
  <2>2. CASE v >= 128^1 /\ v < 128^2
        BY <2>2
  <2>3. CASE v >= 128^2 /\ v < 128^3
        BY <2>3
  <2>4. CASE v >= 128^3 /\ v < 128^4
        BY <2>4
  <2>5. CASE v >= 128^4
        BY <2>5
  <2>6. 128^1 \in Int /\ 128^2 \in Int /\ 128^3 \in Int /\ 128^4 \in Int
        OBVIOUS
  <2>7. QED
        BY <2>1, <2>2, <2>3, <2>4, <2>5, <2>6
<1>2. size \in Nat
      BY <1>1
<1>3. WriteVarU32(v) = [i \in 1..size |-> WriteVarU32(v)[i]]
      BY DEF WriteVarU32
<1> HIDE DEF size
<1>4. QED
      BY <1>2, <1>3, FunctionIsSequence DEF Long

\* What is left of v after i bytes of seven bits.
Left(v, i) == v \div 128^i

\* Of i bytes of seven bits, v needs no more.
Room(v, i) == v < 128^i

\* Each byte takes seven bits; five take all.
LEMMA LeftSteps ==
  ASSUME NEW v \in Nat, v < 2^30
  PROVE  /\ Left(v, 0) = v /\ Left(v, 4) < 16
         /\ \A i \in 0..5 : Left(v, i) \in Nat /\ (Room(v, i) => Left(v, i) = 0)
         /\ \A i \in 1..5 : Left(v, i) = Left(v, i - 1) \div 128
         /\ Room(v, 5)
<1>1. /\ 128^0 = 1 /\ 128^1 = 128 /\ 128^2 = 16384 /\ 128^3 = 2097152 /\ 128^4 = 268435456
      /\ 128^5 = 34359738368 /\ 2^30 = 1073741824
      OBVIOUS
<1>2. /\ Left(v, 0) = v /\ Left(v, 1) = v \div 128 /\ Left(v, 2) = v \div 16384
      /\ Left(v, 3) = v \div 2097152 /\ Left(v, 4) = v \div 268435456
      /\ Left(v, 5) = v \div 34359738368
      BY <1>1 DEF Left
<1>3. v < 1073741824
      BY <1>1
<1>4. Left(v, 0) = v /\ Left(v, 4) < 16 /\ Room(v, 5)
      BY <1>1, <1>2, <1>3 DEF Room
<1>5. ASSUME NEW i \in 0..5 PROVE Left(v, i) \in Nat /\ (Room(v, i) => Left(v, i) = 0)
  <2>1. i = 0 \/ i = 1 \/ i = 2 \/ i = 3 \/ i = 4 \/ i = 5
        OBVIOUS
  <2>2. /\ Room(v, 0) <=> v < 1
        /\ Room(v, 1) <=> v < 128
        /\ Room(v, 2) <=> v < 16384
        /\ Room(v, 3) <=> v < 2097152
        /\ Room(v, 4) <=> v < 268435456
        /\ Room(v, 5) <=> v < 34359738368
        BY <1>1 DEF Room
  <2>3. /\ Left(v, 0) \in Nat /\ (Room(v, 0) => Left(v, 0) = 0)
        /\ Left(v, 1) \in Nat /\ (Room(v, 1) => Left(v, 1) = 0)
        /\ Left(v, 2) \in Nat /\ (Room(v, 2) => Left(v, 2) = 0)
        /\ Left(v, 3) \in Nat /\ (Room(v, 3) => Left(v, 3) = 0)
        /\ Left(v, 4) \in Nat /\ (Room(v, 4) => Left(v, 4) = 0)
        /\ Left(v, 5) \in Nat /\ (Room(v, 5) => Left(v, 5) = 0)
        BY <1>2, <2>2
  <2>4. QED
        BY <2>1, <2>3
<1>6. ASSUME NEW i \in 1..5 PROVE Left(v, i) = Left(v, i - 1) \div 128
  <2>1. i = 1 \/ i = 2 \/ i = 3 \/ i = 4 \/ i = 5
        OBVIOUS
  <2>2. /\ Left(v, 1) = Left(v, 0) \div 128 /\ Left(v, 2) = Left(v, 1) \div 128
        /\ Left(v, 3) = Left(v, 2) \div 128 /\ Left(v, 4) = Left(v, 3) \div 128
        /\ Left(v, 5) = Left(v, 4) \div 128
        BY <1>2
  <2>3. QED
        BY <2>1, <2>2
<1>7. QED
      BY <1>4, <1>5, <1>6

\* Byte i of k of v.
Seven(v, k, i) == (Left(v, i - 1) % 128) + (IF i < k THEN 128 ELSE 0)

\* write_var_u32 writes such bytes, until nothing is left.
LEMMA VarIntWritten ==
  ASSUME NEW v \in Nat, v < 2^30
  PROVE  \E k \in 1..5 : /\ WriteVarU32(v) = [i \in 1..k |-> Seven(v, k, i)]
                         /\ Left(v, k) = 0
<1> DEFINE Fits(n) == (n = 5 \/ Room(v, n)) /\ (n = 1 \/ v >= 128^(n - 1))
           size == CHOOSE n \in 1..5 : Fits(n)
<1>1. Room(v, 5) /\ \A i \in 0..5 : Room(v, i) => Left(v, i) = 0
      BY LeftSteps
<1>2. \E n \in 1..5 : Fits(n)
  <2>1. /\ 128^1 = 128 /\ 128^2 = 16384 /\ 128^3 = 2097152 /\ 128^4 = 268435456
        OBVIOUS
  <2>2. Fits(1) \/ Fits(2) \/ Fits(3) \/ Fits(4) \/ Fits(5)
        BY <2>1 DEF Room
  <2> HIDE DEF Fits
  <2>3. QED
        BY <2>2
<1>3. size \in 1..5 /\ Fits(size)
  <2> HIDE DEF Fits
  <2>1. QED
        BY <1>2
<1>4. WriteVarU32(v) = [i \in 1..size |-> Seven(v, size, i)]
      BY DEF WriteVarU32, Seven, Left, Room
<1> HIDE DEF size
<1>5. Room(v, size)
      BY <1>1, <1>3
<1>6. Left(v, size) = 0
      BY <1>1, <1>3, <1>5
<1>7. QED
      BY <1>3, <1>4, <1>6

\* As many values of byte i as read_var_u32 keeps.
Kept(i) == IF i = 5 THEN 16 ELSE 128

\* A byte of seven bits, with the eighth or without.
LEMMA SevenBits ==
  ASSUME NEW v \in Nat, v < 2^30, NEW k \in 1..5, Left(v, k) = 0, NEW i \in 1..k
  PROVE  /\ Seven(v, k, i) < 128 <=> i = k
         /\ (Seven(v, k, i) % Kept(i)) + 128 * Left(v, i) = Left(v, i - 1)
<1> DEFINE a == Left(v, i - 1)
           b == Left(v, i)
<1>1. a \in Nat /\ b \in Nat /\ b = a \div 128
  <2>1. i - 1 \in 0..5 /\ i \in 0..5 /\ i \in 1..5
        OBVIOUS
  <2>2. QED
        BY <2>1, LeftSteps
<1>2. Seven(v, k, i) = (a % 128) + (IF i < k THEN 128 ELSE 0)
      BY DEF Seven
<1>3. i = k => b = 0
      OBVIOUS
<1>4. i = 5 => a < 16 /\ i = k
  <2>1. i = 5 => i - 1 = 4 /\ i = k
        OBVIOUS
  <2>2. Left(v, 4) < 16
        BY LeftSteps
  <2>3. QED
        BY <2>1, <2>2
<1> HIDE DEF a, b
<1> DEFINE c == Seven(v, k, i)
<1>5. CASE i = k
  <2>1. c = a % 128 /\ b = 0
        BY <1>1, <1>2, <1>3, <1>5
  <2>2. c = a /\ c \in Nat /\ c < 128
        BY <1>1, <2>1
  <2>3. c % Kept(i) = a
        BY <1>1, <1>4, <2>2 DEF Kept
  <2> HIDE DEF c
  <2>4. QED
        BY <1>1, <1>5, <2>1, <2>2, <2>3 DEF a, b, c
<1>6. CASE i # k
  <2>1. c = (a % 128) + 128 /\ i # 5 /\ i < k
        BY <1>1, <1>2, <1>6
  <2> DEFINE r == a % 128
  <2>2. a = 128 * (a \div 128) + (a % 128) /\ a % 128 \in Nat /\ a % 128 < 128
        BY <1>1
  <2>3. a = 128 * b + r /\ r \in Nat /\ r < 128 /\ c = r + 128
        BY <1>1, <2>1, <2>2
  <2>4. Kept(i) = 128
        BY <2>1 DEF Kept
  <2> HIDE DEF r, c
  <2>5. c % 128 = r /\ c >= 128
        BY <2>3
  <2>6. c \in Nat
        BY <2>3
  <2>7. (c % Kept(i)) + 128 * b = a
        BY <1>1, <2>3, <2>5, <2>4
  <2>8. ~(c < 128)
        BY <2>5, <2>6
  <2>9. QED
        BY <1>6, <2>7, <2>8 DEF a, b, c
<1>7. QED
      BY <1>5, <1>6

\* The bytes after at end with byte k, and w is what they leave, from each on.
Sevens(buf, at, k, w) ==
  /\ \A i \in 1..k : buf[at + i] < 128 <=> i = k
  /\ w[k + 1] = 0 /\ \A i \in 1..k : w[i] = (buf[at + i] % Kept(i)) + 128 * w[i + 1]

\* read_var_u32, where the bytes end after k and the loop is known.
LEMMA VarIntLoop ==
  ASSUME NEW buf, NEW at \in Nat, NEW k \in 1..5, at + k <= Len(buf), Len(buf) \in Nat,
         NEW w, Sevens(buf, at, k, w)
  PROVE  ReadVarU32(buf, at) = [value |-> w[1], at |-> at + k]
<1> DEFINE Ends == {n \in 1..5 : at + n <= Len(buf) /\ buf[at + n] < 128}
           size == CHOOSE n \in Ends : \A m \in Ends : n <= m
           G(n, g) == [i \in 1..(n + 1) |->
                         IF i > n THEN 0
                         ELSE (buf[at + i] % Kept(i)) + 128 * g[i + 1]]
           value == CHOOSE g : g = G(size, g)
<1>1. /\ \A i \in 1..k : buf[at + i] < 128 <=> i = k
      /\ w[k + 1] = 0 /\ \A i \in 1..k : w[i] = (buf[at + i] % Kept(i)) + 128 * w[i + 1]
      BY DEF Sevens
<1>2. ReadVarU32(buf, at) = IF Ends = {} THEN NoVarInt ELSE [value |-> value[1], at |-> at + size]
      BY DEF ReadVarU32, Kept
<1>3. k \in Ends /\ \A m \in Ends : k <= m
  <2>1. k \in Ends
        BY <1>1
  <2>2. ASSUME NEW m \in Ends PROVE k <= m
    <3>1. m \in 1..5 /\ buf[at + m] < 128
          OBVIOUS
    <3>2. CASE m < k
      <4>1. m \in 1..k /\ m # k
            BY <3>1, <3>2
      <4>2. QED
            BY <1>1, <3>1, <4>1
    <3>3. QED
          BY <3>1, <3>2
  <2>3. QED
        BY <2>1, <2>2
<1>4. Ends \subseteq Int
      OBVIOUS
<1>5. size = k
  <2> HIDE DEF Ends
  <2>1. size \in Ends /\ \A m \in Ends : size <= m
        BY <1>3
  <2> HIDE DEF size
  <2>2. size <= k /\ k <= size /\ size \in Int /\ k \in Int
        BY <1>3, <1>4, <2>1
  <2>3. QED
        BY <2>2
<1>6. value = CHOOSE g : g = G(k, g)
  <2> HIDE DEF size, G
  <2>1. QED
        BY <1>5
<1> HIDE DEF size, Ends
<1> DEFINE h == [i \in 1..(k + 1) |-> w[i]]
<1>7. h = G(k, h)
  <2>1. ASSUME NEW i \in 1..(k + 1)
        PROVE  h[i] = IF i > k THEN 0
                      ELSE (buf[at + i] % Kept(i)) + 128 * h[i + 1]
    <3>1. CASE i = k + 1
          BY <1>1, <3>1
    <3>2. CASE i # k + 1
      <4>1. i \in 1..k /\ i + 1 \in 1..(k + 1)
            BY <3>2
      <4>2. h[i] = w[i] /\ h[i + 1] = w[i + 1]
            BY <4>1
      <4>3. QED
            BY <1>1, <4>1, <4>2
    <3>3. QED
          BY <3>1, <3>2
  <2>2. h = [i \in 1..(k + 1) |-> h[i]]
        OBVIOUS
  <2> HIDE DEF h
  <2>3. QED
        BY <2>1, <2>2
<1> HIDE DEF h
<1>8. value = G(k, value)
  <2>1. \E g : g = G(k, g)
        BY <1>7
  <2> HIDE DEF G, value
  <2>2. QED
        BY <1>6, <2>1
<1> HIDE DEF value
<1>9. \A g : /\ G(k, g)[k + 1] = 0
             /\ \A i \in 1..k : G(k, g)[i] = (buf[at + i] % Kept(i))
                                               + 128 * g[i + 1]
      OBVIOUS
<1> HIDE DEF G
<1>10. /\ value[k + 1] = 0
       /\ \A i \in 1..k : value[i] = (buf[at + i] % Kept(i)) + 128 * value[i + 1]
       BY <1>8, <1>9
<1> DEFINE e == [i \in 0..k |-> value[(k - i) + 1]]
           g == [i \in 0..k |-> w[(k - i) + 1]]
<1>11. e[0] = g[0]
       BY <1>10, <1>1
<1>12. ASSUME NEW i \in 1..k, e[i - 1] = g[i - 1] PROVE e[i] = g[i]
  <2> DEFINE j == (k - i) + 1
  <2>1. j \in 1..k /\ (k - (i - 1)) + 1 = j + 1 /\ i - 1 \in 0..k /\ i \in 0..k
        OBVIOUS
  <2>2. value[j + 1] = w[j + 1]
        BY <1>12, <2>1
  <2>3. /\ value[j] = (buf[at + j] % Kept(j)) + 128 * value[j + 1]
        /\ w[j] = (buf[at + j] % Kept(j)) + 128 * w[j + 1]
        BY <1>10, <1>1, <2>1
  <2>4. e[i] = value[j] /\ g[i] = w[j]
        BY <2>1
  <2>5. QED
        BY <2>2, <2>3, <2>4
<1>13. e[k] = value[1] /\ g[k] = w[1]
       OBVIOUS
<1> HIDE DEF e, g
<1>14. e[k] = g[k]
  <2>1. k \in Nat /\ \A i \in 1..k : e[i - 1] = g[i - 1] => e[i] = g[i]
        BY <1>12
  <2>2. QED
        BY <1>11, <2>1, SameLoop
<1>15. Ends # {}
       BY <1>3
<1>16. QED
       BY <1>2, <1>5, <1>13, <1>14, <1>15

\* What a read gives is no failure.
LEMMA ReadVarInt ==
  ASSUME NEW v, NEW at, at # 0
  PROVE  [value |-> v, at |-> at] # NoVarInt
<1>1. [value |-> v, at |-> at].at = at /\ NoVarInt.at = 0
      BY DEF NoVarInt
<1>2. QED
      BY <1>1

\* read_var_u32 reads what write_var_u32 wrote.
LEMMA VarIntRead ==
  ASSUME NEW v \in Nat, v < 2^30, NEW buf, NEW at, NEW to, Within(buf, at, to, WriteVarU32(v))
  PROVE  /\ ReadVarU32(buf, at) = [value |-> v, at |-> to] /\ at < to
         /\ ReadVarU32(buf, at) # NoVarInt
<1>1. PICK k \in 1..5 : WriteVarU32(v) = [i \in 1..k |-> Seven(v, k, i)] /\ Left(v, k) = 0
      BY VarIntWritten
<1> DEFINE p == WriteVarU32(v)
<1>2. Len(p) = k /\ \A i \in 1..k : p[i] = Seven(v, k, i)
  <2>1. \A i \in 1..k : p[i] = Seven(v, k, i)
        BY <1>1
  <2>2. p = [i \in 1..k |-> p[i]]
        BY <1>1
  <2> HIDE DEF p
  <2>3. Long(p, k)
        BY <2>2, FunctionIsSequence
  <2>4. QED
        BY <2>1, <2>3 DEF Long
<1> HIDE DEF p
<1>3. /\ Sequence(buf) /\ at \in Nat /\ to \in Nat /\ at <= to /\ to <= Len(buf)
      /\ Len(p) = to - at /\ \A i \in 1..(to - at) : p[i] = buf[at + i]
      BY DEF Within, p
<1>4. Len(buf) \in Nat /\ to = at + k /\ \A i \in 1..k : buf[at + i] = Seven(v, k, i)
      BY <1>2, <1>3, Lengths
<1> DEFINE w == [i \in 1..(k + 1) |-> Left(v, i - 1)]
<1>5. w[k + 1] = 0 /\ w[1] = v
  <2>1. Left(v, 0) = v
        BY LeftSteps
  <2>2. QED
        BY <1>1, <2>1
<1>6. ASSUME NEW i \in 1..k
      PROVE  /\ buf[at + i] < 128 <=> i = k
             /\ w[i] = (buf[at + i] % Kept(i)) + 128 * w[i + 1]
  <2>1. w[i] = Left(v, i - 1) /\ w[i + 1] = Left(v, i)
        OBVIOUS
  <2> HIDE DEF w
  <2>2. buf[at + i] = Seven(v, k, i)
        BY <1>4
  <2>3. /\ Seven(v, k, i) < 128 <=> i = k
        /\ (Seven(v, k, i) % Kept(i)) + 128 * Left(v, i) = Left(v, i - 1)
        BY <1>1, SevenBits
  <2>4. QED
        BY <2>1, <2>2, <2>3
<1> HIDE DEF w
<1>7. ReadVarU32(buf, at) = [value |-> w[1], at |-> at + k]
  <2>1. at + k <= Len(buf)
        BY <1>3, <1>4
  <2>2. at \in Nat /\ Len(buf) \in Nat /\ w[k + 1] = 0
        BY <1>3, <1>4, <1>5
  <2>3. \A i \in 1..k : buf[at + i] < 128 <=> i = k
        BY <1>6
  <2>4. \A i \in 1..k : w[i] = (buf[at + i] % Kept(i)) + 128 * w[i + 1]
        BY <1>6
  <2>5. Sevens(buf, at, k, w)
        BY <2>2, <2>3, <2>4 DEF Sevens
  <2>6. QED
        BY <2>1, <2>2, <2>5, VarIntLoop
<1>8. at < to /\ to # 0
      BY <1>3, <1>4
<1>9. [value |-> v, at |-> to] # NoVarInt
      BY <1>8, ReadVarInt
<1>10. QED
       BY <1>4, <1>5, <1>7, <1>8, <1>9

\* A number of seven bits is a byte.
LEMMA VarIntOne ==
  ASSUME NEW v \in 0..127
  PROVE  WriteVarU32(v) = <<v>>
<1> DEFINE Fits(n) == (n = 5 \/ v < 128^n) /\ (n = 1 \/ v >= 128^(n - 1))
           size == CHOOSE n \in 1..5 : Fits(n)
<1>1. Fits(1)
      OBVIOUS
<1>2. \A n \in 2..5 : ~Fits(n)
  <2>1. /\ 128^1 = 128 /\ 128^2 = 16384 /\ 128^3 = 2097152 /\ 128^4 = 268435456
        OBVIOUS
  <2>2. ~Fits(2) /\ ~Fits(3) /\ ~Fits(4) /\ ~Fits(5)
        BY <2>1
  <2> HIDE DEF Fits
  <2>3. \A n \in 2..5 : n = 2 \/ n = 3 \/ n = 4 \/ n = 5
        OBVIOUS
  <2>4. QED
        BY <2>2, <2>3
<1>3. size = 1
  <2> HIDE DEF Fits
  <2>1. size \in 1..5 /\ Fits(size)
        BY <1>1
  <2> HIDE DEF size
  <2>2. QED
        BY <1>2, <2>1
<1>4. WriteVarU32(v) = [i \in 1..size |->
                            ((v \div 128^(i - 1)) % 128) + (IF i < size THEN 128 ELSE 0)]
      BY DEF WriteVarU32
<1> HIDE DEF size
<1>5. WriteVarU32(v) = [i \in 1..1 |-> ((v \div 128^(i - 1)) % 128) + (IF i < 1 THEN 128 ELSE 0)]
      BY <1>3, <1>4
<1> DEFINE w == WriteVarU32(v)
<1>6. w[1] = v
  <2>1. w[1] = ((v \div 128^(1 - 1)) % 128) + 0
        BY <1>5
  <2>2. 128^(1 - 1) = 1 /\ v \div 1 = v /\ v % 128 = v
        OBVIOUS
  <2>3. QED
        BY <2>1, <2>2
<1>7. Long(w, 1)
  <2>1. w = [i \in 1..1 |-> w[i]]
        BY <1>5
  <2> HIDE DEF w
  <2>2. QED
        BY <2>1, FunctionIsSequence
<1> HIDE DEF w
<1>8. Long(<<v>>, 1) /\ <<v>>[1] = v
      BY OneSequence
<1>9. w = <<v>>
  <2>1. \A i \in 1..1 : w[i] = <<v>>[i]
        BY <1>6, <1>8
  <2>2. QED
        BY <1>7, <1>8, <2>1, SameSequence
<1>10. QED
       BY <1>9 DEF w

(***************************************************************************)
(* Frames                                                                  *)
(***************************************************************************)
\* A frame of ReliableOrdered, whole or a part.
IsFrame(f, body) ==
  \E reliable, order, split :
    /\ f = Frame(ReliableOrdered, reliable, 0, order, split, body)
    /\ split = <<>> \/ \E count, id, index : split = <<count, id, index>>

\* The bytes of a frame before its payload.
HeaderLen(f) == IF f.split = <<>> THEN 10 ELSE 20

\* One number of 24 bits is its three bytes.
LEMMA U24OneIs ==
  ASSUME NEW v
  PROVE  U24s(<<v>>) = LE(3, v)
<1> DEFINE p == [i \in DOMAIN <<v>> |-> LE(3, <<v>>[i])]
<1>1. DOMAIN <<v>> = 1..1 /\ <<v>>[1] = v
      OBVIOUS
<1>2. Len(p) = 1 /\ p[1] = LE(3, v)
  <2>1. p = [i \in 1..1 |-> LE(3, <<v>>[i])]
        BY <1>1
  <2>2. Len([i \in 1..1 |-> LE(3, <<v>>[i])]) = 1
        OBVIOUS
  <2>3. p[1] = LE(3, v)
        BY <1>1
  <2>4. QED
        BY <2>1, <2>2, <2>3
<1>3. U24s(<<v>>) = FlattenSeq(p)
      BY DEF U24s
<1> HIDE DEF p
<1>4. QED
      BY <1>2, <1>3, FlattenOne

\* One number of 24 bits.
LEMMA U24One ==
  ASSUME NEW v
  PROVE  Long(U24s(<<v>>), 3)
BY U24OneIs, BytesOfNumber

\* No number of 24 bits.
LEMMA U24None == U24s(<<>>) = <<>>
<1>1. DOMAIN <<>> = {}
      OBVIOUS
<1>2. [i \in DOMAIN <<>> |-> LE(3, <<>>[i])] = <<>>
      BY <1>1
<1>3. QED
      BY <1>2, EmptySequence DEF U24s, FlattenSeq

\* A frame is its header and its body.
LEMMA FrameLength ==
  ASSUME NEW f, NEW body, Sequence(body), IsFrame(f, body)
  PROVE  Long(EncodeFrame(f), HeaderLen(f) + Len(body))
<1>1. PICK reliable, order, split :
        /\ f = Frame(ReliableOrdered, reliable, 0, order, split, body)
        /\ split = <<>> \/ \E count, id, index : split = <<count, id, index>>
      BY DEF IsFrame
<1>2. /\ f.reliability = 3 /\ f.reliable = <<reliable>> /\ f.sequence = <<>>
      /\ f.order = <<order>> /\ f.split = split /\ f.body = body
      BY <1>1 DEF Frame, ReliableOrdered, IsReliable, IsSequenced, IsOrdered
<1> DEFINE a == <<f.reliability + (IF f.split # <<>> THEN 16 ELSE 0)>>
           b == BE(2, (8 * Len(f.body)) % 2^16)
           c == U24s(f.reliable)
           d == U24s(f.sequence)
           e == U24s(f.order)
           g == IF IsOrdered(f.reliability) THEN <<0>> ELSE <<>>
           h1 == BE(4, f.split[1])
           h2 == BE(2, f.split[2])
           h3 == BE(4, f.split[3])
           h == IF f.split # <<>> THEN h1 \o h2 \o h3 ELSE <<>>
<1>3. EncodeFrame(f) = a \o b \o c \o d \o e \o g \o h \o f.body
      BY DEF EncodeFrame
<1>4. Long(a, 1)
      BY OneSequence
<1>5. Long(b, 2)
      BY BytesOfNumber
<1>6. Long(c, 3) /\ Long(e, 3)
      BY <1>2, U24One
<1>7. Long(d, 0)
      BY <1>2, U24None, EmptySequence
<1>8. Long(g, 1)
      BY <1>2, OneSequence DEF IsOrdered
<1>9. Long(h, HeaderLen(f) - 10) /\ HeaderLen(f) - 10 \in Nat
  <2>1. Long(h1, 4) /\ Long(h2, 2) /\ Long(h3, 4)
        BY BytesOfNumber
  <2> HIDE DEF h1, h2, h3
  <2>2. Long(h1 \o h2, 6)
        BY <2>1, ConcatLong
  <2>3. Long(h1 \o h2 \o h3, 10)
        BY <2>1, <2>2, ConcatLong
  <2>4. QED
        BY <2>3, EmptySequence DEF HeaderLen
<1>10. Long(f.body, Len(body)) /\ Len(body) \in Nat /\ HeaderLen(f) \in Nat
       BY <1>2, Lengths DEF HeaderLen, Long
<1> HIDE DEF a, b, c, d, e, g, h
<1>11. Long(a \o b, 3)
       BY <1>4, <1>5, ConcatLong
<1>12. Long(a \o b \o c, 6)
       BY <1>6, <1>11, ConcatLong
<1>13. Long(a \o b \o c \o d, 6)
       BY <1>7, <1>12, ConcatLong
<1>14. Long(a \o b \o c \o d \o e, 9)
       BY <1>6, <1>13, ConcatLong
<1>15. Long(a \o b \o c \o d \o e \o g, 10)
       BY <1>8, <1>14, ConcatLong
<1>16. Long(a \o b \o c \o d \o e \o g \o h, 10 + (HeaderLen(f) - 10))
       BY <1>9, <1>10, <1>15, ConcatLong
<1>17. QED
       BY <1>3, <1>10, <1>16, ConcatLong

\* A frame of ReliableOrdered whose fields have room: f is whole or a part.
Fields(f, reliable, order, split, body) ==
  /\ f = Frame(ReliableOrdered, reliable, 0, order, split, body)
  /\ reliable \in 0..(2^24 - 1) /\ order \in 0..(2^24 - 1)
  /\ Sequence(body) /\ Len(body) < 2^13

IsWhole(f) == \E reliable, order, body : Fields(f, reliable, order, <<>>, body)

IsPart(f) ==
  \E reliable, order, body : \E count, index \in 0..(2^32 - 1), id \in 0..(2^16 - 1) :
    Fields(f, reliable, order, <<count, id, index>>, body)

\* Three things are not nothing.
LEMMA SplitIsSome ==
  ASSUME NEW count, NEW id, NEW index, NEW split, split = <<count, id, index>>
  PROVE  /\ split # <<>> /\ split[1] = count /\ split[2] = id /\ split[3] = index
<1>1. Len(<<count, id, index>>) = 3 /\ Len(<<>>) = 0
      OBVIOUS
<1>2. QED
      BY <1>1

\* The header of every frame, up to its split, and its fields.
LEMMA HeaderWritten ==
  ASSUME NEW flags, NEW length, NEW reliable, NEW order, NEW s,
         s = <<flags>> \o BE(2, length) \o U24s(<<reliable>>) \o U24s(<<>>)
               \o U24s(<<order>>) \o << 0 >>
  PROVE  /\ Long(s, 10) /\ Within(s, 0, 1, <<flags>>) /\ Within(s, 1, 3, BE(2, length))
         /\ Within(s, 3, 6, LE(3, reliable)) /\ Within(s, 6, 9, LE(3, order))
<1> DEFINE a == <<flags>>
           b == BE(2, length)
           c == LE(3, reliable)
           e == LE(3, order)
           g == << 0 >>
<1>1. Long(a, 1) /\ Long(b, 2) /\ Long(c, 3) /\ Long(e, 3) /\ Long(g, 1)
      BY OneSequence, BytesOfNumber
<1>2. U24s(<<reliable>>) = c /\ U24s(<<order>>) = e /\ U24s(<<>>) = <<>>
      BY U24OneIs, U24None
<1>3. s = a \o b \o c \o <<>> \o e \o g
      BY <1>2
<1> HIDE DEF a, b, c, e, g
<1>4. Within(a, 0, 1, a)
      BY <1>1, WithinAll
<1>5. Within(a \o b, 1, 3, b) /\ Long(a \o b, 3)
      BY <1>1, WithinEnd
<1>6. Within(a \o b, 0, 1, a)
      BY <1>1, <1>4, WithinOn DEF Long
<1>7. Within(a \o b \o c, 3, 6, c) /\ Long(a \o b \o c, 6)
      BY <1>1, <1>5, WithinEnd
<1>8. Within(a \o b \o c, 0, 1, a) /\ Within(a \o b \o c, 1, 3, b)
      BY <1>1, <1>5, <1>6, WithinOn DEF Long
<1> DEFINE h == a \o b \o c
<1>9. h \o <<>> = h
  <2>1. PICK S : h \in Seq(S)
        BY <1>7 DEF Long, Sequence
  <2> HIDE DEF h
  <2>2. QED
        BY <2>1
<1>10. s = h \o e \o g
       BY <1>3, <1>9
<1>11. /\ Long(h, 6) /\ Within(h, 0, 1, a) /\ Within(h, 1, 3, b) /\ Within(h, 3, 6, c)
       BY <1>7, <1>8
<1> HIDE DEF h
<1>12. Within(h \o e, 6, 9, e) /\ Long(h \o e, 9)
       BY <1>1, <1>11, WithinEnd
<1>13. Within(h \o e, 0, 1, a) /\ Within(h \o e, 1, 3, b) /\ Within(h \o e, 3, 6, c)
       BY <1>1, <1>11, WithinOn DEF Long
<1>14. Long(s, 10)
  <2>1. Long((h \o e) \o g, 10)
        BY <1>1, <1>12, ConcatLong
  <2>2. QED
        BY <1>10, <2>1
<1>15. /\ Within(s, 0, 1, a) /\ Within(s, 1, 3, b) /\ Within(s, 3, 6, c) /\ Within(s, 6, 9, e)
       BY <1>1, <1>10, <1>12, <1>13, WithinOn DEF Long
<1>16. QED
       BY <1>14, <1>15 DEF a, b, c, e

\* The fields of a split.
LEMMA SplitWritten ==
  ASSUME NEW count, NEW id, NEW index, NEW s, s = BE(4, count) \o BE(2, id) \o BE(4, index)
  PROVE  /\ Long(s, 10) /\ Within(s, 0, 4, BE(4, count)) /\ Within(s, 4, 6, BE(2, id))
         /\ Within(s, 6, 10, BE(4, index))
<1> DEFINE a == BE(4, count)
           b == BE(2, id)
           c == BE(4, index)
<1>1. Long(a, 4) /\ Long(b, 2) /\ Long(c, 4)
      BY BytesOfNumber
<1>2. s = a \o b \o c
      OBVIOUS
<1> HIDE DEF a, b, c
<1>3. Within(a, 0, 4, a)
      BY <1>1, WithinAll
<1>4. Within(a \o b, 4, 6, b) /\ Long(a \o b, 6)
      BY <1>1, WithinEnd
<1>5. Within(a \o b, 0, 4, a)
      BY <1>1, <1>3, WithinOn DEF Long
<1>6. Within(s, 6, 10, c) /\ Long(s, 10)
  <2>1. Within((a \o b) \o c, 6, 10, c) /\ Long((a \o b) \o c, 10)
        BY <1>1, <1>4, WithinEnd
  <2>2. QED
        BY <1>2, <2>1
<1>7. Within(s, 0, 4, a) /\ Within(s, 4, 6, b)
      BY <1>1, <1>2, <1>4, <1>5, WithinOn DEF Long
<1>8. QED
      BY <1>6, <1>7 DEF a, b, c

\* The length that a frame has, in bits, and its number of 16 bits.
InBits(n) == (8 * n) % 2^16

\* It is read as that of the body.
LEMMA LengthInBits ==
  ASSUME NEW n \in Nat, n < 2^13
  PROVE  InBits(n) \in 0..(2^16 - 1) /\ (InBits(n) + 7) \div 8 = n
<1>1. 2^13 = 8192 /\ 2^16 = 65536
      OBVIOUS
<1>2. 8 * n \in Nat /\ 8 * n < 65536
      BY <1>1
<1>3. (8 * n) % 65536 = 8 * n
      BY <1>2
<1>4. InBits(n) = 8 * n
      BY <1>1, <1>3 DEF InBits
<1>5. (8 * n + 7) \div 8 = n
      OBVIOUS
<1>6. 8 * n \in 0..(2^16 - 1)
      BY <1>1, <1>2
<1>7. QED
      BY <1>4, <1>5, <1>6

\* What a frame has.
LEMMA FrameFields ==
  ASSUME NEW f, NEW reliable, NEW order, NEW split, NEW body,
         f = Frame(ReliableOrdered, reliable, 0, order, split, body)
  PROVE  /\ f.reliability = 3 /\ f.reliable = <<reliable>> /\ f.sequence = <<>>
         /\ f.order = <<order>> /\ f.split = split /\ f.body = body
BY DEF Frame, ReliableOrdered, IsReliable, IsSequenced, IsOrdered

\* decode_frame, at a header whose fields are known, of a frame that is whole.
LEMMA WholeRead ==
  ASSUME NEW f, IsWhole(f), NEW buf, NEW at, NEW to, Within(buf, at, to, EncodeFrame(f))
  PROVE  DecodeFrame(buf, at) = [frame |-> f, at |-> to] /\ at < to
<1>1. PICK reliable, order, body : Fields(f, reliable, order, <<>>, body)
      BY DEF IsWhole
<1> DEFINE n == Len(body)
           length == InBits(n)
           h == <<3>> \o BE(2, length) \o U24s(<<reliable>>) \o U24s(<<>>)
                  \o U24s(<<order>>) \o <<0>>
<1>2. /\ f.reliability = 3 /\ f.reliable = <<reliable>> /\ f.sequence = <<>>
      /\ f.order = <<order>> /\ f.split = <<>> /\ f.body = body
      BY <1>1, FrameFields DEF Fields
<1>3. EncodeFrame(f) = h \o <<>> \o body
      BY <1>2 DEF EncodeFrame, IsOrdered, InBits
<1>4. /\ Long(h, 10) /\ Within(h, 0, 1, <<3>>) /\ Within(h, 1, 3, BE(2, length))
      /\ Within(h, 3, 6, LE(3, reliable)) /\ Within(h, 6, 9, LE(3, order))
      BY HeaderWritten
<1>5. Long(body, n) /\ n \in Nat /\ n < 2^13
      BY <1>1, Lengths DEF Fields, Long
<1> HIDE DEF n
<1>6. length \in 0..(2^16 - 1) /\ (length + 7) \div 8 = n
      BY <1>5, LengthInBits
<1>7. FromBE(BE(2, length)) = length
  <2> HIDE DEF length
  <2>1. QED
        BY <1>6, BytesRead
<1>8. FromLE(LE(3, reliable)) = reliable /\ FromLE(LE(3, order)) = order
      BY <1>1, BytesRead DEF Fields
<1>9. h \o <<>> = h
  <2>1. PICK S : h \in Seq(S)
        BY <1>4 DEF Long, Sequence
  <2> HIDE DEF h
  <2>2. QED
        BY <2>1
<1> HIDE DEF h, length
<1> DEFINE w == h \o body
<1>10. Within(w, 10, 10 + n, body) /\ Long(w, 10 + n)
  <2>1. 10 + n \in Nat
        BY <1>5
  <2>2. QED
        BY <1>4, <1>5, <2>1, WithinEnd
<1>11. /\ Within(w, 0, 1, <<3>>) /\ Within(w, 1, 3, BE(2, length))
       /\ Within(w, 3, 6, LE(3, reliable)) /\ Within(w, 6, 9, LE(3, order))
       BY <1>4, <1>5, WithinOn DEF Long
<1>12. Within(buf, at, to, w)
       BY <1>3, <1>9
<1> HIDE DEF w
<1>13. /\ at \in Nat /\ to \in Nat /\ to <= Len(buf) /\ Len(buf) \in Nat /\ to = at + (10 + n)
       BY <1>5, <1>10, <1>12, Lengths DEF Within, Long
<1>14. /\ Within(buf, at + 0, at + 1, <<3>>) /\ Within(buf, at + 1, at + 3, BE(2, length))
       /\ Within(buf, at + 3, at + 6, LE(3, reliable)) /\ Within(buf, at + 6, at + 9, LE(3, order))
       /\ Within(buf, at + 10, at + (10 + n), body)
       BY <1>10, <1>11, <1>12, WithinPart
<1>15. buf[at + 1] = 3
  <2>1. <<3>>[1] = 3 /\ at + 0 = at /\ at < at + 1
        BY <1>13
  <2>2. QED
        BY <1>14, <2>1, WithinFirst
<1>16. /\ Slice(buf, at + 1, at + 3) = BE(2, length)
       /\ Slice(buf, at + 3, at + 6) = LE(3, reliable)
       /\ Slice(buf, at + 6, at + 9) = LE(3, order)
       /\ Slice(buf, at + 10, to) = body
       BY <1>13, <1>14, WithinSlice
<1> DEFINE seq == at + 3 + 3
           end == at + 10 + (FromBE(Slice(buf, at + 1, at + 3)) + 7) \div 8
<1>17. end = to /\ ~(end > Len(buf)) /\ ~(at + 3 > Len(buf))
  <2> DEFINE y == (length + 7) \div 8
  <2>1. FromBE(Slice(buf, at + 1, at + 3)) = length
        BY <1>7, <1>16
  <2>2. end = at + 10 + y
        BY <2>1
  <2>3. y = n
        BY <1>6
  <2> HIDE DEF y, end
  <2>4. QED
        BY <1>5, <1>13, <2>2, <2>3
<1>18. 3 % 8 = 3 /\ (3 \div 16) % 2 = 0 /\ 3 \in Reliability
       BY DEF Reliability
<1>19. IsReliable(3) /\ ~IsSequenced(3) /\ IsOrdered(3)
       BY DEF IsReliable, IsSequenced, IsOrdered
<1>20. DecodeFrame(buf, at)
         = [frame |-> Frame(3, reliable, FromLE(Slice(buf, at + 6, at + 9)), order, <<>>, body),
            at |-> to]
  <2>1. at + 3 + 3 = at + 6 /\ at + 6 + 0 = at + 6 /\ at + 6 + 4 = at + 10 /\ at + 10 + 0 = at + 10
        /\ at + 6 + 3 = at + 9
        BY <1>13
  <2> HIDE DEF end
  <2>2. QED
        BY <1>8, <1>15, <1>16, <1>17, <1>18, <1>19, <2>1 DEF DecodeFrame, end
<1>21. Frame(3, reliable, FromLE(Slice(buf, at + 6, at + 9)), order, <<>>, body) = f
       BY <1>1, <1>19 DEF Fields, Frame, ReliableOrdered
<1>22. QED
       BY <1>5, <1>13, <1>20, <1>21

\* decode_frame, of a frame that is a part.
LEMMA PartRead ==
  ASSUME NEW f, IsPart(f), NEW buf, NEW at, NEW to, Within(buf, at, to, EncodeFrame(f))
  PROVE  DecodeFrame(buf, at) = [frame |-> f, at |-> to] /\ at < to
<1>1. PICK reliable, order, body :
             \E count, index \in 0..(2^32 - 1), id \in 0..(2^16 - 1) :
               Fields(f, reliable, order, <<count, id, index>>, body)
      BY DEF IsPart
<1>2. PICK count \in 0..(2^32 - 1), index \in 0..(2^32 - 1), id \in 0..(2^16 - 1) :
        Fields(f, reliable, order, <<count, id, index>>, body)
      BY <1>1
<1> DEFINE n == Len(body)
           length == InBits(n)
           split == <<count, id, index>>
           h == <<19>> \o BE(2, length) \o U24s(<<reliable>>) \o U24s(<<>>)
                  \o U24s(<<order>>) \o <<0>>
           g == BE(4, count) \o BE(2, id) \o BE(4, index)
<1>3. /\ f.reliability = 3 /\ f.reliable = <<reliable>> /\ f.sequence = <<>>
      /\ f.order = <<order>> /\ f.split = split /\ f.body = body
      BY <1>2, FrameFields DEF Fields
<1>4. split # <<>> /\ split[1] = count /\ split[2] = id /\ split[3] = index
      BY SplitIsSome
<1>5. f = Frame(ReliableOrdered, reliable, 0, order, split, body)
      BY <1>2 DEF Fields
<1> HIDE DEF split
<1>6. EncodeFrame(f) = h \o g \o body
  <2>1. f.reliability + 16 = 19 /\ IsOrdered(f.reliability) /\ f.split # <<>>
        BY <1>3, <1>4 DEF IsOrdered
  <2>2. BE(4, f.split[1]) \o BE(2, f.split[2]) \o BE(4, f.split[3]) = g
        BY <1>3, <1>4
  <2>3. BE(2, (8 * Len(f.body)) % 2^16) = BE(2, length)
        BY <1>3 DEF InBits
  <2>4. EncodeFrame(f) = <<f.reliability + 16>> \o BE(2, (8 * Len(f.body)) % 2^16)
                           \o U24s(f.reliable) \o U24s(f.sequence) \o U24s(f.order) \o <<0>>
                           \o (BE(4, f.split[1]) \o BE(2, f.split[2]) \o BE(4, f.split[3]))
                           \o f.body
        BY <2>1 DEF EncodeFrame
  <2>5. f.reliability + 16 = 19
        BY <2>1
  <2> HIDE DEF g, length
  <2>6. QED
        BY <1>3, <2>2, <2>3, <2>4, <2>5
<1>7. /\ Long(h, 10) /\ Within(h, 0, 1, <<19>>) /\ Within(h, 1, 3, BE(2, length))
      /\ Within(h, 3, 6, LE(3, reliable)) /\ Within(h, 6, 9, LE(3, order))
      BY HeaderWritten
<1>8. /\ Long(g, 10) /\ Within(g, 0, 4, BE(4, count)) /\ Within(g, 4, 6, BE(2, id))
      /\ Within(g, 6, 10, BE(4, index))
      BY SplitWritten
<1>9. Long(body, n) /\ n \in Nat /\ n < 2^13
      BY <1>2, Lengths DEF Fields, Long
<1> HIDE DEF n
<1>10. length \in 0..(2^16 - 1) /\ (length + 7) \div 8 = n
       BY <1>9, LengthInBits
<1>11. FromBE(BE(2, length)) = length
  <2> HIDE DEF length
  <2>1. QED
        BY <1>10, BytesRead
<1>12. FromLE(LE(3, reliable)) = reliable /\ FromLE(LE(3, order)) = order
       BY <1>2, BytesRead DEF Fields
<1>13. FromBE(BE(4, count)) = count /\ FromBE(BE(2, id)) = id /\ FromBE(BE(4, index)) = index
       BY BytesRead
<1> HIDE DEF h, length, g
<1> DEFINE w == h \o g
<1>14. Within(w, 10, 20, g) /\ Long(w, 20)
       BY <1>7, <1>8, WithinEnd
<1>15. /\ Within(w, 0, 1, <<19>>) /\ Within(w, 1, 3, BE(2, length))
       /\ Within(w, 3, 6, LE(3, reliable)) /\ Within(w, 6, 9, LE(3, order))
       BY <1>7, <1>8, WithinOn DEF Long
<1>16. EncodeFrame(f) = w \o body
       BY <1>6
<1> HIDE DEF w
<1>17. Within(w \o body, 20, 20 + n, body) /\ Long(w \o body, 20 + n)
  <2>1. 20 + n \in Nat
        BY <1>9
  <2>2. QED
        BY <1>9, <1>14, <2>1, WithinEnd
<1> DEFINE e == w \o body
<1>18. /\ Within(e, 0, 1, <<19>>) /\ Within(e, 1, 3, BE(2, length))
       /\ Within(e, 3, 6, LE(3, reliable)) /\ Within(e, 6, 9, LE(3, order))
       /\ Within(e, 10, 20, g)
       BY <1>9, <1>14, <1>15, WithinOn DEF Long
<1>19. Within(buf, at, to, e) /\ Within(e, 20, 20 + n, body) /\ Long(e, 20 + n)
       BY <1>16, <1>17
<1> HIDE DEF e
<1>20. /\ at \in Nat /\ to \in Nat /\ to <= Len(buf) /\ Len(buf) \in Nat /\ to = at + (20 + n)
       BY <1>9, <1>19, Lengths DEF Within, Long
<1>21. /\ Within(buf, at + 0, at + 1, <<19>>) /\ Within(buf, at + 1, at + 3, BE(2, length))
       /\ Within(buf, at + 3, at + 6, LE(3, reliable)) /\ Within(buf, at + 6, at + 9, LE(3, order))
       /\ Within(buf, at + 10, at + 20, g) /\ Within(buf, at + 20, at + (20 + n), body)
       BY <1>18, <1>19, WithinPart
<1>22. /\ Within(buf, (at + 10) + 0, (at + 10) + 4, BE(4, count))
       /\ Within(buf, (at + 10) + 4, (at + 10) + 6, BE(2, id))
       /\ Within(buf, (at + 10) + 6, (at + 10) + 10, BE(4, index))
       BY <1>8, <1>21, WithinPart
<1>23. buf[at + 1] = 19
  <2>1. <<19>>[1] = 19 /\ at + 0 = at /\ at < at + 1
        BY <1>20
  <2>2. QED
        BY <1>21, <2>1, WithinFirst
<1>24. /\ Slice(buf, at + 1, at + 3) = BE(2, length)
       /\ Slice(buf, at + 3, at + 6) = LE(3, reliable)
       /\ Slice(buf, at + 6, at + 9) = LE(3, order)
       /\ Slice(buf, at + 20, to) = body
       BY <1>20, <1>21, WithinSlice
<1>25. /\ Slice(buf, at + 10, at + 14) = BE(4, count)
       /\ Slice(buf, at + 14, at + 16) = BE(2, id)
       /\ Slice(buf, at + 16, at + 20) = BE(4, index)
  <2>1. /\ (at + 10) + 0 = at + 10 /\ (at + 10) + 4 = at + 14 /\ (at + 10) + 6 = at + 16
        /\ (at + 10) + 10 = at + 20
        BY <1>20
  <2>2. QED
        BY <1>22, <2>1, WithinSlice
<1> DEFINE end == at + 20 + (FromBE(Slice(buf, at + 1, at + 3)) + 7) \div 8
<1>26. end = to /\ ~(end > Len(buf)) /\ ~(at + 3 > Len(buf))
  <2>1. FromBE(Slice(buf, at + 1, at + 3)) = length
        BY <1>11, <1>24
  <2>2. end = at + 20 + (length + 7) \div 8
        BY <2>1
  <2>3. end = at + 20 + n
        BY <1>10, <2>2
  <2> HIDE DEF end
  <2>4. QED
        BY <1>9, <1>20, <2>3
<1>27. 19 % 8 = 3 /\ (19 \div 16) % 2 = 1 /\ 3 \in Reliability
       BY DEF Reliability
<1>28. IsReliable(3) /\ ~IsSequenced(3) /\ IsOrdered(3)
       BY DEF IsReliable, IsSequenced, IsOrdered
<1>29. DecodeFrame(buf, at)
         = [frame |-> Frame(3, reliable, FromLE(Slice(buf, at + 6, at + 9)), order, split, body),
            at |-> to]
  <2>1. /\ at + 3 + 3 = at + 6 /\ at + 6 + 0 = at + 6 /\ at + 6 + 4 = at + 10
        /\ at + 10 + 10 = at + 20 /\ at + 6 + 3 = at + 9
        /\ at + 10 + 4 = at + 14 /\ at + 10 + 6 = at + 16
        BY <1>20
  <2>2. split = <<FromBE(Slice(buf, at + 10, at + 14)), FromBE(Slice(buf, at + 14, at + 16)),
                  FromBE(Slice(buf, at + 16, at + 20))>>
        BY <1>13, <1>25 DEF split
  <2> HIDE DEF end
  <2>3. QED
        BY <1>12, <1>23, <1>24, <1>26, <1>27, <1>28, <2>1, <2>2 DEF DecodeFrame, end
<1>30. Frame(3, reliable, FromLE(Slice(buf, at + 6, at + 9)), order, split, body) = f
       BY <1>5, <1>28 DEF Frame, ReliableOrdered
<1>31. QED
       BY <1>9, <1>20, <1>29, <1>30

\* A frame that a datagram can carry, and be read of it.
Readable(f) == IsWhole(f) \/ IsPart(f)

\* decode_frame reads what encode_frame wrote.
LEMMA FrameRead ==
  ASSUME NEW f, Readable(f), NEW buf, NEW at, NEW to, Within(buf, at, to, EncodeFrame(f))
  PROVE  /\ DecodeFrame(buf, at) = [frame |-> f, at |-> to] /\ at < to
         /\ DecodeFrame(buf, at) # NoPacket
<1>1. DecodeFrame(buf, at) = [frame |-> f, at |-> to] /\ at < to
      BY WholeRead, PartRead DEF Readable
<1>2. [frame |-> f, at |-> to] # NoPacket
  <2>1. DOMAIN [frame |-> f, at |-> to] = {"frame", "at"} /\ DOMAIN NoPacket = {"failed"}
        BY DEF NoPacket
  <2>2. "at" \notin {"failed"}
        OBVIOUS
  <2>3. QED
        BY <2>1, <2>2
<1>3. QED
      BY <1>1, <1>2

(***************************************************************************)
(* Datagrams                                                               *)
(***************************************************************************)
\* Frames of a set, in a sequence of at least one.
FramesOf(F) == Seq(F) \ {<<>>}

\* The length of a datagram of one frame.
LEMMA DatagramOfOne ==
  ASSUME NEW number, NEW f, Sequence(EncodeFrame(f)), NEW d,
         d = [number |-> number, frames |-> <<f>>]
  PROVE  Long(EncodeDatagram(d), 4 + Len(EncodeFrame(f)))
<1> DEFINE p == [i \in DOMAIN d.frames |-> EncodeFrame(d.frames[i])]
           a == <<FrameSetStart>>
           b == LE(3, d.number)
<1>1. DOMAIN <<f>> = 1..1 /\ <<f>>[1] = f
      OBVIOUS
<1>2. Len(p) = 1 /\ p[1] = EncodeFrame(f)
  <2>1. p = [i \in 1..1 |-> EncodeFrame(<<f>>[i])]
        BY <1>1
  <2>2. Len([i \in 1..1 |-> EncodeFrame(<<f>>[i])]) = 1
        OBVIOUS
  <2>3. p[1] = EncodeFrame(f)
        BY <1>1
  <2>4. QED
        BY <2>1, <2>2, <2>3
<1>3. EncodeDatagram(d) = a \o b \o FlattenSeq(p)
      BY DEF EncodeDatagram
<1>4. Long(a, 1) /\ Long(b, 3)
      BY OneSequence, BytesOfNumber
<1> HIDE DEF p, a, b
<1>5. FlattenSeq(p) = EncodeFrame(f)
      BY <1>2, FlattenOne
<1>6. Long(a \o b, 4)
      BY <1>4, ConcatLong
<1>7. QED
  <2>1. Long(EncodeFrame(f), Len(EncodeFrame(f))) /\ Len(EncodeFrame(f)) \in Nat
        BY Lengths DEF Long
  <2> DEFINE y == Len(EncodeFrame(f))
  <2>2. y \in Nat /\ 4 + y \in Nat
        BY <2>1
  <2> HIDE DEF y
  <2>3. Long((a \o b) \o EncodeFrame(f), 4 + y)
        BY <1>6, <2>1, <2>2, ConcatLong DEF y
  <2>4. QED
        BY <1>3, <1>5, <2>3 DEF y

\* A frame more makes it longer by that frame.
LEMMA DatagramGrows ==
  ASSUME NEW F, \A f \in F : Sequence(EncodeFrame(f)),
         NEW d, d.frames \in FramesOf(F), NEW f \in F, NEW e,
         e.number = d.number, e.frames = Append(d.frames, f)
  PROVE  /\ Sequence(EncodeDatagram(e))
         /\ Len(EncodeDatagram(e)) = Len(EncodeDatagram(d)) + Len(EncodeFrame(f))
<1> DEFINE p == [i \in DOMAIN d.frames |-> EncodeFrame(d.frames[i])]
           q == [i \in DOMAIN e.frames |-> EncodeFrame(e.frames[i])]
           a == <<FrameSetStart>>
           b == LE(3, d.number)
           n == Len(d.frames)
<1>1. /\ n \in Nat \ {0} /\ DOMAIN d.frames = 1..n
      /\ \A i \in 1..n : d.frames[i] \in F
      BY LenProperties, EmptySeq, ElementOfSeq DEF FramesOf
<1>2. /\ Len(e.frames) = n + 1 /\ DOMAIN e.frames = 1..(n + 1)
      /\ \A i \in 1..n : e.frames[i] = d.frames[i]
      /\ e.frames[n + 1] = f
  <2>1. d.frames \in Seq(F)
        BY DEF FramesOf
  <2>2. /\ e.frames \in Seq(F) /\ Len(e.frames) = n + 1
        /\ \A i \in 1..n : e.frames[i] = d.frames[i]
        /\ e.frames[n + 1] = f
        BY <2>1, AppendProperties
  <2>3. QED
        BY <2>2, LenProperties
<1>3. /\ Len(p) = n /\ \A i \in 1..n : p[i] = EncodeFrame(d.frames[i])
      BY <1>1
<1>4. /\ Len(q) = n + 1 /\ \A i \in 1..(n + 1) : q[i] = EncodeFrame(e.frames[i])
      BY <1>1, <1>2
<1>5. EncodeDatagram(d) = a \o b \o FlattenSeq(p) /\ EncodeDatagram(e) = a \o b \o FlattenSeq(q)
      BY DEF EncodeDatagram
<1>6. Long(a, 1) /\ Long(b, 3)
      BY OneSequence, BytesOfNumber
<1> HIDE DEF p, q, a, b, n
<1>7. FlattenSeq(q) = FlattenSeq(p) \o EncodeFrame(f)
  <2>1. Len(p) \in Nat \ {0} /\ Len(q) = Len(p) + 1 /\ \A i \in 1..Len(p) : q[i] = p[i]
        BY <1>1, <1>2, <1>3, <1>4
  <2>2. FlattenSeq(q) = FlattenSeq(p) \o q[Len(q)]
        BY <2>1, FlattenAppend
  <2>3. q[Len(q)] = EncodeFrame(f)
        BY <1>1, <1>2, <1>4
  <2>4. QED
        BY <2>2, <2>3
<1>8. Sequence(FlattenSeq(p)) /\ Sequence(EncodeFrame(f))
  <2>1. Len(p) \in Nat \ {0} /\ \A i \in 1..Len(p) : Sequence(p[i])
        BY <1>1, <1>3
  <2>2. QED
        BY <2>1, FlattenSequence
<1>9. Long(a \o b, 4)
      BY <1>6, ConcatLong
<1> DEFINE x == Len(FlattenSeq(p))
           y == Len(EncodeFrame(f))
<1>10. Long(FlattenSeq(p), x) /\ Long(EncodeFrame(f), y) /\ x \in Nat /\ y \in Nat
       BY <1>8, Lengths DEF Long
<1> HIDE DEF x, y
<1>11. Long(FlattenSeq(q), x + y) /\ x + y \in Nat
       BY <1>7, <1>10, ConcatLong
<1>12. Long(EncodeDatagram(d), 4 + x)
       BY <1>5, <1>9, <1>10, ConcatLong
<1>13. Long(EncodeDatagram(e), 4 + (x + y))
       BY <1>5, <1>9, <1>11, ConcatLong
<1>14. QED
       BY <1>10, <1>12, <1>13 DEF Long, y

\* Datagrams of frames of a set, none beyond the MTU.
Fitting(F, mtu) == {d \in [number : Int, frames : FramesOf(F)] :
                      Len(EncodeDatagram(d)) \in Nat /\ Len(EncodeDatagram(d)) <= mtu}

\* A round of build_datagrams makes no datagram longer than the MTU.
LEMMA JoinFits ==
  ASSUME NEW F, NEW mtu \in Nat, NEW first \in Int,
         \A f \in F : Sequence(EncodeFrame(f)) /\ Len(EncodeFrame(f)) + 4 <= mtu,
         NEW ds \in Seq(Fitting(F, mtu)), NEW f \in F
  PROVE  Join(ds, f, mtu, first) \in Seq(Fitting(F, mtu))
<1> DEFINE D == Fitting(F, mtu)
           n == Len(ds)
<1>1. n \in Nat /\ DOMAIN ds = 1..n /\ (ds # <<>> => n \in 1..n)
      BY LenProperties, EmptySeq
<1>2. CASE ds # <<>> /\ Len(EncodeDatagram(Last(ds))) + Len(EncodeFrame(f)) <= mtu
  <2> DEFINE d == ds[n]
             e == [d EXCEPT !.frames = Append(@, f)]
  <2>1. d \in D /\ Last(ds) = d
        BY <1>1, <1>2, ElementOfSeq DEF Last
  <2>2. /\ d.number \in Int /\ d.frames \in FramesOf(F) /\ Len(EncodeDatagram(d)) \in Nat
        /\ d \in [number : Int, frames : FramesOf(F)]
        BY <2>1 DEF Fitting
  <2>3. /\ e.number = d.number /\ e.frames = Append(d.frames, f)
        /\ e = [number |-> e.number, frames |-> e.frames]
    <3> HIDE DEF d
    <3>1. e \in [number : {d.number}, frames : {Append(d.frames, f)}]
          BY <2>2
    <3> HIDE DEF e
    <3>2. QED
          BY <3>1
  <2>4. e.frames \in FramesOf(F)
    <3>1. d.frames \in Seq(F)
          BY <2>2 DEF FramesOf
    <3>2. Append(d.frames, f) \in Seq(F) /\ Append(d.frames, f) # <<>>
          BY <3>1, AppendProperties
    <3>3. QED
          BY <2>3, <3>2 DEF FramesOf
  <2>5. Join(ds, f, mtu, first) = [ds EXCEPT ![n] = e]
        BY <1>2 DEF Join
  <2> HIDE DEF d, e
  <2>6. /\ Sequence(EncodeDatagram(e))
        /\ Len(EncodeDatagram(e)) = Len(EncodeDatagram(d)) + Len(EncodeFrame(f))
        BY <2>2, <2>3, DatagramGrows
  <2>7. Len(EncodeDatagram(e)) \in Nat /\ Len(EncodeDatagram(e)) <= mtu
        BY <1>2, <2>1, <2>6, Lengths
  <2>8. e \in D
        BY <2>2, <2>3, <2>4, <2>7 DEF Fitting
  <2> HIDE DEF D
  <2>9. QED
        BY <1>1, <1>2, <2>5, <2>8, ExceptSeq DEF D
<1>3. CASE ~(ds # <<>> /\ Len(EncodeDatagram(Last(ds))) + Len(EncodeFrame(f)) <= mtu)
  <2> DEFINE d == [number |-> first + n, frames |-> <<f>>]
  <2>1. Join(ds, f, mtu, first) = Append(ds, d)
        BY <1>3 DEF Join
  <2>2. Sequence(EncodeFrame(f)) /\ Len(EncodeFrame(f)) + 4 <= mtu /\ Len(EncodeFrame(f)) \in Nat
        BY Lengths
  <2>3. Len(EncodeDatagram(d)) = 4 + Len(EncodeFrame(f))
        BY <2>2, DatagramOfOne DEF Long
  <2>4. <<f>> \in FramesOf(F)
        BY DEF FramesOf
  <2>5. d \in [number : Int, frames : FramesOf(F)]
        BY <1>1, <2>4
  <2> HIDE DEF d
  <2>6. d \in D
        BY <2>2, <2>3, <2>5 DEF Fitting
  <2>7. QED
        BY <2>1, <2>6, AppendProperties
<1>4. QED
      BY <1>2, <1>3

\* build_datagrams, round by round.
LEMMA DatagramsSteps ==
  ASSUME NEW frames, Len(frames) \in Nat, NEW mtu, NEW first
  PROVE  \E joined : /\ joined[0] = <<>>
                     /\ \A i \in 1..Len(frames) :
                          joined[i] = Join(joined[i - 1], frames[i], mtu, first)
                     /\ Datagrams(frames, mtu, first) = joined[Len(frames)]
<1> DEFINE n == Len(frames)
           Loop(g, k) == g = [i \in 0..k |-> IF i = 0 THEN <<>>
                                               ELSE Join(g[i - 1], frames[i], mtu, first)]
           S == {k \in Nat : \E g : Loop(g, k)}
<1>1. n \in Nat
      OBVIOUS
<1>2. 0 \in S
  <2>1. Loop([i \in 0..0 |-> <<>>], 0)
        OBVIOUS
  <2>2. QED
        BY <2>1
<1>3. ASSUME NEW k \in S PROVE k + 1 \in S
  <2>1. PICK f : Loop(f, k)
        BY <1>3
  <2> DEFINE g == [i \in 0..(k + 1) |-> IF i = k + 1 THEN Join(f[k], frames[k + 1], mtu, first)
                                                     ELSE f[i]]
  <2>2. Loop(g, k + 1)
    <3> DEFINE h == [i \in 0..(k + 1) |-> IF i = 0 THEN <<>>
                                          ELSE Join(g[i - 1], frames[i], mtu, first)]
    <3> SUFFICES ASSUME NEW i \in 0..(k + 1) PROVE g[i] = h[i]
        OBVIOUS
    <3>1. k \in Nat
          BY <1>3
    <3>2. CASE i = k + 1
          BY <3>1, <3>2
    <3>3. CASE i \in 0..k /\ i # 0
      <4>1. f[i] = Join(f[i - 1], frames[i], mtu, first)
            BY <2>1, <3>1, <3>3
      <4>2. g[i] = f[i] /\ g[i - 1] = f[i - 1]
            BY <3>1, <3>3
      <4>3. QED
            BY <3>3, <4>1, <4>2
    <3>4. CASE i = 0
      <4>1. f[0] = <<>>
            BY <2>1, <3>1
      <4>2. g[0] = f[0]
            BY <3>1
      <4>3. QED
            BY <3>4, <4>1, <4>2
    <3>5. QED
          BY <3>1, <3>2, <3>3, <3>4
  <2> HIDE DEF g, Loop
  <2>3. QED
        BY <1>3, <2>2
<1>4. \E g : Loop(g, n)
  <2>1. S = Nat
    <3>1. S \in SUBSET Nat
          OBVIOUS
    <3> HIDE DEF S
    <3>2. QED
          BY <1>2, <1>3, <3>1, Induction
  <2> HIDE DEF Loop
  <2>2. QED
        BY <1>1, <2>1
<1> DEFINE joined == CHOOSE g : Loop(g, n)
<1>5. Datagrams(frames, mtu, first) = joined[n]
      BY DEF Datagrams
<1>6. Loop(joined, n)
  <2> HIDE DEF Loop
  <2>1. QED
        BY <1>4
<1> HIDE DEF joined
<1>7. joined[0] = <<>> /\ \A i \in 1..n : joined[i] = Join(joined[i - 1], frames[i], mtu, first)
  <2> DEFINE G(g) == [i \in 0..n |-> IF i = 0 THEN <<>> ELSE Join(g[i - 1], frames[i], mtu, first)]
  <2>1. \A i \in 0..n : G(joined)[i] = IF i = 0 THEN <<>>
                                         ELSE Join(joined[i - 1], frames[i], mtu, first)
        OBVIOUS
  <2>2. joined = G(joined)
        BY <1>6
  <2> HIDE DEF G
  <2>3. \A i \in 0..n : joined[i] = IF i = 0 THEN <<>>
                                      ELSE Join(joined[i - 1], frames[i], mtu, first)
        BY <2>1, <2>2
  <2>4. QED
        BY <1>1, <2>3
<1>8. QED
      BY <1>5, <1>7

\* e is what ds is when f joins its last datagram, and when f begins the next one.
Joins(ds, n, f, e) ==
  /\ n # 0 /\ Long(e, n) /\ \A k \in 1..(n - 1) : e[k] = ds[k]
  /\ e[n] = [number |-> ds[n].number, frames |-> Append(ds[n].frames, f)]

Begins(ds, n, f, e, first) ==
  /\ Long(e, n + 1) /\ \A k \in 1..n : e[k] = ds[k]
  /\ e[n + 1] = [number |-> first + n, frames |-> <<f>>]

\* A round of build_datagrams does either.
LEMMA JoinCases ==
  ASSUME NEW F, NEW mtu \in Nat, NEW first \in Int,
         NEW ds \in Seq(Fitting(F, mtu)), NEW f, NEW e, e = Join(ds, f, mtu, first),
         NEW n, n = Len(ds)
  PROVE  Joins(ds, n, f, e) \/ Begins(ds, n, f, e, first)
<1>1. n \in Nat /\ DOMAIN ds = 1..n /\ (ds # <<>> => n \in 1..n)
      BY LenProperties, EmptySeq
<1>2. CASE ds # <<>> /\ Len(EncodeDatagram(Last(ds))) + Len(EncodeFrame(f)) <= mtu
  <2> DEFINE d == [ds[n] EXCEPT !.frames = Append(@, f)]
  <2>1. e = [ds EXCEPT ![n] = d] /\ n \in 1..n
        BY <1>1, <1>2 DEF Join
  <2>2. ds[n] \in [number : Int, frames : FramesOf(F)]
        BY <1>1, <2>1, ElementOfSeq DEF Fitting
  <2>3. d = [number |-> ds[n].number, frames |-> Append(ds[n].frames, f)]
    <3> DEFINE b == ds[n]
    <3>1. b \in [number : Int, frames : FramesOf(F)]
          BY <2>2
    <3> HIDE DEF b
    <3> DEFINE c == [b EXCEPT !.frames = Append(b.frames, f)]
    <3>2. c \in [number : {b.number}, frames : {Append(b.frames, f)}]
          BY <3>1
    <3>3. d = c
          BY DEF b
    <3> HIDE DEF c
    <3>4. c = [number |-> b.number, frames |-> Append(b.frames, f)]
          BY <3>2
    <3>5. QED
          BY <3>3, <3>4 DEF b
  <2> HIDE DEF d
  <2>4. DOMAIN e = 1..n /\ e[n] = d /\ \A k \in 1..(n - 1) : e[k] = ds[k]
        BY <1>1, <2>1
  <2>5. e = [k \in 1..n |-> e[k]]
        BY <1>1, <2>1
  <2>6. Long(e, n)
        BY <1>1, <2>5, FunctionIsSequence
  <2>7. n # 0
        BY <1>1, <2>1
  <2>8. QED
        BY <2>3, <2>4, <2>6, <2>7 DEF Joins
<1>3. CASE ~(ds # <<>> /\ Len(EncodeDatagram(Last(ds))) + Len(EncodeFrame(f)) <= mtu)
  <2> DEFINE d == [number |-> first + n, frames |-> <<f>>]
             D == Fitting(F, mtu) \cup {d}
  <2>1. e = Append(ds, d)
        BY <1>3 DEF Join
  <2>2. ds \in Seq(D) /\ d \in D
        BY SeqMonotonic
  <2> HIDE DEF d, D
  <2>3. /\ e \in Seq(D) /\ Len(e) = n + 1
        /\ \A k \in 1..n : e[k] = ds[k]
        /\ e[n + 1] = d
        BY <2>1, <2>2, AppendProperties
  <2>4. Long(e, n + 1)
        BY <2>3 DEF Long, Sequence
  <2>5. QED
        BY <2>3, <2>4 DEF d, Begins
<1>4. QED
      BY <1>2, <1>3

\* The datagrams have consecutive numbers.
NumberedFrom(ds, first) == \A k \in 1..Len(ds) : ds[k].number = first + k - 1

\* The datagrams are numbered from the first on, and are no more than the frames.
LEMMA DatagramNumbers ==
  ASSUME NEW F, NEW mtu \in Nat, NEW first \in Int,
         \A f \in F : Sequence(EncodeFrame(f)) /\ Len(EncodeFrame(f)) + 4 <= mtu,
         NEW frames \in Seq(F), NEW sent, sent = Datagrams(frames, mtu, first)
  PROVE  /\ sent \in Seq(Fitting(F, mtu)) /\ Len(sent) \in 0..Len(frames)
         /\ NumberedFrom(sent, first)
<1> DEFINE n == Len(frames)
<1>1. n \in Nat /\ \A i \in 1..n : frames[i] \in F
      BY LenProperties, ElementOfSeq
<1>2. PICK joined : /\ joined[0] = <<>>
                    /\ \A i \in 1..n : joined[i] = Join(joined[i - 1], frames[i], mtu, first)
                    /\ sent = joined[n]
      BY <1>1, DatagramsSteps
<1> DEFINE Good(ds, i) == /\ ds \in Seq(Fitting(F, mtu)) /\ Len(ds) \in 0..i
                          /\ \A k \in 1..Len(ds) : ds[k].number = first + k - 1
           T == {i \in Nat : i <= n => Good(joined[i], i)}
<1>3. 0 \in T
  <2>1. Good(<<>>, 0)
        BY EmptySeq
  <2> HIDE DEF Good
  <2>2. QED
        BY <1>2, <2>1
<1>4. ASSUME NEW i \in T PROVE i + 1 \in T
  <2>1. SUFFICES ASSUME i + 1 <= n PROVE Good(joined[i + 1], i + 1)
        OBVIOUS
  <2> DEFINE ds == joined[i]
             e == joined[i + 1]
             f == frames[i + 1]
             m == Len(ds)
  <2>2. i \in Nat /\ i <= n /\ Good(joined[i], i)
        BY <1>1, <1>4, <2>1
  <2>3. i \in Nat /\ i + 1 \in 1..n /\ (i + 1) - 1 = i /\ Good(ds, i)
        BY <1>1, <2>1, <2>2
  <2>4. f \in F /\ e = Join(ds, f, mtu, first)
        BY <1>1, <1>2, <2>3
  <2>5. ds \in Seq(Fitting(F, mtu)) /\ m \in 0..i /\ \A k \in 1..m : ds[k].number = first + k - 1
        BY <2>3
  <2> HIDE DEF ds, e, f
  <2>6. e \in Seq(Fitting(F, mtu))
        BY <2>4, <2>5, JoinFits
  <2>7. CASE Joins(ds, m, f, e)
    <3>1. Len(e) = m /\ m \in 1..m /\ m \in Nat /\ \A k \in 1..(m - 1) : e[k] = ds[k]
          BY <2>5, <2>7 DEF Joins, Long
    <3>2. e[m].number = first + m - 1
          BY <2>5, <2>7, <3>1 DEF Joins
    <3>3. ASSUME NEW k \in 1..m PROVE e[k].number = first + k - 1
      <4>1. k = m \/ k \in 1..(m - 1)
            BY <3>1
      <4>2. QED
            BY <2>5, <3>1, <3>2, <4>1
    <3>4. m \in 0..(i + 1)
          BY <2>3, <2>5
    <3>5. QED
          BY <2>6, <3>1, <3>3, <3>4 DEF e
  <2>8. CASE Begins(ds, m, f, e, first)
    <3>1. Len(e) = m + 1 /\ m \in Nat /\ \A k \in 1..m : e[k] = ds[k]
          BY <2>5, <2>8 DEF Begins, Long
    <3>2. e[m + 1].number = first + (m + 1) - 1
          BY <2>8, <3>1 DEF Begins
    <3>3. ASSUME NEW k \in 1..(m + 1) PROVE e[k].number = first + k - 1
      <4>1. k = m + 1 \/ k \in 1..m
            BY <3>1
      <4>2. QED
            BY <2>5, <3>1, <3>2, <4>1
    <3>4. m + 1 \in 0..(i + 1)
          BY <2>3, <2>5
    <3>5. QED
          BY <2>6, <3>1, <3>3, <3>4 DEF e
  <2>9. Joins(ds, m, f, e) \/ Begins(ds, m, f, e, first)
        BY <2>4, <2>5, JoinCases
  <2>10. QED
         BY <2>7, <2>8, <2>9
<1>5. T = Nat
  <2>1. T \in SUBSET Nat
        OBVIOUS
  <2> HIDE DEF T
  <2>2. QED
        BY <1>3, <1>4, <2>1, Induction
<1>6. Good(joined[n], n)
  <2> HIDE DEF Good
  <2>1. QED
        BY <1>1, <1>5
<1>7. QED
      BY <1>2, <1>6 DEF NumberedFrom

\* The datagrams of frames each of which fits.
LEMMA DatagramsAreFitting ==
  ASSUME NEW F, NEW mtu \in Nat, NEW first \in Int,
         \A f \in F : Sequence(EncodeFrame(f)) /\ Len(EncodeFrame(f)) + 4 <= mtu,
         NEW frames \in Seq(F)
  PROVE  Datagrams(frames, mtu, first) \in Seq(Fitting(F, mtu))
<1> DEFINE sent == Datagrams(frames, mtu, first)
<1>1. sent = Datagrams(frames, mtu, first)
      OBVIOUS
<1> HIDE DEF sent
<1>2. sent \in Seq(Fitting(F, mtu))
      BY <1>1, DatagramNumbers
<1>3. QED
      BY <1>1, <1>2

\* What decode_datagram keeps is no failure.
LEMMA TakenFrames ==
  ASSUME NEW fs, NEW at
  PROVE  [frames |-> fs, at |-> at] # NoPacket
<1>1. DOMAIN [frames |-> fs, at |-> at] = {"frames", "at"} /\ DOMAIN NoPacket = {"failed"}
      BY DEF NoPacket
<1>2. "at" \notin {"failed"}
      OBVIOUS
<1>3. QED
      BY <1>1, <1>2

\* decode_datagram takes a frame where one was written.
LEMMA FrameTaken ==
  ASSUME NEW f, Readable(f), NEW buf, NEW at, NEW to, Within(buf, at, to, EncodeFrame(f)), NEW fs
  PROVE  TakeFrame(buf, [frames |-> fs, at |-> at]) = [frames |-> Append(fs, f), at |-> to]
<1> DEFINE d == [frames |-> fs, at |-> at]
           next == DecodeFrame(buf, at)
<1>1. next = [frame |-> f, at |-> to] /\ at < to /\ next # NoPacket
      BY FrameRead
<1>2. next.frame = f /\ next.at = to
      BY <1>1
<1>3. d # NoPacket /\ d.frames = fs /\ d.at = at
      BY TakenFrames
<1>4. at # Len(buf)
  <2>1. at \in Nat /\ to \in Nat /\ to <= Len(buf) /\ Len(buf) \in Nat
        BY Lengths DEF Within
  <2>2. QED
        BY <1>1, <2>1
<1> HIDE DEF d
<1>5. TakeFrame(buf, d) = [frames |-> Append(fs, next.frame), at |-> next.at]
      BY <1>1, <1>3, <1>4 DEF TakeFrame
<1>6. QED
      BY <1>2, <1>5 DEF d

\* The loop of decode_datagram ends where such a loop ends.
LEMMA DatagramLoop ==
  ASSUME NEW buf, Len(buf) \in Nat, NEW g, g[0] = [frames |-> <<>>, at |-> 4],
         \A i \in 1..Len(buf) : g[i] = TakeFrame(buf, g[i - 1]), g[Len(buf)] # NoPacket,
         ~(Len(buf) < 4), buf[1] = FrameSetStart
  PROVE  DecodeDatagram(buf)
           = [number |-> FromLE(Slice(buf, 1, 4)), frames |-> g[Len(buf)].frames]
<1> DEFINE n == Len(buf)
           begin == [frames |-> <<>>, at |-> 4]
           F(f) == [i \in 0..n |-> IF i = 0 THEN begin ELSE TakeFrame(buf, f[i - 1])]
           read == CHOOSE f : f = F(f)
           h == [i \in 0..n |-> g[i]]
<1>1. DecodeDatagram(buf)
        = IF n < 4 \/ buf[1] \notin FrameSetStart..(FrameSetStart + 15) \/ read[n] = NoPacket
            THEN NoPacket
            ELSE [number |-> FromLE(Slice(buf, 1, 4)), frames |-> read[n].frames]
      BY DEF DecodeDatagram
<1> HIDE DEF begin, n
<1>2. n \in Nat /\ n = Len(buf)
      BY DEF n
<1>3. h = F(h)
  <2>1. ASSUME NEW i \in 0..n
        PROVE  g[i] = IF i = 0 THEN begin ELSE TakeFrame(buf, h[i - 1])
    <3>1. CASE i = 0
          BY <3>1 DEF begin
    <3>2. CASE i # 0
      <4>1. i \in 1..n /\ i - 1 \in 0..n
            BY <1>2, <3>2
      <4>2. h[i - 1] = g[i - 1] /\ g[i] = TakeFrame(buf, g[i - 1])
            BY <1>2, <4>1
      <4>3. QED
            BY <3>2, <4>2
    <3>3. QED
          BY <3>1, <3>2
  <2>2. QED
        BY <2>1
<1> HIDE DEF h
<1>4. read = F(read)
      BY <1>3
<1> HIDE DEF read
<1>5. \A f : F(f)[0] = begin /\ \A i \in 1..n : F(f)[i] = TakeFrame(buf, f[i - 1])
      BY <1>2
<1> HIDE DEF F
<1>6. read[0] = begin /\ \A i \in 1..n : read[i] = TakeFrame(buf, read[i - 1])
      BY <1>4, <1>5
<1>7. read[n] = g[n]
  <2>1. read[0] = g[0]
        BY <1>6 DEF begin
  <2>2. \A i \in 1..n : read[i - 1] = g[i - 1] => read[i] = g[i]
        BY <1>2, <1>6
  <2>3. QED
        BY <1>2, <2>1, <2>2, SameLoop
<1>8. buf[1] \in FrameSetStart..(FrameSetStart + 15)
      BY DEF FrameSetStart
<1>9. QED
      BY <1>1, <1>2, <1>7, <1>8

\* However many frames a datagram has, they are read.
LEMMA DatagramRead ==
  ASSUME NEW number \in 0..(2^24 - 1), NEW frames, NEW n \in Nat, Long(frames, n),
         \A i \in 1..n : Readable(frames[i]) /\ Sequence(EncodeFrame(frames[i])),
         NEW d, d = [number |-> number, frames |-> frames]
  PROVE  DecodeDatagram(EncodeDatagram(d)) = d
<1> DEFINE pieces == [i \in DOMAIN frames |-> EncodeFrame(frames[i])]
           a == <<FrameSetStart>>
           b == LE(3, number)
           body == FlattenSeq(pieces)
           buf == EncodeDatagram(d)
<1>1. DOMAIN frames = 1..n /\ Len(frames) = n
      BY Lengths DEF Long
<1>2. buf = a \o b \o body
      BY DEF EncodeDatagram
<1> HIDE DEF buf
<1>3. Long(pieces, n) /\ \A i \in 1..n : pieces[i] = EncodeFrame(frames[i])
  <2>1. pieces = [i \in 1..n |-> pieces[i]]
        BY <1>1
  <2>2. \A i \in 1..n : pieces[i] = EncodeFrame(frames[i])
        BY <1>1
  <2> HIDE DEF pieces
  <2>3. QED
        BY <1>1, <2>1, <2>2, FunctionIsSequence
<1> HIDE DEF pieces
<1>4. \A i \in 1..n : Sequence(pieces[i])
      BY <1>3
<1>5. PICK at : /\ at[0] = 0
                /\ \A i \in 0..n : at[i] \in Nat
                /\ \A i \in 1..n : Within(body, at[i - 1], at[i], pieces[i])
                /\ Long(body, at[n])
      BY <1>1, <1>3, <1>4, PiecesWithin
<1>6. Long(a, 1) /\ Long(b, 3) /\ a[1] = FrameSetStart
      BY OneSequence, BytesOfNumber
<1> HIDE DEF a, b, body
<1>7. Long(a \o b, 4) /\ Within(a \o b, 1, 4, b)
      BY <1>6, WithinEnd
<1>8. Within(a \o b, 0, 1, a)
  <2>1. Within(a, 0, 1, a)
        BY <1>6, WithinAll
  <2>2. QED
        BY <1>6, <2>1, WithinOn DEF Long
<1> DEFINE head == a \o b
           long == at[n]
           size == 4 + long
<1>9. /\ long \in Nat /\ size \in Nat /\ size >= 4 /\ Long(body, long) /\ Long(head, 4)
      /\ buf = head \o body
  <2>1. n \in 0..n
        OBVIOUS
  <2>2. QED
        BY <1>2, <1>5, <1>7, <2>1
<1>10. Within(head, 1, 4, b) /\ Within(head, 0, 1, a)
       BY <1>7, <1>8
<1> HIDE DEF head
<1>11. Within(buf, 4, size, body) /\ Long(buf, size)
  <2> HIDE DEF long
  <2>1. QED
        BY <1>9, WithinEnd
<1>12. Within(buf, 1, 4, b) /\ Within(buf, 0, 1, a)
       BY <1>9, <1>10, WithinOn DEF Long
<1>13. FromLE(Slice(buf, 1, 4)) = number
       BY <1>12, WithinSlice, BytesRead DEF b
<1>14. buf[1] = FrameSetStart
  <2>1. buf[0 + 1] = a[1]
        BY <1>12, WithinFirst
  <2>2. QED
        BY <1>6, <2>1
<1>15. ASSUME NEW i \in 1..n
       PROVE  /\ Within(buf, 4 + at[i - 1], 4 + at[i], EncodeFrame(frames[i]))
              /\ at[i - 1] < at[i]
  <2>1. Within(buf, 4 + at[i - 1], 4 + at[i], EncodeFrame(frames[i]))
        BY <1>3, <1>5, <1>11, WithinPart
  <2>2. Readable(frames[i])
        OBVIOUS
  <2>3. 4 + at[i - 1] < 4 + at[i]
        BY <2>1, <2>2, FrameRead
  <2>4. i - 1 \in 0..n /\ i \in 0..n
        OBVIOUS
  <2>5. at[i - 1] \in Nat /\ at[i] \in Nat
        BY <1>5, <2>4
  <2>6. QED
        BY <2>1, <2>3, <2>5
<1>16. n <= long
       BY <1>5, <1>15, PiecesCount
<1> DEFINE g == [i \in 0..size |-> [frames |-> First(frames, IF i <= n THEN i ELSE n),
                                    at |-> 4 + at[IF i <= n THEN i ELSE n]]]
<1> HIDE DEF long, size
<1>17. long \in Nat /\ size = 4 + long /\ long = at[n] /\ n <= size /\ Len(buf) = size
  <2>1. size = 4 + long /\ long = at[n]
        BY DEF size, long
  <2>2. QED
        BY <1>9, <1>11, <1>16, <2>1 DEF Long
<1>18. ASSUME NEW i \in 1..size PROVE g[i] = TakeFrame(buf, g[i - 1])
  <2>1. i - 1 \in 0..size /\ i \in 0..size
        BY <1>9
  <2>2. CASE i <= n
    <3>1. i \in 1..n /\ i - 1 <= n
          BY <1>9, <2>2
    <3>2. TakeFrame(buf, [frames |-> First(frames, i - 1), at |-> 4 + at[i - 1]])
            = [frames |-> Append(First(frames, i - 1), frames[i]), at |-> 4 + at[i]]
      <4>1. Within(buf, 4 + at[i - 1], 4 + at[i], EncodeFrame(frames[i])) /\ Readable(frames[i])
            BY <1>15, <3>1
      <4>2. QED
            BY <4>1, FrameTaken
    <3>3. Append(First(frames, i - 1), frames[i]) = First(frames, i)
          BY <3>1, FirstThings
    <3>4. QED
          BY <2>1, <2>2, <3>1, <3>2, <3>3
  <2>3. CASE ~(i <= n)
    <3>1. n <= i - 1 /\ (i - 1 <= n => i - 1 = n)
          BY <1>9, <2>3
    <3> DEFINE e == [frames |-> First(frames, n), at |-> 4 + at[n]]
    <3>2. g[i] = e /\ g[i - 1] = e
          BY <2>1, <2>3, <3>1
    <3>3. e.at = Len(buf)
          BY <1>17
    <3> HIDE DEF e, g
    <3>4. QED
          BY <3>2, <3>3 DEF TakeFrame
  <2>4. QED
        BY <2>2, <2>3
<1>19. g[0] = [frames |-> <<>>, at |-> 4]
  <2>1. First(frames, 0) = <<>>
        BY FirstThings
  <2>2. 4 + at[0] = 4 /\ 0 \in 0..size /\ 0 <= n
        BY <1>5, <1>9
  <2>3. QED
        BY <2>1, <2>2
<1>20. g[size] = [frames |-> frames, at |-> size]
  <2>1. First(frames, n) = frames
        BY FirstThings
  <2>2. size \in 0..size /\ (size <= n => size = n)
        BY <1>9, <1>17
  <2>3. QED
        BY <1>17, <2>1, <2>2
<1> HIDE DEF g
<1>21. g[size].frames = frames /\ g[size] # NoPacket
       BY <1>20, TakenFrames
<1>22. DecodeDatagram(buf) = [number |-> FromLE(Slice(buf, 1, 4)), frames |-> g[Len(buf)].frames]
  <2>1. Len(buf) \in Nat /\ ~(Len(buf) < 4) /\ g[Len(buf)] # NoPacket
        BY <1>9, <1>17, <1>21
  <2>2. \A i \in 1..Len(buf) : g[i] = TakeFrame(buf, g[i - 1])
        BY <1>17, <1>18
  <2>3. QED
        BY <1>14, <1>19, <2>1, <2>2, DatagramLoop
<1>23. QED
       BY <1>13, <1>17, <1>21, <1>22 DEF buf

(***************************************************************************)
(* Payloads in parts                                                       *)
(***************************************************************************)
\* As many parts as a payload of so many bytes has.
PartsOf(len, chunk) == (len + chunk - 1) \div chunk

\* They are enough, and the last one is not empty.
LEMMA EnoughParts ==
  ASSUME NEW len \in Nat, NEW chunk \in Nat, chunk > 0
  PROVE  /\ PartsOf(len, chunk) \in Nat
         /\ chunk * PartsOf(len, chunk) >= len
         /\ chunk * (PartsOf(len, chunk) - 1) < len
<1> DEFINE a == len + chunk - 1
           q == a \div chunk
<1>1. a \in Nat
      OBVIOUS
<1> HIDE DEF a
<1>2. q \in Nat /\ chunk * q <= a /\ a < chunk * q + chunk
      BY <1>1
<1> HIDE DEF q
<1>3. chunk * (q - 1) = chunk * q - chunk
      BY <1>2
<1>4. q = PartsOf(len, chunk)
      BY DEF q, a, PartsOf
<1>5. QED
      BY <1>2, <1>3, <1>4 DEF a

\* Where part i ends.
EndOf(i, chunk, len) == Min({chunk * i, len})

\* Each part begins where the one before ends, and begins within the payload.
LEMMA PartBounds ==
  ASSUME NEW len \in Nat, NEW chunk \in Nat, chunk > 0, NEW n, n = PartsOf(len, chunk)
  PROVE  /\ EndOf(0, chunk, len) = 0 /\ EndOf(n, chunk, len) = len
         /\ \A i \in 1..n : /\ EndOf(i - 1, chunk, len) = chunk * (i - 1)
                            /\ EndOf(i - 1, chunk, len) \in 0..len
                            /\ EndOf(i, chunk, len) \in EndOf(i - 1, chunk, len)..len
<1>1. n \in Nat /\ chunk * n >= len /\ chunk * (n - 1) < len
      BY EnoughParts
<1>2. EndOf(0, chunk, len) = 0
  <2>1. chunk * 0 = 0
        OBVIOUS
  <2>2. Min({0, len}) \in {0, len} /\ Min({0, len}) <= 0
        BY MinOfTwo
  <2>3. QED
        BY <2>1, <2>2 DEF EndOf
<1>3. EndOf(n, chunk, len) = len
  <2> DEFINE x == chunk * n
  <2>1. x \in Int /\ x >= len
        BY <1>1
  <2> HIDE DEF x
  <2>2. Min({x, len}) \in {x, len} /\ Min({x, len}) <= len
        BY <2>1, MinOfTwo
  <2>3. Min({x, len}) = len
        BY <2>1, <2>2
  <2>4. QED
        BY <2>3 DEF EndOf, x
<1>4. ASSUME NEW i \in 1..n
      PROVE  /\ EndOf(i - 1, chunk, len) = chunk * (i - 1)
             /\ EndOf(i - 1, chunk, len) \in 0..len
             /\ EndOf(i, chunk, len) \in EndOf(i - 1, chunk, len)..len
  <2> DEFINE x == chunk * (i - 1)
             y == chunk * i
  <2>1. x \in Nat /\ y \in Nat /\ x <= y
    <3>1. i - 1 \in Nat /\ i \in Nat
          BY <1>1
    <3>2. chunk * i = chunk * (i - 1) + chunk
          BY <3>1
    <3>3. chunk * (i - 1) \in Nat
          BY <3>1
    <3>4. QED
          BY <3>2, <3>3
  <2>2. x < len
    <3> DEFINE z == chunk * (n - i)
    <3>1. n - i \in Nat
          BY <1>1
    <3>2. z \in Nat
          BY <3>1
    <3>3. chunk * (n - 1) = x + z
          BY <1>1
    <3>4. x <= chunk * (n - 1)
      <4> HIDE DEF x, z
      <4>1. QED
            BY <2>1, <3>2, <3>3
    <3> HIDE DEF x, z
    <3>5. chunk * (n - 1) \in Int
          BY <1>1
    <3>6. QED
          BY <1>1, <2>1, <3>4, <3>5
  <2> HIDE DEF x, y
  <2>3. Min({x, len}) \in {x, len} /\ Min({x, len}) <= x
        BY <2>1, MinOfTwo
  <2>4. Min({y, len}) \in {y, len} /\ Min({y, len}) <= len
        BY <2>1, MinOfTwo
  <2>5. Min({x, len}) = x /\ Min({y, len}) \in x..len
        BY <2>1, <2>2, <2>3, <2>4
  <2>6. EndOf(i - 1, chunk, len) = x /\ EndOf(i, chunk, len) \in x..len /\ x \in 0..len
        BY <2>1, <2>2, <2>5 DEF EndOf, x, y
  <2>7. QED
        BY <2>6 DEF x
<1>5. QED
      BY <1>2, <1>3, <1>4

\* Part i of a payload.
PartBody(payload, chunk, i) ==
  Slice(payload, EndOf(i - 1, chunk, Len(payload)), EndOf(i, chunk, Len(payload)))

\* The number of bytes of a part.
ChunkOf(mtu) == mtu - 24

\* Frame i of n of a payload that is cut.
PartFrame(payload, mtu, n, id, reliable, order, i) ==
  Frame(ReliableOrdered, reliable, 0, order, <<n, id, i - 1>>, PartBody(payload, ChunkOf(mtu), i))

\* A payload is cut into its parts.
LEMMA PartsCut ==
  ASSUME NEW payload, Sequence(payload), NEW mtu \in Nat, mtu >= 40, Len(payload) > mtu - 14,
         NEW n, n = PartsOf(Len(payload), ChunkOf(mtu)),
         NEW id, NEW reliable, NEW order, NEW frames,
         frames = Frames(payload, mtu, id, reliable, order)
  PROVE  /\ frames = [i \in 1..n |-> PartFrame(payload, mtu, n, id, reliable, order, i)]
         /\ n \in Nat \ {0} /\ ChunkOf(mtu) \in Nat /\ ChunkOf(mtu) > 0
         /\ Long(frames, n)
<1> DEFINE len == Len(payload)
           chunk == Max({mtu - 24, 16})
<1>1. len \in Nat
      BY Lengths
<1>2. chunk = ChunkOf(mtu) /\ chunk \in Nat /\ chunk > 0
  <2> DEFINE m == mtu - 24
  <2>1. m \in Int /\ m >= 16 /\ 16 \in Int
        OBVIOUS
  <2> HIDE DEF m
  <2>2. Max({m, 16}) \in {m, 16} /\ Max({m, 16}) >= m
        BY <2>1, MaxOfTwo
  <2>3. Max({m, 16}) = m
        BY <2>1, <2>2
  <2>4. QED
        BY <2>1, <2>3 DEF m, ChunkOf
<1>3. frames = SplitPayload(payload, mtu, id, reliable, order)
  <2>1. ~(Len(payload) <= mtu - 14)
        BY <1>1
  <2>2. QED
        BY <2>1 DEF Frames
<1>4. SplitPayload(payload, mtu, id, reliable, order)
        = [i \in 1..PartsOf(len, chunk) |->
             Frame(ReliableOrdered, reliable, 0, order, <<PartsOf(len, chunk), id, i - 1>>,
                   Slice(payload, chunk * (i - 1), EndOf(i, chunk, len)))]
      BY DEF SplitPayload, PartsOf, EndOf
<1> HIDE DEF chunk
<1>5. n = PartsOf(len, chunk)
      BY <1>2
<1>6. n \in Nat
      BY <1>1, <1>2, <1>5, EnoughParts
<1>7. ASSUME NEW i \in 1..n
      PROVE  Slice(payload, chunk * (i - 1), EndOf(i, chunk, len))
               = PartBody(payload, ChunkOf(mtu), i)
  <2>1. EndOf(i - 1, chunk, len) = chunk * (i - 1)
        BY <1>1, <1>2, <1>5, PartBounds
  <2>2. QED
        BY <1>2, <2>1 DEF PartBody
<1>8. frames = [i \in 1..n |-> PartFrame(payload, mtu, n, id, reliable, order, i)]
      BY <1>3, <1>4, <1>5, <1>7 DEF PartFrame
<1>9. n # 0
  <2>1. chunk * n >= len
        BY <1>1, <1>2, <1>5, EnoughParts
  <2>2. CASE n = 0
    <3>1. chunk * n = 0
          BY <1>2, <2>2
    <3>2. QED
          BY <1>1, <2>1, <3>1
  <2>3. QED
        BY <2>2
<1>10. Long(frames, n)
  <2>1. frames = [i \in 1..n |-> frames[i]]
        BY <1>8
  <2>2. QED
        BY <1>6, <2>1, FunctionIsSequence
<1>11. QED
       BY <1>2, <1>6, <1>8, <1>9, <1>10

\* A part is no longer than there is room for.
LEMMA PartLength ==
  ASSUME NEW payload, Sequence(payload), NEW chunk \in Nat, chunk > 0,
         NEW i \in 1..PartsOf(Len(payload), chunk)
  PROVE  /\ Sequence(PartBody(payload, chunk, i))
         /\ Len(PartBody(payload, chunk, i)) \in Nat /\ Len(PartBody(payload, chunk, i)) <= chunk
<1> DEFINE len == Len(payload)
           n == PartsOf(len, chunk)
           x == EndOf(i - 1, chunk, len)
           y == EndOf(i, chunk, len)
<1>1. len \in Nat /\ n \in Nat
      BY Lengths, EnoughParts
<1>2. x = chunk * (i - 1) /\ x \in 0..len /\ y \in x..len
      BY <1>1, PartBounds
<1>3. y <= x + chunk
  <2> DEFINE z == chunk * i
  <2>1. z = chunk * (i - 1) + chunk /\ z \in Int
        BY <1>1
  <2>2. y <= z
    <3> HIDE DEF z
    <3>1. z \in Int /\ len \in Int
          BY <1>1, <2>1
    <3>2. Min({z, len}) <= z
          BY <3>1, MinOfTwo
    <3>3. QED
          BY <3>2 DEF EndOf, z
  <2> HIDE DEF x, y, z
  <2>3. QED
        BY <1>2, <2>1, <2>2
<1> HIDE DEF x, y
<1>4. Within(payload, x, y, Slice(payload, x, y))
      BY <1>2, SliceWithin
<1>5. /\ Sequence(Slice(payload, x, y)) /\ Len(Slice(payload, x, y)) = y - x
      BY <1>4 DEF Within
<1>6. PartBody(payload, chunk, i) = Slice(payload, x, y)
      BY DEF PartBody, x, y
<1>7. QED
      BY <1>1, <1>2, <1>3, <1>5, <1>6

\* A frame that a datagram of this MTU can carry.
Carried(f, mtu) == Sequence(EncodeFrame(f)) /\ Len(EncodeFrame(f)) + 4 <= mtu

\* A payload that goes unsplit fits a datagram.
LEMMA WholeFits ==
  ASSUME NEW payload, Sequence(payload), NEW mtu \in Nat, Len(payload) <= mtu - 14,
         NEW reliable, NEW order, NEW f,
         f = Frame(ReliableOrdered, reliable, 0, order, <<>>, payload)
  PROVE  Carried(f, mtu)
<1>1. IsFrame(f, payload) /\ f.split = <<>>
      BY DEF IsFrame, Frame
<1>2. Long(EncodeFrame(f), 10 + Len(payload))
      BY <1>1, FrameLength DEF HeaderLen
<1>3. Len(payload) \in Nat
      BY Lengths
<1>4. QED
      BY <1>2, <1>3 DEF Long, Carried

\* So does a part of one that is cut.
LEMMA PartFits ==
  ASSUME NEW body, Sequence(body), NEW mtu \in Nat, Len(body) <= mtu - 24,
         NEW reliable, NEW order, NEW count, NEW id, NEW index, NEW f,
         f = Frame(ReliableOrdered, reliable, 0, order, <<count, id, index>>, body)
  PROVE  Carried(f, mtu)
<1>1. IsFrame(f, body) /\ f.split = <<count, id, index>>
      BY DEF IsFrame, Frame
<1>2. HeaderLen(f) = 20
  <2>1. Len(<<count, id, index>>) = 3 /\ Len(<<>>) = 0
        OBVIOUS
  <2>2. <<count, id, index>> # <<>>
        BY <2>1
  <2>3. QED
        BY <1>1, <2>2 DEF HeaderLen
<1>3. Long(EncodeFrame(f), 20 + Len(body))
      BY <1>1, <1>2, FrameLength
<1>4. Len(body) \in Nat
      BY Lengths
<1>5. QED
      BY <1>3, <1>4 DEF Long, Carried

\* What a payload is cut into.
LEMMA FramesAreCarried ==
  ASSUME NEW payload, Sequence(payload), NEW mtu \in Nat, mtu >= 40,
         NEW id, NEW reliable, NEW order, NEW frames,
         frames = Frames(payload, mtu, id, reliable, order)
  PROVE  \E F : frames \in Seq(F) /\ \A f \in F : Carried(f, mtu)
<1>1. Len(payload) \in Nat
      BY Lengths
<1>2. CASE Len(payload) <= mtu - 14
  <2> DEFINE f == Frame(ReliableOrdered, reliable, 0, order, <<>>, payload)
  <2>1. frames = <<f>>
        BY <1>2 DEF Frames
  <2>2. Carried(f, mtu)
        BY <1>2, WholeFits
  <2> HIDE DEF f
  <2>3. <<f>> \in Seq({f})
        OBVIOUS
  <2>4. frames \in Seq({f}) /\ \A g \in {f} : Carried(g, mtu)
        BY <2>1, <2>2, <2>3
  <2>5. QED
        BY <2>4
<1>3. CASE Len(payload) > mtu - 14
  <2> DEFINE chunk == ChunkOf(mtu)
             n == PartsOf(Len(payload), chunk)
             F == {frames[i] : i \in 1..n}
  <2>1. /\ frames = [i \in 1..n |-> PartFrame(payload, mtu, n, id, reliable, order, i)]
        /\ n \in Nat \ {0} /\ chunk \in Nat /\ chunk > 0 /\ Long(frames, n)
        BY <1>3, PartsCut
  <2> HIDE DEF chunk, n
  <2>2. n = PartsOf(Len(payload), chunk) /\ chunk = mtu - 24
        BY DEF n, chunk, ChunkOf
  <2>3. ASSUME NEW i \in 1..n PROVE Carried(frames[i], mtu)
    <3> DEFINE body == PartBody(payload, chunk, i)
               f == frames[i]
    <3>1. Sequence(body) /\ Len(body) <= mtu - 24
          BY <2>1, <2>2, PartLength
    <3>2. f = Frame(ReliableOrdered, reliable, 0, order, <<n, id, i - 1>>, body)
          BY <2>1 DEF PartFrame, chunk
    <3> HIDE DEF body, f
    <3>3. Carried(f, mtu)
          BY <3>1, <3>2, PartFits
    <3>4. QED
          BY <3>3 DEF f
  <2>4. frames \in [1..n -> F]
        BY <2>1
  <2>5. \A f \in F : Carried(f, mtu)
        BY <2>3
  <2> HIDE DEF F
  <2>6. frames \in Seq(F)
        BY <2>1, <2>4
  <2>7. QED
        BY <2>5, <2>6
<1>4. QED
      BY <1>1, <1>2, <1>3

\* However a payload is cut, no datagram is longer than the MTU.
THEOREM DatagramsFit ==
  ASSUME NEW payload, Sequence(payload), NEW mtu \in Nat, mtu >= 40,
         NEW id, NEW reliable, NEW order, NEW first \in Int, NEW sent,
         sent = Datagrams(Frames(payload, mtu, id, reliable, order), mtu, first)
  PROVE  \A i \in DOMAIN sent :
           Len(EncodeDatagram(sent[i])) \in Nat /\ Len(EncodeDatagram(sent[i])) <= mtu
<1> DEFINE frames == Frames(payload, mtu, id, reliable, order)
<1>1. PICK F : frames \in Seq(F) /\ \A f \in F : Carried(f, mtu)
      BY FramesAreCarried
<1> HIDE DEF frames
<1>2. Datagrams(frames, mtu, first) \in Seq(Fitting(F, mtu))
      BY <1>1, DatagramsAreFitting DEF Carried
<1>3. sent \in Seq(Fitting(F, mtu))
      BY <1>2 DEF frames
<1>4. QED
      BY <1>3, ElementOfSeq, LenProperties DEF Fitting

\* f is part i of a payload cut into n.
IsPartOf(f, payload, chunk, n, i) ==
  /\ \E id : f.split = <<n, id, i - 1>>
  /\ f.body = PartBody(payload, chunk, i)

\* The parts of a payload, one after the other, are the payload.
LEMMA PartsJoined ==
  ASSUME NEW payload, Sequence(payload), NEW chunk \in Nat, chunk > 0,
         NEW n, n = PartsOf(Len(payload), chunk),
         NEW pieces, pieces = [i \in 1..n |-> PartBody(payload, chunk, i)]
  PROVE  FlattenSeq(pieces) = payload
<1> DEFINE len == Len(payload)
           at == [i \in 0..n |-> EndOf(i, chunk, len)]
<1>1. len \in Nat /\ n \in Nat
      BY Lengths, EnoughParts
<1>2. /\ EndOf(0, chunk, len) = 0 /\ EndOf(n, chunk, len) = len
      /\ \A i \in 1..n : /\ EndOf(i - 1, chunk, len) = chunk * (i - 1)
                         /\ EndOf(i - 1, chunk, len) \in 0..len
                         /\ EndOf(i, chunk, len) \in EndOf(i - 1, chunk, len)..len
      BY <1>1, PartBounds
<1>3. at[0] = 0 /\ at[n] = len
      BY <1>1, <1>2
<1>4. Long(pieces, n)
  <2>1. pieces = [i \in 1..n |-> pieces[i]]
        OBVIOUS
  <2>2. QED
        BY <1>1, <2>1, FunctionIsSequence
<1>5. ASSUME NEW i \in 1..n PROVE Within(payload, at[i - 1], at[i], pieces[i])
  <2> DEFINE x == EndOf(i - 1, chunk, len)
             y == EndOf(i, chunk, len)
  <2>1. i - 1 \in 0..n /\ i \in 0..n
        BY <1>1
  <2>2. at[i - 1] = x /\ at[i] = y
        BY <2>1
  <2>3. x \in 0..len /\ y \in x..len
        BY <1>2
  <2>4. pieces[i] = Slice(payload, x, y)
        BY DEF PartBody
  <2> HIDE DEF x, y, at
  <2>5. QED
        BY <2>2, <2>3, <2>4, SliceWithin
<1> HIDE DEF at
<1>6. QED
      BY <1>1, <1>3, <1>4, <1>5, FlattenIs

\* ix puts 1..n in some order, and s are n parts in that order.
Permutes(ix, n) ==
  /\ \A k \in 1..n : ix[k] \in 1..n
  /\ \A i \in 1..n : \E k \in 1..n : ix[k] = i
  /\ \A k, l \in 1..n : ix[k] = ix[l] => k = l

PartsInOrder(s, payload, chunk, n, ix) ==
  Long(s, n) /\ \A k \in 1..n : IsPartOf(s[k], payload, chunk, n, ix[k])

\* feed_split puts the parts together, in whatever order they came: ix says which
\* part each is.
LEMMA PartsTogether ==
  ASSUME NEW payload, Sequence(payload), NEW chunk \in Nat, chunk > 0,
         NEW n, n = PartsOf(Len(payload), chunk), n # 0,
         NEW s, NEW ix, Permutes(ix, n), PartsInOrder(s, payload, chunk, n, ix)
  PROVE  Reassemble(s) = payload
<1>1. /\ \A k \in 1..n : ix[k] \in 1..n
      /\ \A i \in 1..n : \E k \in 1..n : ix[k] = i
      /\ \A k, l \in 1..n : ix[k] = ix[l] => k = l
      BY DEF Permutes
<1>2. Long(s, n) /\ \A k \in 1..n : IsPartOf(s[k], payload, chunk, n, ix[k])
      BY DEF PartsInOrder
<1> DEFINE len == Len(payload)
<1>3. len \in Nat /\ n \in Nat /\ n \in Nat \ {0} /\ 1 \in 1..n
  <2>1. len \in Nat
        BY Lengths
  <2>2. n \in Nat
        BY <2>1, EnoughParts
  <2>3. QED
        BY <2>1, <2>2
<1>4. ASSUME NEW k \in 1..n
      PROVE  /\ s[k].split # <<>> /\ s[k].split[1] = n /\ s[k].split[3] = ix[k] - 1
             /\ s[k].body = PartBody(payload, chunk, ix[k])
  <2>1. /\ \E id : s[k].split = <<n, id, ix[k] - 1>>
        /\ s[k].body = PartBody(payload, chunk, ix[k])
        BY <1>2 DEF IsPartOf
  <2>2. PICK id : s[k].split = <<n, id, ix[k] - 1>>
        BY <2>1
  <2>3. QED
        BY <2>1, <2>2, SplitIsSome
<1>5. DOMAIN s = 1..n
      BY <1>2, Lengths DEF Long
<1> DEFINE index(k) == s[k].split[3]
<1>6. \A k \in 1..n : index(k) = ix[k] - 1 /\ ix[k] \in Int /\ ix[k] \in 1..n
  <2> SUFFICES ASSUME NEW k \in 1..n
               PROVE  index(k) = ix[k] - 1 /\ ix[k] \in Int /\ ix[k] \in 1..n
      OBVIOUS
  <2>1. ix[k] \in 1..n
        BY <1>1
  <2>2. index(k) = ix[k] - 1
        BY <1>4
  <2>3. QED
        BY <2>1, <2>2
<1> HIDE DEF index
<1>7. {index(k) : k \in 1..n} = 0..(n - 1)
  <2>1. ASSUME NEW k \in 1..n PROVE index(k) \in 0..(n - 1)
    <3> DEFINE x == index(k)
               y == ix[k]
    <3>1. x = y - 1 /\ y \in 1..n
          BY <1>6
    <3> HIDE DEF x, y
    <3>2. x \in 0..(n - 1)
          BY <1>3, <3>1
    <3>3. QED
          BY <3>2 DEF x
  <2>2. ASSUME NEW v \in 0..(n - 1) PROVE \E k \in 1..n : v = index(k)
    <3>1. v + 1 \in 1..n /\ v \in Int
          BY <1>3
    <3>2. PICK k \in 1..n : ix[k] = v + 1
          BY <1>1, <3>1
    <3>3. index(k) = ix[k] - 1
          BY <1>6
    <3>4. index(k) = v
          BY <3>1, <3>2, <3>3
    <3>5. QED
          BY <3>4
  <2>3. QED
        BY <2>1, <2>2
<1>8. {s[k].split[3] : k \in DOMAIN s} = 0..(n - 1)
      BY <1>5, <1>7 DEF index
<1> DEFINE P(i) == [k \in DOMAIN s |-> IF s[k].split[3] = i THEN s[k].body ELSE <<>>]
<1>9. ASSUME NEW i \in 1..n PROVE FlattenSeq(P(i - 1)) = PartBody(payload, chunk, i)
  <2>1. PICK k \in 1..n : ix[k] = i
        BY <1>1
  <2> DEFINE p == P(i - 1)
  <2>2. p[k] = PartBody(payload, chunk, i)
        BY <1>4, <1>5, <2>1
  <2>3. \A l \in 1..n : l # k => p[l] = <<>>
    <3> SUFFICES ASSUME NEW l \in 1..n, l # k PROVE p[l] = <<>>
        OBVIOUS
    <3>1. ix[l] # i /\ ix[l] \in 1..n
          BY <1>1, <2>1
    <3>2. s[l].split[3] # i - 1
      <4> DEFINE x == index(l)
                 y == ix[l]
      <4>1. x = y - 1 /\ y \in Int
            BY <1>6
      <4>2. i \in Int /\ y # i
            BY <3>1
      <4>3. x = y - 1 /\ y \in Int /\ i \in Int /\ y # i
            BY <4>1, <4>2
      <4> HIDE DEF x, y
      <4>4. x # i - 1
            BY <4>3
      <4>5. QED
            BY <4>4 DEF index, x
    <3>3. QED
          BY <1>5, <3>2
  <2>4. Long(p, n)
    <3>1. p = [l \in 1..n |-> p[l]]
          BY <1>5
    <3> HIDE DEF p
    <3>2. QED
          BY <1>3, <3>1, FunctionIsSequence
  <2>5. Sequence(PartBody(payload, chunk, i))
    <3> DEFINE x == EndOf(i - 1, chunk, len)
               y == EndOf(i, chunk, len)
    <3>1. x \in 0..len /\ y \in x..len
          BY <1>3, PartBounds
    <3> HIDE DEF x, y
    <3>2. Within(payload, x, y, Slice(payload, x, y))
          BY <3>1, SliceWithin
    <3>3. Sequence(Slice(payload, x, y))
          BY <3>2 DEF Within
    <3>4. QED
          BY <3>3 DEF PartBody, x, y
  <2> HIDE DEF p
  <2>6. Sequence(p[k])
        BY <2>2, <2>5
  <2>7. FlattenSeq(p) = p[k]
        BY <1>3, <2>3, <2>4, <2>6, FlattenOnly
  <2>8. QED
        BY <2>2, <2>7 DEF p
<1>10. Reassemble(s) = FlattenSeq([i \in 1..n |-> FlattenSeq(P(i - 1))])
       BY <1>3, <1>4, <1>8 DEF Reassemble
<1> HIDE DEF P
<1>11. [i \in 1..n |-> FlattenSeq(P(i - 1))] = [i \in 1..n |-> PartBody(payload, chunk, i)]
       BY <1>9
<1>12. FlattenSeq([i \in 1..n |-> PartBody(payload, chunk, i)]) = payload
       BY PartsJoined
<1>13. QED
       BY <1>10, <1>11, <1>12

\* A payload that goes unsplit is its only frame, from either end.
LEMMA WholeTogether ==
  ASSUME NEW f, f.split = <<>>, NEW s, s = <<f>>
  PROVE  Reassemble(s) = f.body /\ Reassemble(Reverse(s)) = f.body
<1>1. Reverse(s) = s
  <2>1. Len(s) = 1 /\ s[1] = f
        OBVIOUS
  <2>2. Reverse(s) = [i \in 1..1 |-> s[(1 - i) + 1]]
        BY <2>1 DEF Reverse
  <2>3. s = [i \in 1..1 |-> f]
        OBVIOUS
  <2>4. \A i \in 1..1 : s[(1 - i) + 1] = f
        BY <2>1
  <2>5. QED
        BY <2>2, <2>3, <2>4
<1>2. s[1] = f
      OBVIOUS
<1>3. QED
      BY <1>1, <1>2 DEF Reassemble

\* However a payload is cut, its frames are put together to it, in either order.
LEMMA CutTogether ==
  ASSUME NEW payload, Sequence(payload), NEW mtu \in Nat, mtu >= 40,
         NEW id, NEW reliable, NEW order, NEW frames,
         frames = Frames(payload, mtu, id, reliable, order)
  PROVE  Reassemble(frames) = payload /\ Reassemble(Reverse(frames)) = payload
<1>1. Len(payload) \in Nat
      BY Lengths
<1>2. CASE Len(payload) <= mtu - 14
  <2> DEFINE f == Frame(ReliableOrdered, reliable, 0, order, <<>>, payload)
  <2>1. frames = <<f>>
        BY <1>2 DEF Frames
  <2>2. f.split = <<>> /\ f.body = payload
        BY DEF Frame
  <2> HIDE DEF f
  <2>3. QED
        BY <2>1, <2>2, WholeTogether
<1>3. CASE Len(payload) > mtu - 14
  <2> DEFINE chunk == ChunkOf(mtu)
             n == PartsOf(Len(payload), chunk)
             back == Reverse(frames)
  <2>1. /\ frames = [i \in 1..n |-> PartFrame(payload, mtu, n, id, reliable, order, i)]
        /\ n \in Nat \ {0} /\ chunk \in Nat /\ chunk > 0 /\ Long(frames, n)
        BY <1>3, PartsCut
  <2> HIDE DEF chunk, n
  <2>2. n = PartsOf(Len(payload), chunk) /\ n # 0
        BY <2>1 DEF n
  <2>3. ASSUME NEW i \in 1..n PROVE IsPartOf(frames[i], payload, chunk, n, i)
    <3>1. frames[i] = PartFrame(payload, mtu, n, id, reliable, order, i)
          BY <2>1
    <3>2. frames[i].split = <<n, id, i - 1>> /\ frames[i].body = PartBody(payload, chunk, i)
          BY <3>1 DEF PartFrame, Frame, chunk
    <3>3. QED
          BY <3>2 DEF IsPartOf
  <2>4. Reassemble(frames) = payload
    <3> DEFINE ix == [k \in 1..n |-> k]
    <3>1. \A k \in 1..n : ix[k] \in 1..n /\ IsPartOf(frames[k], payload, chunk, n, ix[k])
          BY <2>3
    <3>2. \A i \in 1..n : \E k \in 1..n : ix[k] = i
          OBVIOUS
    <3>3. \A k, l \in 1..n : ix[k] = ix[l] => k = l
          OBVIOUS
    <3> HIDE DEF ix
    <3>4. Permutes(ix, n)
          BY <3>1, <3>2, <3>3 DEF Permutes
    <3>5. PartsInOrder(frames, payload, chunk, n, ix)
          BY <2>1, <3>1 DEF PartsInOrder
    <3>6. QED
          BY <2>1, <2>2, <3>4, <3>5, PartsTogether
  <2>5. Reassemble(back) = payload
    <3> DEFINE ix == [k \in 1..n |-> (n - k) + 1]
    <3>1. /\ Long(back, n)
          /\ \A k \in 1..n : (n - k) + 1 \in 1..n /\ back[k] = frames[(n - k) + 1]
      <4>1. Len(frames) = n
            BY <2>1 DEF Long
      <4>2. back = [k \in 1..n |-> frames[(n - k) + 1]]
            BY <4>1 DEF Reverse
      <4>3. back = [k \in 1..n |-> back[k]]
            BY <4>2
      <4> HIDE DEF back
      <4>4. Long(back, n)
            BY <2>1, <4>3, FunctionIsSequence
      <4>5. QED
            BY <2>1, <4>2, <4>4
    <3> HIDE DEF back
    <3>2. \A k \in 1..n : ix[k] \in 1..n /\ IsPartOf(back[k], payload, chunk, n, ix[k])
      <4> SUFFICES ASSUME NEW k \in 1..n
                   PROVE  ix[k] \in 1..n /\ IsPartOf(back[k], payload, chunk, n, ix[k])
          OBVIOUS
      <4> DEFINE i == (n - k) + 1
      <4>1. i \in 1..n /\ back[k] = frames[i] /\ ix[k] = i
            BY <3>1
      <4> HIDE DEF i, ix
      <4>2. QED
            BY <2>3, <4>1
    <3>3. \A i \in 1..n : \E k \in 1..n : ix[k] = i
      <4> SUFFICES ASSUME NEW i \in 1..n PROVE \E k \in 1..n : ix[k] = i
          OBVIOUS
      <4>1. (n - i) + 1 \in 1..n /\ (n - ((n - i) + 1)) + 1 = i
            BY <2>1
      <4>2. QED
            BY <4>1
    <3>4. \A k, l \in 1..n : ix[k] = ix[l] => k = l
          BY <2>1
    <3> HIDE DEF ix
    <3>5. Permutes(ix, n)
          BY <3>2, <3>3, <3>4 DEF Permutes
    <3>6. PartsInOrder(back, payload, chunk, n, ix)
          BY <3>1, <3>2 DEF PartsInOrder
    <3>7. QED
          BY <2>1, <2>2, <3>5, <3>6, PartsTogether
  <2>6. QED
        BY <2>4, <2>5
<1>4. QED
      BY <1>1, <1>2, <1>3

(***************************************************************************)
(* Bits                                                                    *)
(***************************************************************************)
\* Each bit is worth twice the one before.
LEMMA BitSteps ==
  /\ Bit[0] = 1 /\ \A n \in 0..WordBits : Bit[n] \in Nat
  /\ \A n \in 1..WordBits : Bit[n] = 2 * Bit[n - 1]
<1> DEFINE F(f) == [n \in 0..WordBits |-> IF n = 0 THEN 1 ELSE 2 * f[n - 1]]
           step == [x \in Nat |-> 2 * x]
<1>1. WordBits \in Nat
      BY SizeAssumption
<1>2. step \in [Nat -> Nat]
      OBVIOUS
<1>3. PICK f \in [0..WordBits -> Nat] : Looping(f, WordBits, 1, step)
  <2> HIDE DEF step, F
  <2>1. QED
        BY <1>1, <1>2, Recursion
<1>4. f = F(f)
  <2>1. ASSUME NEW i \in 0..WordBits PROVE f[i] = IF i = 0 THEN 1 ELSE 2 * f[i - 1]
    <3>1. CASE i = 0
          BY <1>3, <3>1 DEF Looping
    <3>2. CASE i # 0
      <4>1. i \in 1..WordBits /\ i - 1 \in 0..WordBits
            BY <1>1, <3>2
      <4>2. f[i] = step[f[i - 1]] /\ f[i - 1] \in Nat
            BY <1>3, <4>1 DEF Looping
      <4>3. QED
            BY <3>2, <4>2
    <3>3. QED
          BY <3>1, <3>2
  <2>2. f = [i \in 0..WordBits |-> f[i]]
        BY <1>3
  <2>3. QED
        BY <2>1, <2>2
<1>5. Bit = F(Bit)
      BY <1>4 DEF Bit
<1>6. Bit[0] = 1 /\ \A i \in 1..WordBits : Bit[i] = 2 * Bit[i - 1]
  <2>1. \A i \in 0..WordBits : F(Bit)[i] = IF i = 0 THEN 1 ELSE 2 * Bit[i - 1]
        OBVIOUS
  <2> HIDE DEF F
  <2>2. QED
        BY <1>1, <1>5, <2>1
<1> DEFINE T == {i \in Nat : i <= WordBits => Bit[i] \in Nat}
<1>7. 0 \in T
      BY <1>6
<1>8. ASSUME NEW i \in T PROVE i + 1 \in T
  <2>1. SUFFICES ASSUME i + 1 <= WordBits PROVE Bit[i + 1] \in Nat
        OBVIOUS
  <2>2. Bit[i] \in Nat /\ i + 1 \in 1..WordBits /\ (i + 1) - 1 = i
        BY <1>1, <2>1
  <2>3. Bit[i + 1] = 2 * Bit[i]
        BY <1>6, <2>2
  <2>4. QED
        BY <2>2, <2>3
<1>9. T = Nat
  <2>1. T \in SUBSET Nat
        OBVIOUS
  <2> HIDE DEF T
  <2>2. QED
        BY <1>7, <1>8, <2>1, Induction
<1>10. \A n \in 0..WordBits : Bit[n] \in Nat
       BY <1>9
<1>11. QED
       BY <1>6, <1>10

\* A shift after a shift.
LEMMA BitPlus ==
  ASSUME NEW m \in Nat, NEW n \in Nat, m + n <= WordBits
  PROVE  Bit[m + n] = Bit[m] * Bit[n]
<1> DEFINE T == {i \in Nat : m + i <= WordBits => Bit[m + i] = Bit[m] * Bit[i]}
<1>1. WordBits \in Nat
      BY SizeAssumption
<1>2. m \in 0..WordBits /\ Bit[m] \in Nat
      BY <1>1, BitSteps
<1>3. 0 \in T
      BY <1>2, BitSteps
<1>4. ASSUME NEW i \in T PROVE i + 1 \in T
  <2>1. SUFFICES ASSUME m + (i + 1) <= WordBits PROVE Bit[m + (i + 1)] = Bit[m] * Bit[i + 1]
        OBVIOUS
  <2>2. /\ i \in Nat /\ m + (i + 1) \in 1..WordBits /\ (m + (i + 1)) - 1 = m + i
        /\ i + 1 \in 1..WordBits /\ (i + 1) - 1 = i /\ i \in 0..WordBits
        /\ m + i <= WordBits
        BY <1>1, <2>1
  <2>3. Bit[m + i] = Bit[m] * Bit[i]
        BY <2>2
  <2>4. Bit[m + (i + 1)] = 2 * Bit[m + i] /\ Bit[i + 1] = 2 * Bit[i] /\ Bit[i] \in Nat
        BY <2>2, BitSteps
  <2>5. \A x, y \in Nat : 2 * (x * y) = x * (2 * y)
        OBVIOUS
  <2>6. QED
        BY <1>2, <2>3, <2>4, <2>5
<1>5. T = Nat
  <2>1. T \in SUBSET Nat
        OBVIOUS
  <2> HIDE DEF T
  <2>2. QED
        BY <1>3, <1>4, <2>1, Induction
<1>6. QED
      BY <1>5

\* No bit is worth nothing, and none more than a later one.
LEMMA BitGrows ==
  ASSUME NEW m \in Nat, NEW n \in Nat, m <= n, n <= WordBits
  PROVE  Bit[m] \in Nat \ {0} /\ Bit[n] \in Nat \ {0} /\ Bit[m] <= Bit[n]
<1> DEFINE T == {i \in Nat : i <= WordBits => Bit[i] > 0}
<1>1. WordBits \in Nat
      BY SizeAssumption
<1>2. 0 \in T
      BY BitSteps
<1>3. ASSUME NEW i \in T PROVE i + 1 \in T
  <2>1. SUFFICES ASSUME i + 1 <= WordBits PROVE Bit[i + 1] > 0
        OBVIOUS
  <2>2. Bit[i] > 0 /\ i + 1 \in 1..WordBits /\ (i + 1) - 1 = i /\ i \in 0..WordBits
        BY <1>1, <2>1
  <2>3. Bit[i + 1] = 2 * Bit[i] /\ Bit[i] \in Nat
        BY <2>2, BitSteps
  <2>4. QED
        BY <2>2, <2>3
<1>4. T = Nat
  <2>1. T \in SUBSET Nat
        OBVIOUS
  <2> HIDE DEF T
  <2>2. QED
        BY <1>2, <1>3, <2>1, Induction
<1> DEFINE k == n - m
<1>5. k \in Nat /\ m + k = n /\ m \in 0..WordBits /\ n \in 0..WordBits /\ k \in 0..WordBits
      BY <1>1
<1>6. Bit[m] \in Nat \ {0} /\ Bit[n] \in Nat \ {0} /\ Bit[k] \in Nat \ {0}
      BY <1>4, <1>5, BitSteps
<1>7. Bit[n] = Bit[m] * Bit[k]
      BY <1>5, BitPlus
<1>8. \A x, y \in Nat \ {0} : x <= x * y
  <2> SUFFICES ASSUME NEW x \in Nat \ {0}, NEW y \in Nat \ {0} PROVE x <= x * y
      OBVIOUS
  <2>1. x * y = x * (y - 1) + x
        OBVIOUS
  <2>2. x * (y - 1) \in Nat
        OBVIOUS
  <2> DEFINE z == x * (y - 1)
  <2> HIDE DEF z
  <2>3. z \in Nat /\ x * y = z + x
        BY <2>1, <2>2 DEF z
  <2>4. QED
        BY <2>3
<1> HIDE DEF k
<1>9. QED
      BY <1>6, <1>7, <1>8

\* The first bits, and the seventeenth.
LEMMA BitValues ==
  /\ Bit[1] = 2 /\ Bit[2] = 4 /\ Bit[3] = 8 /\ Bit[4] = 16 /\ Bit[5] = 32 /\ Bit[6] = 64
  /\ Bit[7] = 128 /\ Bit[8] = 256 /\ Bit[16] = 65536
<1>1. WordBits \in Nat /\ WordBits >= 16
      BY SizeAssumption
<1>2. \A n \in 1..8 : n \in 1..WordBits
      BY <1>1
<1> DEFINE B == [n \in 0..8 |-> Bit[n]]
<1>3. B[0] = 1 /\ \A n \in 1..8 : B[n] = 2 * B[n - 1]
      BY <1>2, BitSteps
<1>4. \A n \in 1..8 : B[n] = Bit[n]
      OBVIOUS
<1> HIDE DEF B
<1>5. B[1] = 2
  <2>1. B[1] = 2 * B[1 - 1]
        BY <1>3
  <2>2. QED
        BY <1>3, <2>1
<1>6. B[2] = 2 * B[2 - 1] /\ B[3] = 2 * B[3 - 1] /\ B[4] = 2 * B[4 - 1]
      BY <1>3
<1>7. B[5] = 2 * B[5 - 1] /\ B[6] = 2 * B[6 - 1] /\ B[7] = 2 * B[7 - 1] /\ B[8] = 2 * B[8 - 1]
      BY <1>3
<1>8. 2 - 1 = 1 /\ 3 - 1 = 2 /\ 4 - 1 = 3 /\ 5 - 1 = 4 /\ 6 - 1 = 5 /\ 7 - 1 = 6 /\ 8 - 1 = 7
      OBVIOUS
<1>9. B[2] = 4
      BY <1>5, <1>6, <1>8
<1>10. B[3] = 8
      BY <1>9, <1>6, <1>8
<1>11. B[4] = 16
      BY <1>10, <1>6, <1>8
<1>12. B[5] = 32
      BY <1>11, <1>7, <1>8
<1>13. B[6] = 64
      BY <1>12, <1>7, <1>8
<1>14. B[7] = 128
      BY <1>13, <1>7, <1>8
<1>15. B[8] = 256
      BY <1>14, <1>7, <1>8
<1>16. Bit[16] = 65536
  <2>1. Bit[8] = 256
        BY <1>4, <1>15
  <2>2. Bit[8 + 8] = Bit[8] * Bit[8]
        BY <1>1, BitPlus
  <2>3. 8 + 8 = 16 /\ 256 * 256 = 65536
        OBVIOUS
  <2>4. QED
        BY <2>1, <2>2, <2>3
<1>17. QED
       BY <1>4, <1>5, <1>9, <1>10, <1>11, <1>12, <1>13, <1>14, <1>15, <1>16

\* A word is a number of bytes.
LEMMA WordBytes ==
  /\ WordSize \in Nat \ {0} /\ WordBits = 8 * WordSize /\ WordBits \in Nat
BY SizeAssumption DEF WordSize

\* A word is read as it was written.
LEMMA WordRead ==
  ASSUME NEW v \in Nat, v < Bit[WordBits]
  PROVE  FromLE(LE(WordSize, v)) = v
<1> DEFINE n == WordSize
           rest == Shifted(n, v)
<1>1. n \in Nat /\ WordBits = 8 * n /\ WordBits \in Nat
      BY WordBytes
<1> HIDE DEF n
<1>2. rest \in [0..n -> Nat] /\ rest[0] = v
      BY <1>1, ShiftedSteps
<1>3. \A i \in 1..n : rest[i] = rest[i - 1] \div 256
      BY <1>1, ShiftedSteps
<1> HIDE DEF rest
<1> DEFINE T == {i \in Nat : i <= n => rest[i] < Bit[8 * (n - i)]}
<1>4. 0 \in T
  <2>1. 8 * (n - 0) = WordBits
        BY <1>1
  <2>2. QED
        BY <1>2, <2>1
<1>5. ASSUME NEW i \in T PROVE i + 1 \in T
  <2>1. SUFFICES ASSUME i + 1 <= n PROVE rest[i + 1] < Bit[8 * (n - (i + 1))]
        BY <1>5
  <2> DEFINE m == 8 * (n - (i + 1))
  <2>2. /\ i \in 0..n /\ i + 1 \in 1..n /\ (i + 1) - 1 = i
        /\ m \in Nat /\ m + 8 = 8 * (n - i) /\ m + 8 <= WordBits
        BY <1>1, <1>5, <2>1
  <2>3. rest[i] < Bit[m + 8] /\ rest[i] \in Nat /\ rest[i + 1] = rest[i] \div 256
        BY <1>2, <1>3, <1>5, <2>1, <2>2
  <2>4. Bit[m + 8] = Bit[m] * 256 /\ Bit[m] \in Nat
    <3> HIDE DEF m
    <3>1. m \in 0..WordBits
          BY <1>1, <2>2
    <3>2. Bit[m + 8] = Bit[m] * Bit[8]
          BY <2>2, BitPlus
    <3>3. QED
          BY <3>1, <3>2, BitSteps, BitValues
  <2>5. \A x, y \in Nat : x < y * 256 => x \div 256 < y
        OBVIOUS
  <2> HIDE DEF m
  <2>6. rest[i + 1] < Bit[m]
        BY <2>3, <2>4, <2>5
  <2>7. QED
        BY <2>6 DEF m
<1>6. T = Nat
  <2>1. T \in SUBSET Nat
        OBVIOUS
  <2> HIDE DEF T
  <2>2. QED
        BY <1>4, <1>5, <2>1, Induction
<1>7. rest[n] < Bit[8 * (n - n)]
      BY <1>1, <1>6
<1>8. rest[n] = 0
  <2>1. 8 * (n - n) = 0 /\ n \in 0..n
        BY <1>1
  <2>2. rest[n] < 1 /\ rest[n] \in Nat
        BY <1>2, <1>7, <2>1, BitSteps
  <2>3. QED
        BY <2>2
<1>9. FromLE(LE(n, v)) = v
      BY <1>1, <1>8, NumberRead DEF rest
<1>10. QED
       BY <1>9 DEF n

\* The bits of a block tell the indices of a palette apart, those of 16 bits.
LEMMA BitsEnough ==
  ASSUME NEW size \in Nat
  PROVE  /\ BitsPerBlock(size) \in 1..16
         /\ \A x \in Nat : x < size /\ x < 2^16 => x < Bit[BitsPerBlock(size)]
<1>1. CASE size > 256
  <2>1. BitsPerBlock(size) = 16 /\ 2^16 = 65536
        BY <1>1 DEF BitsPerBlock
  <2>2. QED
        BY <2>1, BitValues
<1>2. CASE ~(size > 256)
  <2> DEFINE Enough(b) == size <= 2^b /\ (b = 1 \/ size > 2^(b - 1))
  <2>1. /\ 2^1 = 2 /\ 2^2 = 4 /\ 2^3 = 8 /\ 2^4 = 16 /\ 2^5 = 32 /\ 2^6 = 64 /\ 2^7 = 128
        /\ 2^8 = 256
        OBVIOUS
  <2>2. /\ size <= 2 => Enough(1)
        /\ size > 2 /\ size <= 4 => Enough(2)
        /\ size > 4 /\ size <= 8 => Enough(3)
        /\ size > 8 /\ size <= 16 => Enough(4)
        /\ size > 16 /\ size <= 32 => Enough(5)
        /\ size > 32 /\ size <= 64 => Enough(6)
        /\ size > 64 /\ size <= 128 => Enough(7)
        /\ size > 128 /\ size <= 256 => Enough(8)
        BY <2>1
  <2>3. \A b \in 1..8 : Enough(b) => size <= Bit[b]
    <3>1. /\ Enough(1) => size <= Bit[1]
          /\ Enough(2) => size <= Bit[2]
          /\ Enough(3) => size <= Bit[3]
          /\ Enough(4) => size <= Bit[4]
          /\ Enough(5) => size <= Bit[5]
          /\ Enough(6) => size <= Bit[6]
          /\ Enough(7) => size <= Bit[7]
          /\ Enough(8) => size <= Bit[8]
          BY <2>1, BitValues
    <3> HIDE DEF Enough
    <3>2. \A b \in 1..8 :
            b = 1 \/ b = 2 \/ b = 3 \/ b = 4 \/ b = 5 \/ b = 6 \/ b = 7 \/ b = 8
          OBVIOUS
    <3>3. QED
          BY <3>1, <3>2
  <2> HIDE DEF Enough
  <2>4. \E b \in 1..8 : Enough(b)
        BY <1>2, <2>2
  <2>5. BitsPerBlock(size) = CHOOSE b \in 1..8 : Enough(b)
        BY <1>2 DEF BitsPerBlock, Enough
  <2> DEFINE bits == BitsPerBlock(size)
  <2>6. bits \in 1..8 /\ Enough(bits)
        BY <2>4, <2>5
  <2> HIDE DEF bits
  <2>7. size <= Bit[bits]
        BY <2>3, <2>6
  <2>8. Bit[bits] \in Nat
    <3>1. bits \in 0..WordBits
          BY <2>6, SizeAssumption
    <3>2. QED
          BY <3>1, BitSteps
  <2>9. \A x \in Nat : x < size => x < Bit[bits]
        BY <2>7, <2>8
  <2>10. bits \in 1..16
         BY <2>6
  <2>11. QED
         BY <2>9, <2>10 DEF bits
<1>3. QED
      BY <1>1, <1>2

(***************************************************************************)
(* Subchunks and columns                                                   *)
(***************************************************************************)
\* The loop over the blocks, block by block.
LEMMA PackSteps ==
  ASSUME NEW blocks, NEW bits
  PROVE  \E packed : /\ packed[0] = [out |-> <<>>, word |-> 0, used |-> 0]
                     /\ \A i \in 1..Cells : packed[i] = Put(packed[i - 1], blocks[i - 1], bits)
                     /\ Pack(blocks, bits)
                          = IF packed[Cells].used > 0
                              THEN packed[Cells].out \o LE(WordSize, packed[Cells].word)
                              ELSE packed[Cells].out
<1> DEFINE begin == [out |-> <<>>, word |-> 0, used |-> 0]
           Loop(g, k) == g = [i \in 0..k |-> IF i = 0 THEN begin
                                               ELSE Put(g[i - 1], blocks[i - 1], bits)]
           S == {k \in Nat : \E g : Loop(g, k)}
<1> HIDE DEF begin
<1>1. Cells \in Nat /\ WordSize \in Nat
      BY SizeAssumption DEF WordSize
<1>2. 0 \in S
  <2>1. Loop([i \in 0..0 |-> begin], 0)
        OBVIOUS
  <2>2. QED
        BY <2>1
<1>3. ASSUME NEW k \in S PROVE k + 1 \in S
  <2>1. PICK f : Loop(f, k)
        BY <1>3
  <2> DEFINE g == [i \in 0..(k + 1) |-> IF i = k + 1 THEN Put(f[k], blocks[k], bits) ELSE f[i]]
  <2>2. Loop(g, k + 1)
    <3> DEFINE h == [i \in 0..(k + 1) |-> IF i = 0 THEN begin
                                          ELSE Put(g[i - 1], blocks[i - 1], bits)]
    <3> SUFFICES ASSUME NEW i \in 0..(k + 1) PROVE g[i] = h[i]
        OBVIOUS
    <3>1. k \in Nat
          BY <1>3
    <3>2. CASE i = k + 1
          BY <3>1, <3>2
    <3>3. CASE i \in 0..k /\ i # 0
      <4>1. f[i] = Put(f[i - 1], blocks[i - 1], bits)
            BY <2>1, <3>1, <3>3
      <4>2. g[i] = f[i] /\ g[i - 1] = f[i - 1]
            BY <3>1, <3>3
      <4>3. QED
            BY <3>3, <4>1, <4>2
    <3>4. CASE i = 0
      <4>1. f[0] = begin
            BY <2>1, <3>1
      <4>2. g[0] = f[0]
            BY <3>1
      <4>3. QED
            BY <3>4, <4>1, <4>2
    <3>5. QED
          BY <3>1, <3>2, <3>3, <3>4
  <2> HIDE DEF g, Loop
  <2>3. QED
        BY <1>3, <2>2
<1>4. \E g : Loop(g, Cells)
  <2>1. S = Nat
    <3>1. S \in SUBSET Nat
          OBVIOUS
    <3> HIDE DEF S
    <3>2. QED
          BY <1>2, <1>3, <3>1, Induction
  <2> HIDE DEF Loop
  <2>2. QED
        BY <1>1, <2>1
<1> DEFINE packed == CHOOSE g : Loop(g, Cells)
           end == packed[Cells]
<1>5. Pack(blocks, bits) = IF end.used > 0 THEN end.out \o LE(WordSize, end.word) ELSE end.out
      BY DEF Pack, begin
<1>6. Loop(packed, Cells)
  <2> HIDE DEF Loop
  <2>1. QED
        BY <1>4
<1> HIDE DEF packed
<1>7. packed[0] = begin /\ \A i \in 1..Cells : packed[i] = Put(packed[i - 1], blocks[i - 1], bits)
  <2> DEFINE G(g) == [i \in 0..Cells |-> IF i = 0 THEN begin
                                           ELSE Put(g[i - 1], blocks[i - 1], bits)]
  <2>1. \A i \in 0..Cells : G(packed)[i] = IF i = 0 THEN begin
                                             ELSE Put(packed[i - 1], blocks[i - 1], bits)
        OBVIOUS
  <2>2. packed = G(packed)
        BY <1>6
  <2> HIDE DEF G
  <2>3. \A i \in 0..Cells : packed[i] = IF i = 0 THEN begin
                                          ELSE Put(packed[i - 1], blocks[i - 1], bits)
        BY <2>1, <2>2
  <2>4. QED
        BY <1>1, <2>3
<1>8. QED
      BY <1>5, <1>7 DEF begin

\* What the loop over the blocks puts out is a sequence, by induction on the blocks.
LEMMA PackSequence ==
  ASSUME NEW blocks, NEW bits
  PROVE  Sequence(Pack(blocks, bits))
<1>1. Cells \in Nat /\ WordSize \in Nat
      BY SizeAssumption DEF WordSize
<1>2. PICK packed : /\ packed[0] = [out |-> <<>>, word |-> 0, used |-> 0]
                    /\ \A i \in 1..Cells : packed[i] = Put(packed[i - 1], blocks[i - 1], bits)
                    /\ Pack(blocks, bits)
                         = IF packed[Cells].used > 0
                             THEN packed[Cells].out \o LE(WordSize, packed[Cells].word)
                             ELSE packed[Cells].out
      BY PackSteps
<1> DEFINE end == packed[Cells]
<1> DEFINE T == {i \in Nat : i <= Cells => Sequence(packed[i].out)}
<1>3. 0 \in T
      BY <1>2, EmptySequence DEF Long
<1>4. ASSUME NEW i \in T PROVE i + 1 \in T
  <2>1. SUFFICES ASSUME i + 1 <= Cells PROVE Sequence(packed[i + 1].out)
        OBVIOUS
  <2>2. i + 1 \in 1..Cells /\ (i + 1) - 1 = i /\ Sequence(packed[i].out)
        BY <1>1, <2>1
  <2> DEFINE w == packed[i]
             word == (w.word + blocks[i] * Bit[w.used]) % Bit[WordBits]
  <2>3. packed[i + 1] = Put(w, blocks[i], bits)
        BY <1>2, <2>2
  <2>4. Put(w, blocks[i], bits).out \in {w.out, w.out \o LE(WordSize, word)}
    <3> HIDE DEF w
    <3>1. CASE w.used + bits >= WordBits
          BY <3>1 DEF Put
    <3>2. CASE ~(w.used + bits >= WordBits)
          BY <3>2 DEF Put
    <3>3. QED
          BY <3>1, <3>2
  <2>5. Sequence(LE(WordSize, word))
        BY <1>1, BytesOfNumber DEF Long
  <2> HIDE DEF word
  <2>6. Sequence(w.out) /\ Sequence(w.out \o LE(WordSize, word))
        BY <2>2, <2>5, ConcatSequence
  <2> HIDE DEF w
  <2>7. QED
        BY <2>3, <2>4, <2>6
<1>5. T = Nat
  <2>1. T \in SUBSET Nat
        OBVIOUS
  <2> HIDE DEF T
  <2>2. QED
        BY <1>3, <1>4, <2>1, Induction
<1>6. Sequence(end.out) /\ Sequence(LE(WordSize, end.word))
      BY <1>1, <1>5, BytesOfNumber DEF Long
<1>7. Pack(blocks, bits) = IF end.used > 0 THEN end.out \o LE(WordSize, end.word) ELSE end.out
      BY <1>2
<1> HIDE DEF end
<1>8. QED
      BY <1>6, <1>7, ConcatSequence

\* A subchunk has a palette, and it is not empty.
HasPalette(s) == s.palette \in Seq(Nat) \ {<<>>}

\* A subchunk is encoded to some bytes.
LEMMA EncodeSequence ==
  ASSUME NEW s, HasPalette(s)
  PROVE  Sequence(Encode(s))
<1> DEFINE size == Len(s.palette)
           bits == BitsPerBlock(size)
           ids == [i \in 1..size |-> WriteVarU32(s.palette[i])]
           a == <<Version, 1>>
           b == WriteVarU32(bits)
           c == Pack(s.blocks, bits)
           d == WriteVarU32(size)
           e == FlattenSeq(ids)
<1>1. size \in Nat \ {0} /\ \A i \in 1..size : s.palette[i] \in Nat
      BY LenProperties, EmptySeq, ElementOfSeq DEF HasPalette
<1>2. Encode(s) = a \o b \o c \o d \o e
      BY DEF Encode
<1>3. Sequence(a)
  <2>1. a \in Seq({Version, 1})
        OBVIOUS
  <2>2. QED
        BY <2>1 DEF Sequence
<1>4. Sequence(b) /\ Sequence(c) /\ Sequence(d)
  <2>1. size \in Int /\ bits \in Int
        BY <1>1, BitsEnough
  <2> HIDE DEF size, bits
  <2>2. Sequence(b) /\ Sequence(d)
        BY <2>1, VarIntSequence
  <2>3. Sequence(c)
        BY PackSequence
  <2>4. QED
        BY <2>2, <2>3
<1>5. Sequence(e)
  <2>1. Len(ids) = size /\ \A i \in 1..size : ids[i] = WriteVarU32(s.palette[i])
        BY <1>1
  <2>2. \A i \in 1..size : Sequence(ids[i])
    <3>1. SUFFICES ASSUME NEW i \in 1..size PROVE Sequence(ids[i])
          OBVIOUS
    <3>2. s.palette[i] \in Int /\ ids[i] = WriteVarU32(s.palette[i])
          BY <1>1, <2>1
    <3>3. Sequence(WriteVarU32(s.palette[i]))
          BY <3>2, VarIntSequence
    <3>4. QED
          BY <3>2, <3>3
  <2> HIDE DEF ids
  <2>3. QED
        BY <1>1, <2>1, <2>2, FlattenSequence
<1> HIDE DEF a, b, c, d, e
<1>6. Sequence(a \o b)
      BY <1>3, <1>4, ConcatSequence
<1>7. Sequence(a \o b \o c)
      BY <1>4, <1>6, ConcatSequence
<1>8. Sequence(a \o b \o c \o d)
      BY <1>4, <1>7, ConcatSequence
<1>9. QED
      BY <1>2, <1>5, <1>8, ConcatSequence

\* So is a column.
LEMMA ColumnSequence ==
  ASSUME HasPalette(sub)
  PROVE  Sequence(Column)
<1> DEFINE subs == <<sub, New>>
           height == NeededHeight(subs)
           pieces == [i \in 1..height |-> Sized(Encode(subs[i]))]
           a == <<LevelChunk>>
           b == WriteVarI32(0)
           c == WriteVarI32(-1)
           d == LE(4, height)
           e == <<0>>
           f == FlattenSeq(pieces)
           g == Zeros(13)
<1>1. HasPalette(New)
  <2>1. <<0>> \in Seq(Nat) /\ Len(<<0>>) = 1 /\ Len(<<>>) = 0
        OBVIOUS
  <2>2. <<0>> # <<>>
        BY <2>1
  <2>3. QED
        BY <2>1, <2>2 DEF HasPalette, New, Air
<1>2. DOMAIN subs = 1..2 /\ subs[1] = sub /\ subs[2] = New
      OBVIOUS
<1>3. height \in 1..2
  <2> DEFINE H == {i \in DOMAIN subs : ~IsEmpty(subs[i])} \union {1}
  <2>1. H = {1} \/ H = {1, 2}
        BY <1>2
  <2>2. Max({1}) = 1
        BY DEF Max
  <2>3. Max({1, 2}) \in {1, 2}
    <3>1. \A x, y \in Int : Max({x, y}) \in {x, y}
          BY MaxOfTwo
    <3>2. QED
          BY <3>1
  <2>4. height = Max(H)
        BY DEF NeededHeight
  <2> HIDE DEF H
  <2>5. QED
        BY <2>1, <2>2, <2>3, <2>4
<1>4. Column = a \o b \o c \o d \o e \o f \o g
      BY DEF Column, EncodeColumn
<1> HIDE DEF height
<1>5. Sequence(f)
  <2>1. Len(pieces) = height /\ \A i \in 1..height : pieces[i] = Sized(Encode(subs[i]))
        BY <1>3
  <2>2. ASSUME NEW i \in 1..height PROVE Sequence(pieces[i])
    <3>1. HasPalette(subs[i])
          BY <1>1, <1>2, <1>3
    <3>2. Sequence(Encode(subs[i]))
          BY <3>1, EncodeSequence
    <3>3. Sequence(LE(4, Len(Encode(subs[i]))))
          BY BytesOfNumber DEF Long
    <3>4. QED
          BY <2>1, <3>2, <3>3, ConcatSequence DEF Sized
  <2> HIDE DEF pieces
  <2>3. QED
        BY <1>3, <2>1, <2>2, FlattenSequence
<1>6. Sequence(a) /\ Sequence(e) /\ Sequence(d) /\ Sequence(g)
      BY OneSequence, BytesOfNumber, ZerosSequence DEF Long
<1>7. Sequence(b) /\ Sequence(c)
  <2>1. \A v \in Int : Sequence(WriteVarI32(v))
        BY VarIntSequence DEF WriteVarI32
  <2>2. QED
        BY <2>1
<1> HIDE DEF a, b, c, d, e, f, g
<1>8. Sequence(a \o b)
      BY <1>6, <1>7, ConcatSequence
<1>9. Sequence(a \o b \o c)
      BY <1>7, <1>8, ConcatSequence
<1>10. Sequence(a \o b \o c \o d)
       BY <1>6, <1>9, ConcatSequence
<1>11. Sequence(a \o b \o c \o d \o e)
       BY <1>6, <1>10, ConcatSequence
<1>12. Sequence(a \o b \o c \o d \o e \o f)
       BY <1>5, <1>11, ConcatSequence
<1>13. QED
       BY <1>4, <1>6, <1>12, ConcatSequence

\* A subchunk that set_block can have made.
IsSubChunk(s) ==
  /\ s.palette \in Seq(Nat) \ {<<>>} /\ s.palette[1] = Air
  /\ \A i \in 1..Len(s.palette) : s.palette[i] < 2^30
  /\ s.blocks \in [0..(Cells - 1) -> Nat]
  /\ \A c \in 0..(Cells - 1) : s.blocks[c] < Len(s.palette) /\ s.blocks[c] < 2^16

\* The index of an id is below the size of the palette, and has 16 bits.
LEMMA IndexFits ==
  ASSUME NEW n \in Nat
  PROVE  Index16(n) \in Nat /\ Index16(n) <= n /\ Index16(n) < 2^16
<1>1. 2^16 = 65536
      OBVIOUS
<1>2. n % 65536 \in Nat /\ n % 65536 <= n /\ n % 65536 < 65536
      OBVIOUS
<1>3. QED
      BY <1>1, <1>2 DEF Index16

\* An empty subchunk is one that set_block can have made.
LEMMA NewIsSubChunk == IsSubChunk(New) /\ New.palette = <<Air>>
<1>1. New.palette = <<Air>> /\ New.blocks = [c \in 0..(Cells - 1) |-> 0]
      BY DEF New
<1>2. <<Air>> \in Seq(Nat) \ {<<>>} /\ Len(<<Air>>) = 1 /\ <<Air>>[1] = Air
  <2>1. <<0>> \in Seq(Nat) /\ Len(<<0>>) = 1 /\ Len(<<>>) = 0 /\ <<0>>[1] = 0
        OBVIOUS
  <2>2. <<0>> # <<>>
        BY <2>1
  <2>3. QED
        BY <2>1, <2>2 DEF Air
<1>3. \A i \in 1..Len(New.palette) : New.palette[i] < 2^30
  <2>1. 0 < 2^30
        OBVIOUS
  <2>2. QED
        BY <1>1, <1>2, <2>1 DEF Air
<1>4. New.blocks \in [0..(Cells - 1) -> Nat]
      BY <1>1
<1>5. \A c \in 0..(Cells - 1) : New.blocks[c] < Len(New.palette) /\ New.blocks[c] < 2^16
  <2>1. 0 < 2^16
        OBVIOUS
  <2>2. QED
        BY <1>1, <1>2, <2>1
<1>6. QED
      BY <1>1, <1>2, <1>3, <1>4, <1>5 DEF IsSubChunk

\* set_block keeps the indices within the palette, and the ids short enough for the
\* VarInts of the wire.
THEOREM SubChunksStay == Spec => []IsSubChunk(sub)
<1> DEFINE Inv == DOMAIN sub = {"palette", "blocks"} /\ IsSubChunk(sub)
<1>1. Init => Inv
  <2>1. DOMAIN New = {"palette", "blocks"}
        BY DEF New
  <2>2. QED
        BY <2>1, NewIsSubChunk DEF Init
<1>2. Inv /\ [Next]_sub => Inv'
  <2> SUFFICES ASSUME Inv, [Next]_sub PROVE Inv'
      OBVIOUS
  <2> DEFINE size == Len(sub.palette)
  <2>1. /\ sub.palette \in Seq(Nat) \ {<<>>} /\ sub.palette[1] = Air
        /\ \A i \in 1..size : sub.palette[i] < 2^30
        /\ sub.blocks \in [0..(Cells - 1) -> Nat]
        /\ \A c \in 0..(Cells - 1) : sub.blocks[c] < size /\ sub.blocks[c] < 2^16
        /\ DOMAIN sub = {"palette", "blocks"}
        BY DEF IsSubChunk
  <2>2. size \in Nat \ {0}
        BY <2>1, LenProperties, EmptySeq
  <2>3. CASE sub' = sub
        BY <2>3 DEF IsSubChunk
  <2>4. ASSUME NEW c \in Touched, NEW id \in RuntimeId, SetBlock(c, id) PROVE Inv'
    <3>1. id \in Nat /\ id < 2^30 /\ c \in 0..(Cells - 1)
          BY SizeAssumption
    <3>2. CASE Contains(sub.palette, id)
      <4> DEFINE k == SelectInSeq(sub.palette, LAMBDA e : e = id)
                 I == {i \in 1..size : sub.palette[i] = id}
                 x == Index16(k - 1)
      <4>1. k \in 1..size
        <5>1. I # {} /\ I \in SUBSET Nat
              BY <3>2 DEF Contains
        <5>2. k = Min(I)
              BY <5>1 DEF SelectInSeq
        <5>3. I \subseteq 1..size
              OBVIOUS
        <5> HIDE DEF I, k
        <5>4. Min(I) \in I
              BY <5>1, MinOfSome
        <5>5. QED
              BY <5>2, <5>3, <5>4
      <4>2. sub' = [sub EXCEPT !.blocks[c] = x]
            BY <2>4, <3>2 DEF SetBlock
      <4> HIDE DEF k
      <4>3. k - 1 \in Nat /\ k - 1 < size
            BY <2>2, <4>1
      <4>4. x \in Nat /\ x < size /\ x < 2^16
        <5> DEFINE n == k - 1
        <5>1. n \in Nat /\ n < size
              BY <4>3
        <5> HIDE DEF n, size
        <5>2. Index16(n) \in Nat /\ Index16(n) <= n /\ Index16(n) < 2^16
              BY <5>1, IndexFits
        <5>3. QED
              BY <2>2, <5>1, <5>2 DEF n
      <4> HIDE DEF x
      <4>5. /\ DOMAIN sub' = DOMAIN sub /\ sub'.palette = sub.palette
            /\ sub'.blocks = [sub.blocks EXCEPT ![c] = x]
            BY <2>1, <4>2
      <4>6. sub'.blocks \in [0..(Cells - 1) -> Nat]
            BY <2>1, <4>4, <4>5
      <4>7. \A d \in 0..(Cells - 1) : sub'.blocks[d] < size /\ sub'.blocks[d] < 2^16
            BY <2>1, <4>4, <4>5
      <4>8. QED
            BY <2>1, <4>5, <4>6, <4>7 DEF IsSubChunk
    <3>3. CASE ~Contains(sub.palette, id)
      <4> DEFINE x == Index16(size)
                 ids == Append(sub.palette, id)
      <4>1. sub' = [palette |-> ids, blocks |-> [sub.blocks EXCEPT ![c] = x]]
            BY <2>4, <3>3 DEF SetBlock
      <4>2. x \in Nat /\ x <= size /\ x < 2^16
            BY <2>2, IndexFits
      <4>3. /\ ids \in Seq(Nat) /\ Len(ids) = size + 1 /\ ids[size + 1] = id
            /\ \A i \in 1..size : ids[i] = sub.palette[i]
            BY <2>1, <3>1, AppendProperties
      <4> HIDE DEF x, ids
      <4>4. DOMAIN sub' = {"palette", "blocks"} /\ sub'.palette = ids
            /\ sub'.blocks = [sub.blocks EXCEPT ![c] = x]
            BY <4>1
      <4>5. ids # <<>>
        <5>1. Len(ids) # 0
              BY <2>2, <4>3
        <5>2. QED
              BY <4>3, <5>1, EmptySeq
      <4>6. ids[1] = Air /\ \A i \in 1..Len(ids) : ids[i] < 2^30
        <5>1. 1 \in 1..size
              BY <2>2
        <5>2. \A i \in 1..Len(ids) : i = size + 1 \/ i \in 1..size
              BY <2>2, <4>3
        <5>3. QED
              BY <2>1, <3>1, <4>3, <5>1, <5>2
      <4>7. sub'.blocks \in [0..(Cells - 1) -> Nat]
            BY <2>1, <4>2, <4>4
      <4>8. \A d \in 0..(Cells - 1) : sub'.blocks[d] < Len(ids) /\ sub'.blocks[d] < 2^16
        <5>1. SUFFICES ASSUME NEW d \in 0..(Cells - 1)
                       PROVE  sub'.blocks[d] < Len(ids) /\ sub'.blocks[d] < 2^16
              OBVIOUS
        <5>2. sub'.blocks[d] = x \/ sub'.blocks[d] = sub.blocks[d]
              BY <2>1, <4>4
        <5>3. sub.blocks[d] \in Nat /\ sub.blocks[d] < size /\ sub.blocks[d] < 2^16
              BY <2>1
        <5> DEFINE y == sub'.blocks[d]
                   z == sub.blocks[d]
        <5>4. (y = x \/ y = z) /\ z \in Nat /\ z < size /\ z < 2^16
              BY <5>2, <5>3
        <5> HIDE DEF y, z, size
        <5>5. y < Len(ids) /\ y < 2^16
              BY <2>2, <4>2, <4>3, <5>4
        <5>6. QED
              BY <5>5 DEF y
      <4>9. QED
            BY <4>3, <4>4, <4>5, <4>6, <4>7, <4>8 DEF IsSubChunk
    <3>4. QED
          BY <3>2, <3>3
  <2>5. QED
        BY <2>3, <2>4 DEF Next
<1>3. QED
      BY <1>1, <1>2, PTL DEF Spec

\* Every subchunk that set_block makes has a palette.
LEMMA PaletteStays == Spec => []HasPalette(sub)
<1>1. IsSubChunk(sub) => HasPalette(sub)
      BY DEF IsSubChunk, HasPalette
<1>2. QED
      BY <1>1, SubChunksStay, PTL

\* What the assumptions say of the MTU and the numbers of datagrams.
LEMMA Limits ==
  /\ MinMtu \in Nat /\ MaxMtu \in Nat /\ MinMtu >= 40 /\ MinMtu <= MaxMtu /\ MaxMtu < 2^13
  /\ FirstNumber \in Nat
<1>1. MinMtu \in 40..MaxMtu
      BY OfflineAssumption
<1>2. MaxMtu \in 40..(2^16 - 1)
      BY OfflineAssumption
<1>3. MaxMtu < 2^13
      BY PathAssumption
<1>4. FirstNumber \in 0..(2^24 - 1)
      BY PathAssumption
<1>5. MinMtu \in Nat /\ MaxMtu \in Nat /\ MinMtu >= 40 /\ MinMtu <= MaxMtu
      BY <1>1, <1>2
<1>6. FirstNumber \in Nat
      BY <1>4
<1>7. QED
      BY <1>3, <1>5, <1>6

(***************************************************************************)
(* The handshake                                                           *)
(***************************************************************************)
\* An address of IPv4.
Address == [version : {4}, octets : [1..4 -> 0..255], port : 0..(2^16 - 1)]

\* The seven bytes of an address.
LEMMA AddressWritten ==
  ASSUME NEW a \in Address
  PROVE  /\ Long(WriteAddress(a), 7)
         /\ Within(WriteAddress(a), 0, 1, <<4>>)
         /\ Within(WriteAddress(a), 1, 5, Inverted(a.octets))
         /\ Within(WriteAddress(a), 5, 7, BE(2, a.port))
<1> DEFINE p == <<4>>
           q == Inverted(a.octets)
           r == BE(2, a.port)
<1>1. WriteAddress(a) = p \o q \o r
      BY DEF WriteAddress, Address
<1>2. Long(p, 1)
      BY OneSequence DEF Long
<1>3. Long(q, 4)
  <2>1. DOMAIN a.octets = 1..4
        BY DEF Address
  <2>2. q = [i \in 1..4 |-> q[i]]
        BY <2>1 DEF Inverted
  <2> HIDE DEF q
  <2>3. QED
        BY <2>2, FunctionIsSequence
<1>4. Long(r, 2)
      BY BytesOfNumber
<1> HIDE DEF p, q, r
<1>5. Within(p \o q, 1, 5, q) /\ Long(p \o q, 5)
      BY <1>2, <1>3, WithinEnd
<1>6. Within(p \o q \o r, 5, 7, r) /\ Long(p \o q \o r, 7)
      BY <1>4, <1>5, WithinEnd
<1>7. Within(p, 0, 1, p)
      BY <1>2, WithinAll
<1>8. Within(p \o q, 0, 1, p)
      BY <1>3, <1>7, WithinOn DEF Long
<1>9. Within(p \o q \o r, 0, 1, p) /\ Within(p \o q \o r, 1, 5, q)
      BY <1>4, <1>5, <1>8, WithinOn DEF Long
<1>10. QED
      BY <1>1, <1>6, <1>9 DEF p, q, r

\* An address is read as it was written.
LEMMA AddressRead ==
  ASSUME NEW a \in Address, NEW buf, NEW at \in Nat, NEW to,
         Within(buf, at, to, WriteAddress(a))
  PROVE  ReadAddress(buf, at) = a /\ ReadAddress(buf, at) # NoPacket
<1> DEFINE w == WriteAddress(a)
<1>1. /\ Long(w, 7) /\ Within(w, 0, 1, <<4>>)
      /\ Within(w, 1, 5, Inverted(a.octets)) /\ Within(w, 5, 7, BE(2, a.port))
      BY AddressWritten
<1> HIDE DEF w
<1>2. /\ Within(buf, at + 0, at + 1, <<4>>)
      /\ Within(buf, at + 1, at + 5, Inverted(a.octets))
      /\ Within(buf, at + 5, at + 7, BE(2, a.port))
      BY <1>1, WithinPart DEF w
<1>3. ~(at + 7 > Len(buf))
  <2>1. at + 7 <= Len(buf) /\ Len(buf) \in Nat
        BY <1>2, Lengths DEF Within
  <2>2. QED
        BY <2>1
<1>4. buf[at + 1] = 4
  <2>1. <<4>>[1] = 4 /\ at + 0 = at /\ at < at + 1
        OBVIOUS
  <2>2. Within(buf, at, at + 1, <<4>>)
        BY <1>2, <2>1
  <2>3. QED
        BY <2>1, <2>2, WithinFirst
<1>5. /\ Slice(buf, at + 1, at + 5) = Inverted(a.octets)
      /\ Slice(buf, at + 5, at + 7) = BE(2, a.port)
      BY <1>2, WithinSlice
<1>6. FromBE(BE(2, a.port)) = a.port
      BY BytesRead DEF Address
<1>7. Inverted(Inverted(a.octets)) = a.octets
  <2>1. a.octets \in [1..4 -> 0..255]
        BY DEF Address
  <2>2. \A i \in 1..4 : 255 - (255 - a.octets[i]) = a.octets[i]
        BY <2>1
  <2>3. Inverted(a.octets) = [i \in 1..4 |-> 255 - a.octets[i]]
        BY <2>1 DEF Inverted
  <2>4. Inverted(Inverted(a.octets)) = [i \in 1..4 |-> 255 - (255 - a.octets[i])]
        BY <2>3 DEF Inverted
  <2>5. QED
        BY <2>1, <2>2, <2>4
<1>8. ReadAddress(buf, at) = [version |-> 4, octets |-> a.octets, port |-> a.port]
      BY <1>3, <1>4, <1>5, <1>6, <1>7 DEF ReadAddress
<1>9. [version |-> 4, octets |-> a.octets, port |-> a.port] = a
      BY DEF Address
<1>10. a # NoPacket
  <2>1. DOMAIN a = {"version", "octets", "port"} /\ DOMAIN NoPacket = {"failed"}
        BY DEF Address, NoPacket
  <2>2. "version" \notin {"failed"}
        OBVIOUS
  <2>3. QED
        BY <2>1, <2>2
<1>11. QED
      BY <1>8, <1>9, <1>10

\* The lengths of what every packet has.
LEMMA Constants ==
  /\ Long(Magic, 16) /\ Long(Guid, 8) /\ Long(Flag(Online), 1)
  /\ MinMtu \in 40..(2^16 - 1) /\ MaxMtu \in 40..(2^16 - 1)
  /\ \A b : Long(<<b>>, 1)
  /\ Server \in Address /\ Client \in Address
<1>1. Long(Magic, 16)
  <2>1. Magic \in Seq(0..255) /\ Len(Magic) = 16
        BY DEF Magic
  <2>2. QED
        BY <2>1 DEF Long, Sequence
<1>2. Long(Guid, 8)
      BY OfflineAssumption DEF Long, Sequence
<1>3. \A b : Long(<<b>>, 1)
      BY OneSequence
<1>4. Long(Flag(Online), 1)
      BY <1>3 DEF Flag
<1>5. MinMtu \in 40..(2^16 - 1) /\ MaxMtu \in 40..(2^16 - 1)
      BY OfflineAssumption
<1>6. Server \in Address /\ Client \in Address
      BY DEF Server, Client, Address
<1>7. QED
      BY <1>1, <1>2, <1>3, <1>4, <1>5, <1>6

\* The magic is found where it was written.
LEMMA MagicRead ==
  ASSUME NEW buf, NEW at \in Nat, NEW to \in Nat, to = at + 16, Within(buf, at, to, Magic)
  PROVE  HasMagic(buf, at)
<1>1. to <= Len(buf)
      BY DEF Within
<1>2. Slice(buf, at, at + 16) = Magic
      BY WithinSlice
<1>3. QED
      BY <1>1, <1>2 DEF HasMagic

\* So is the byte that names it.
LEMMA NameRead ==
  ASSUME NEW buf, NEW b, Within(buf, 0, 1, <<b>>)
  PROVE  buf # <<>> /\ buf[1] = b
<1>1. Sequence(buf) /\ 1 <= Len(buf)
      BY DEF Within
<1>2. buf # <<>>
  <2>1. Len(buf) \in Nat /\ (Len(buf) = 0 <=> buf = <<>>)
        BY <1>1, Lengths
  <2>2. QED
        BY <1>1, <2>1
<1>3. buf[0 + 1] = <<b>>[1]
      BY WithinFirst
<1>4. QED
      BY <1>2, <1>3

\* The MTU that a probe of this length is answered with.
MtuOfProbe(probe) == Min({probe + 10, MaxMtu})

\* It is an MTU, within the probe and the maximum.
LEMMA MtuRange ==
  ASSUME NEW probe \in Probes
  PROVE  /\ probe \in 18..(2^16 - 29)
         /\ MtuOfProbe(probe) \in 0..(2^16 - 1)
         /\ MtuOfProbe(probe) <= probe + 10 /\ MtuOfProbe(probe) <= MaxMtu
         /\ Min({MtuOfProbe(probe), MaxMtu}) = MtuOfProbe(probe)
<1>1. probe \in 18..(2^16 - 29)
      BY PathAssumption
<1> DEFINE m == MtuOfProbe(probe)
           n == probe + 10
<1>2. n \in 28..(2^16 - 1) /\ MaxMtu \in 40..(2^16 - 1)
      BY <1>1, Constants
<1> HIDE DEF n
<1>3. Min({n, MaxMtu}) \in {n, MaxMtu} /\ Min({n, MaxMtu}) <= n /\ Min({n, MaxMtu}) <= MaxMtu
  <2>1. n \in Int /\ MaxMtu \in Int
        BY <1>2
  <2>2. QED
        BY <2>1, MinOfTwo
<1>4. m = Min({n, MaxMtu})
      BY DEF MtuOfProbe, n
<1> HIDE DEF m
<1>5. m \in 0..(2^16 - 1) /\ m <= n /\ m <= MaxMtu
      BY <1>2, <1>3, <1>4
<1>6. Min({m, MaxMtu}) \in {m, MaxMtu} /\ Min({m, MaxMtu}) <= m
      BY <1>2, <1>5, MinOfTwo
<1>7. Min({m, MaxMtu}) = m
      BY <1>2, <1>5, <1>6
<1>8. QED
      BY <1>1, <1>5, <1>7 DEF m, n

\* The first request, as the server reads it.
LEMMA Request1Read ==
  ASSUME NEW version, NEW probe \in Probes
  PROVE  DecodeOffline(Request1(version, probe))
           = [is |-> "request1", version |-> version, mtu |-> MtuOfProbe(probe)]
<1> DEFINE p == <<5>>
           v == <<version>>
           n == probe - 18
           z == Zeros(n)
           buf == p \o Magic \o v \o z
<1>1. /\ n \in Nat /\ probe = 18 + n /\ probe \in Nat
      /\ (probe - 18 + 28) % 2^16 = probe + 10
  <2>1. probe \in 18..(2^16 - 29)
        BY MtuRange
  <2>2. probe - 18 + 28 = probe + 10 /\ probe + 10 \in 0..(2^16 - 1)
        BY <2>1
  <2>3. (probe + 10) % 2^16 = probe + 10
        BY <2>2
  <2>4. QED
        BY <2>1, <2>2, <2>3
<1>2. Long(p, 1) /\ Long(Magic, 16) /\ Long(v, 1) /\ Long(z, n)
      BY <1>1, Constants, ZerosSequence
<1>3. Request1(version, probe) = buf
      BY DEF Request1
<1> HIDE DEF p, v, n, z
<1>4. Within(p, 0, 1, p)
      BY <1>2, WithinAll
<1>5. Within(p \o Magic, 1, 17, Magic) /\ Long(p \o Magic, 17)
      BY <1>2, WithinEnd
<1>6. Within(p \o Magic \o v, 17, 18, v) /\ Long(p \o Magic \o v, 18)
      BY <1>2, <1>5, WithinEnd
<1>7. Long(buf, probe)
      BY <1>1, <1>2, <1>6, ConcatLong
<1>8. /\ Within(p \o Magic, 0, 1, p)
      /\ Within(p \o Magic \o v, 0, 1, p) /\ Within(p \o Magic \o v, 1, 17, Magic)
      BY <1>2, <1>4, <1>5, WithinOn DEF Long
<1>9. Within(buf, 0, 1, p) /\ Within(buf, 1, 17, Magic) /\ Within(buf, 17, 18, v)
      BY <1>2, <1>6, <1>8, WithinOn DEF Long
<1> HIDE DEF buf
<1>10. buf # <<>> /\ buf[1] = 5
       BY <1>9, NameRead DEF p
<1>11. HasMagic(buf, 1)
       BY <1>9, MagicRead
<1>12. buf[18] = version
  <2>1. buf[17 + 1] = v[1]
        BY <1>9, WithinFirst
  <2>2. QED
        BY <2>1 DEF v
<1>13. Len(buf) = probe /\ ~(Len(buf) < 18)
       BY <1>1, <1>7 DEF Long
<1>14. DecodeOffline(buf) = DecodeRequest1(buf)
       BY <1>10 DEF DecodeOffline
<1>15. DecodeRequest1(buf)
         = [is |-> "request1", version |-> version, mtu |-> MtuOfProbe(probe)]
       BY <1>1, <1>11, <1>12, <1>13 DEF DecodeRequest1, MtuOfProbe
<1>16. QED
       BY <1>3, <1>14, <1>15

\* It is answered with that MTU, or told that its version is another.
LEMMA Request1Answered ==
  ASSUME NEW client, NEW version, NEW probe \in Probes
  PROVE  Reply(client, Request1(version, probe))
           = IF version = RaknetProtocolVersion
               THEN Reply1(MtuOfProbe(probe)) ELSE IncompatibleProtocol
<1> DEFINE buf == Request1(version, probe)
           packet == DecodeOffline(buf)
<1>1. packet = [is |-> "request1", version |-> version, mtu |-> MtuOfProbe(probe)]
      BY Request1Read
<1>2. packet # NoPacket
  <2>1. DOMAIN packet = {"is", "version", "mtu"} /\ DOMAIN NoPacket = {"failed"}
        BY <1>1 DEF NoPacket
  <2>2. "is" \notin {"failed"}
        OBVIOUS
  <2>3. QED
        BY <2>1, <2>2
<1>3. packet.is = "request1" /\ packet.version = version /\ packet.mtu = MtuOfProbe(probe)
      BY <1>1
<1>4. Min({packet.mtu, MaxMtu}) = MtuOfProbe(probe)
      BY <1>3, MtuRange
<1> HIDE DEF packet
<1>5. Reply(client, buf) = IF packet.version = RaknetProtocolVersion
                             THEN Reply1(Min({packet.mtu, MaxMtu})) ELSE IncompatibleProtocol
      BY <1>2, <1>3 DEF Reply, packet
<1>6. QED
      BY <1>3, <1>4, <1>5

\* The client reads the MTU that it is answered.
LEMMA Reply1Read ==
  ASSUME NEW mtu \in 0..(2^16 - 1)
  PROVE  MtuOfReply1(Reply1(mtu)) = mtu
<1> DEFINE p == <<6>>
           f == Flag(Online)
           m == BE(2, mtu)
<1>1. Long(p, 1) /\ Long(Magic, 16) /\ Long(Guid, 8) /\ Long(f, 1) /\ Long(m, 2)
      BY Constants, BytesOfNumber
<1>2. Reply1(mtu) = p \o Magic \o Guid \o f \o m
      BY DEF Reply1
<1> HIDE DEF p, f, m
<1>3. Long(p \o Magic, 17)
      BY <1>1, ConcatLong
<1>4. Long(p \o Magic \o Guid, 25)
      BY <1>1, <1>3, ConcatLong
<1>5. Long(p \o Magic \o Guid \o f, 26)
      BY <1>1, <1>4, ConcatLong
<1>6. Within(Reply1(mtu), 26, 28, m)
      BY <1>1, <1>2, <1>5, WithinEnd
<1>7. Slice(Reply1(mtu), 26, 28) = m
      BY <1>6, WithinSlice
<1>8. QED
      BY <1>7, BytesRead DEF MtuOfReply1, m

\* The second request, as the server reads it.
LEMMA Request2Read ==
  ASSUME NEW mtu \in 0..(2^16 - 1)
  PROVE  /\ DecodeRequest2(Request2(Server, mtu)) = [is |-> "request2", mtu |-> mtu]
         /\ DecodeOffline(Request2(Server, mtu)) = [is |-> "request2", mtu |-> mtu]
<1> DEFINE p == <<7>>
           a == WriteAddress(Server)
           m == BE(2, mtu)
           z == Zeros(8)
           buf == p \o Magic \o a \o m \o z
<1>1. Long(p, 1) /\ Long(Magic, 16) /\ Long(a, 7) /\ Long(m, 2) /\ Long(z, 8)
      BY Constants, BytesOfNumber, ZerosSequence, AddressWritten
<1>2. Request2(Server, mtu) = buf
      BY DEF Request2
<1> HIDE DEF p, a, m, z
<1>3. Within(p, 0, 1, p)
      BY <1>1, WithinAll
<1>4. Within(p \o Magic, 1, 17, Magic) /\ Long(p \o Magic, 17)
      BY <1>1, WithinEnd
<1>5. Within(p \o Magic \o a, 17, 24, a) /\ Long(p \o Magic \o a, 24)
      BY <1>1, <1>4, WithinEnd
<1>6. Within(p \o Magic \o a \o m, 24, 26, m) /\ Long(p \o Magic \o a \o m, 26)
      BY <1>1, <1>5, WithinEnd
<1>7. Long(buf, 34)
      BY <1>1, <1>6, ConcatLong
<1>8. Within(p \o Magic, 0, 1, p)
      BY <1>1, <1>3, WithinOn DEF Long
<1>9. Within(p \o Magic \o a, 0, 1, p) /\ Within(p \o Magic \o a, 1, 17, Magic)
      BY <1>1, <1>4, <1>8, WithinOn DEF Long
<1>10. /\ Within(p \o Magic \o a \o m, 0, 1, p) /\ Within(p \o Magic \o a \o m, 1, 17, Magic)
       /\ Within(p \o Magic \o a \o m, 17, 24, a)
       BY <1>1, <1>5, <1>9, WithinOn DEF Long
<1>11. /\ Within(buf, 0, 1, p) /\ Within(buf, 1, 17, Magic)
       /\ Within(buf, 17, 24, a) /\ Within(buf, 24, 26, m)
       BY <1>1, <1>6, <1>10, WithinOn DEF Long
<1> HIDE DEF buf
<1>12. buf # <<>> /\ buf[1] = 7
       BY <1>11, NameRead DEF p
<1>13. HasMagic(buf, 1)
       BY <1>11, MagicRead
<1>14. ReadAddress(buf, 17) # NoPacket
       BY <1>11, AddressRead, Constants DEF a
<1>15. FromBE(Slice(buf, 24, 26)) = mtu
  <2>1. Slice(buf, 24, 26) = m
        BY <1>11, WithinSlice
  <2>2. QED
        BY <2>1, BytesRead DEF m
<1>16. ~(Len(buf) < 34)
       BY <1>7 DEF Long
<1>17. DecodeRequest2(buf) = [is |-> "request2", mtu |-> mtu]
       BY <1>13, <1>14, <1>15, <1>16 DEF DecodeRequest2
<1>18. DecodeOffline(buf) = DecodeRequest2(buf)
       BY <1>12 DEF DecodeOffline
<1>19. QED
       BY <1>2, <1>17, <1>18

\* It is answered with the same MTU.
LEMMA Request2Answered ==
  ASSUME NEW mtu \in 0..(2^16 - 1), Min({mtu, MaxMtu}) = mtu
  PROVE  Reply(Client, Request2(Server, mtu)) = Reply2(Client, mtu)
<1> DEFINE buf == Request2(Server, mtu)
           packet == DecodeOffline(buf)
<1>1. packet = [is |-> "request2", mtu |-> mtu]
      BY Request2Read
<1>2. packet # NoPacket
  <2>1. DOMAIN packet = {"is", "mtu"} /\ DOMAIN NoPacket = {"failed"}
        BY <1>1 DEF NoPacket
  <2>2. "is" \notin {"failed"}
        OBVIOUS
  <2>3. QED
        BY <2>1, <2>2
<1>3. packet.is = "request2" /\ packet.mtu = mtu
      BY <1>1
<1> HIDE DEF packet
<1>4. Reply(Client, buf) = Reply2(Client, Min({packet.mtu, MaxMtu}))
      BY <1>2, <1>3 DEF Reply, packet
<1>5. QED
      BY <1>3, <1>4

\* The client reads that, and its own address.
LEMMA Reply2Read ==
  ASSUME NEW mtu \in 0..(2^16 - 1)
  PROVE  /\ MtuOfReply2(Reply2(Client, mtu)) = mtu
         /\ ReadAddress(Reply2(Client, mtu), 25) = Client
<1> DEFINE p == <<8>>
           a == WriteAddress(Client)
           m == BE(2, mtu)
           f == Flag(Online)
           buf == p \o Magic \o Guid \o a \o m \o f
<1>1. /\ Long(p, 1) /\ Long(Magic, 16) /\ Long(Guid, 8)
      /\ Long(a, 7) /\ Long(m, 2) /\ Long(f, 1)
      BY Constants, BytesOfNumber, AddressWritten
<1>2. Reply2(Client, mtu) = buf
      BY DEF Reply2
<1> HIDE DEF p, a, m, f
<1>3. Long(p \o Magic, 17)
      BY <1>1, ConcatLong
<1>4. Long(p \o Magic \o Guid, 25)
      BY <1>1, <1>3, ConcatLong
<1>5. Within(p \o Magic \o Guid \o a, 25, 32, a) /\ Long(p \o Magic \o Guid \o a, 32)
      BY <1>1, <1>4, WithinEnd
<1>6. Within(p \o Magic \o Guid \o a \o m, 32, 34, m)
      BY <1>1, <1>5, WithinEnd
<1>7. Within(p \o Magic \o Guid \o a \o m, 25, 32, a)
      BY <1>1, <1>5, WithinOn DEF Long
<1>8. Within(buf, 25, 32, a) /\ Within(buf, 32, 34, m)
      BY <1>1, <1>6, <1>7, WithinOn DEF Long
<1> HIDE DEF buf
<1>9. Slice(buf, 32, 34) = m
      BY <1>8, WithinSlice
<1>10. FromBE(m) = mtu
       BY BytesRead DEF m
<1>11. ReadAddress(buf, 25) = Client
       BY <1>8, AddressRead, Constants DEF a
<1>12. QED
       BY <1>2, <1>9, <1>10, <1>11 DEF MtuOfReply2

\* So the handshake agrees, and fixes the size of the datagrams.
LEMMA SizeOfProbe ==
  ASSUME NEW probe \in Probes
  PROVE  /\ Reply(Client, Request1(RaknetProtocolVersion, probe)) = Reply1(MtuOfProbe(probe))
         /\ SecondRequest(probe) = Request2(Server, MtuOfProbe(probe))
         /\ SizeFor(probe) = Max({MtuOfProbe(probe), MinMtu})
<1> DEFINE m == MtuOfProbe(probe)
<1>1. m \in 0..(2^16 - 1) /\ Min({m, MaxMtu}) = m
      BY MtuRange
<1>2. Reply(Client, Request1(RaknetProtocolVersion, probe)) = Reply1(m)
      BY Request1Answered
<1> HIDE DEF m
<1>3. MtuOfReply1(Reply1(m)) = m
      BY <1>1, Reply1Read
<1>4. SecondRequest(probe) = Request2(Server, m)
      BY <1>2, <1>3 DEF SecondRequest
<1>5. MtuSize(Request2(Server, m)) = m
  <2>1. DecodeRequest2(Request2(Server, m)) = [is |-> "request2", mtu |-> m]
        BY <1>1, Request2Read
  <2>2. DecodeRequest2(Request2(Server, m)).mtu = m
        BY <2>1
  <2>3. MtuSize(Request2(Server, m)) = Min({DecodeRequest2(Request2(Server, m)).mtu, MaxMtu})
        BY DEF MtuSize
  <2>4. QED
        BY <1>1, <2>2, <2>3
<1>6. SizeFor(probe) = Max({m, MinMtu})
      BY <1>4, <1>5 DEF SizeFor, DatagramSize
<1>7. QED
      BY <1>2, <1>4, <1>6 DEF m

\* A ping is answered with its time.
LEMMA PingAnswered ==
  ASSUME NEW client, NEW time, Long(time, 8)
  PROVE  Slice(Reply(client, Ping(time)), 1, 9) = time
<1> DEFINE p == <<1>>
           z == Zeros(8)
           buf == p \o time \o Magic \o z
<1>1. Long(p, 1) /\ Long(Magic, 16) /\ Long(z, 8)
      BY Constants, ZerosSequence
<1>2. Ping(time) = buf
      BY DEF Ping
<1> HIDE DEF p, z
<1>3. Within(p, 0, 1, p)
      BY <1>1, WithinAll
<1>4. Within(p \o time, 1, 9, time) /\ Long(p \o time, 9)
      BY <1>1, WithinEnd
<1>5. Within(p \o time \o Magic, 9, 25, Magic) /\ Long(p \o time \o Magic, 25)
      BY <1>1, <1>4, WithinEnd
<1>6. Long(buf, 33)
      BY <1>1, <1>5, ConcatLong
<1>7. Within(p \o time, 0, 1, p)
      BY <1>3, WithinOn DEF Long
<1>8. Within(p \o time \o Magic, 0, 1, p) /\ Within(p \o time \o Magic, 1, 9, time)
      BY <1>1, <1>4, <1>7, WithinOn DEF Long
<1>9. Within(buf, 0, 1, p) /\ Within(buf, 1, 9, time) /\ Within(buf, 9, 25, Magic)
      BY <1>1, <1>5, <1>8, WithinOn DEF Long
<1> HIDE DEF buf
<1>10. buf # <<>> /\ buf[1] = 1
       BY <1>9, NameRead DEF p
<1>11. HasMagic(buf, 9) /\ Slice(buf, 1, 9) = time /\ ~(Len(buf) < 33)
       BY <1>6, <1>9, MagicRead, WithinSlice DEF Long
<1> DEFINE packet == DecodeOffline(buf)
<1>12. packet = [is |-> "ping", time |-> time]
  <2>1. DecodePing(buf) = [is |-> "ping", time |-> time]
        BY <1>11 DEF DecodePing
  <2>2. DecodeOffline(buf) = DecodePing(buf)
        BY <1>10 DEF DecodeOffline
  <2>3. QED
        BY <2>1, <2>2
<1>13. packet # NoPacket
  <2>1. DOMAIN packet = {"is", "time"} /\ DOMAIN NoPacket = {"failed"}
        BY <1>12 DEF NoPacket
  <2>2. "is" \notin {"failed"}
        OBVIOUS
  <2>3. QED
        BY <2>1, <2>2
<1>14. packet.is = "ping" /\ packet.time = time
       BY <1>12
<1> HIDE DEF packet
<1>15. Reply(client, buf) = Pong(packet.time)
       BY <1>13, <1>14 DEF Reply, packet
<1> DEFINE q == <<28>>
           n == BE(2, Len(Motd))
<1>16. Long(q, 1) /\ Sequence(Guid) /\ Sequence(Magic) /\ Sequence(n) /\ Sequence(Motd)
       BY Constants, BytesOfNumber, OfflineAssumption DEF Long, Sequence
<1>17. Pong(time) = q \o time \o Guid \o Magic \o n \o Motd
       BY DEF Pong
<1> HIDE DEF q, n
<1>18. Within(q \o time, 1, 9, time)
       BY <1>16, WithinEnd
<1>19. Within(q \o time \o Guid, 1, 9, time)
       BY <1>16, <1>18, WithinOn
<1>20. Within(q \o time \o Guid \o Magic, 1, 9, time)
       BY <1>16, <1>19, WithinOn
<1>21. Within(q \o time \o Guid \o Magic \o n, 1, 9, time)
       BY <1>16, <1>20, WithinOn
<1>22. Within(Pong(time), 1, 9, time)
       BY <1>16, <1>17, <1>21, WithinOn
<1>23. QED
       BY <1>2, <1>14, <1>15, <1>22, WithinSlice

\* The handshake agrees.
LEMMA Agrees ==
  ASSUME HasPalette(sub)
  PROVE  HandshakeAgrees
<1>1. Sequence(Column)
      BY ColumnSequence
<1>2. ASSUME NEW probe \in Probes
      PROVE  LET reply1 == Reply(Client, Request1(RaknetProtocolVersion, probe))
                 reply2 == Reply(Client, SecondRequest(probe))
             IN  /\ MtuOfReply2(reply2) = MtuOfReply1(reply1)
                 /\ ReadAddress(reply2, 25) = Client
                 /\ SizeFor(probe) = Max({MtuOfReply2(reply2), MinMtu})
                 /\ Reply(Client, Request1(RaknetProtocolVersion + 1, probe))
                      = IncompatibleProtocol
  <2> DEFINE m == MtuOfProbe(probe)
             reply2 == Reply(Client, SecondRequest(probe))
  <2>1. m \in 0..(2^16 - 1) /\ Min({m, MaxMtu}) = m
        BY MtuRange
  <2>2. /\ Reply(Client, Request1(RaknetProtocolVersion, probe)) = Reply1(m)
        /\ SecondRequest(probe) = Request2(Server, m)
        /\ SizeFor(probe) = Max({m, MinMtu})
        BY SizeOfProbe
  <2> HIDE DEF m
  <2>3. reply2 = Reply2(Client, m)
        BY <2>1, <2>2, Request2Answered
  <2>4. MtuOfReply2(reply2) = m /\ ReadAddress(reply2, 25) = Client
        BY <2>1, <2>3, Reply2Read
  <2>5. MtuOfReply1(Reply(Client, Request1(RaknetProtocolVersion, probe))) = m
        BY <2>1, <2>2, Reply1Read
  <2>6. Reply(Client, Request1(RaknetProtocolVersion + 1, probe)) = IncompatibleProtocol
    <3>1. RaknetProtocolVersion + 1 # RaknetProtocolVersion
          BY DEF RaknetProtocolVersion
    <3>2. QED
          BY <3>1, Request1Answered
  <2>7. QED
        BY <2>2, <2>4, <2>5, <2>6
<1>3. LET time == Zeros(4) \o BE(4, Len(Column))
      IN  Slice(Reply(Client, Ping(time)), 1, 9) = time
  <2> DEFINE time == Zeros(4) \o BE(4, Len(Column))
  <2>1. Long(time, 8)
        BY ZerosSequence, BytesOfNumber, ConcatLong
  <2> HIDE DEF time
  <2>2. Slice(Reply(Client, Ping(time)), 1, 9) = time
        BY <2>1, PingAnswered
  <2>3. QED
        BY <2>2 DEF time
<1>4. QED
      BY <1>2, <1>3 DEF HandshakeAgrees

\* HandshakeAgrees: every probe is answered with one MTU, which is what datagrams are
\* filled to; pings, and clients of another version, are answered as they should be.
THEOREM Agreement == Spec => []HandshakeAgrees
<1>1. HasPalette(sub) => HandshakeAgrees
      BY Agrees
<1>2. QED
      BY <1>1, PaletteStays, PTL

\* The sizes that the handshake settles on.
LEMMA SizesAreEnough ==
  ASSUME NEW mtu \in Sizes
  PROVE  mtu \in Nat /\ mtu >= 40 /\ mtu <= MaxMtu
<1>1. PICK probe \in Probes : mtu = SizeFor(probe)
      BY DEF Sizes
<1> DEFINE m == MtuOfProbe(probe)
<1>2. m \in 0..(2^16 - 1) /\ m <= MaxMtu
      BY MtuRange
<1>3. mtu = Max({m, MinMtu})
      BY <1>1, SizeOfProbe
<1> HIDE DEF m
<1>4. MinMtu \in Int /\ MaxMtu \in Int /\ MinMtu >= 40 /\ MinMtu <= MaxMtu
      BY Limits
<1>5. Max({m, MinMtu}) \in {m, MinMtu} /\ Max({m, MinMtu}) >= MinMtu
  <2>1. m \in Int
        BY <1>2
  <2>2. QED
        BY <1>4, <2>1, MaxOfTwo
<1>6. QED
      BY <1>2, <1>4, <1>5, <1>3

(***************************************************************************)
(* ACKs                                                                    *)
(***************************************************************************)
\* Two numbers of 24 bits.
LEMMA U24Two ==
  ASSUME NEW v, NEW w
  PROVE  U24s(<<v, w>>) = LE(3, v) \o LE(3, w)
<1> DEFINE p == [i \in DOMAIN <<v, w>> |-> LE(3, <<v, w>>[i])]
<1>1. DOMAIN <<v, w>> = 1..2 /\ <<v, w>>[1] = v /\ <<v, w>>[2] = w
      OBVIOUS
<1>2. Len(p) = 2 /\ p[1] = LE(3, v) /\ p[2] = LE(3, w)
  <2>1. p = [i \in 1..2 |-> LE(3, <<v, w>>[i])]
        BY <1>1
  <2>2. Len([i \in 1..2 |-> LE(3, <<v, w>>[i])]) = 2
        OBVIOUS
  <2>3. p[1] = LE(3, v) /\ p[2] = LE(3, w)
        BY <1>1
  <2>4. QED
        BY <2>1, <2>2, <2>3
<1>3. U24s(<<v, w>>) = FlattenSeq(p)
      BY DEF U24s
<1> HIDE DEF p
<1>4. QED
      BY <1>2, <1>3, FlattenTwo

\* A range of numbers of 24 bits, and its bytes.
IsRange(r) == \E s, e \in 0..(2^24 - 1) : r = <<s, e>>

RangeBytes(r) == IF r[1] = r[2] THEN <<1>> \o LE(3, r[1]) ELSE <<0>> \o U24s(r)

\* What decode_ack keeps is no failure.
LEMMA TakenRanges ==
  ASSUME NEW rs, NEW at
  PROVE  [ranges |-> rs, at |-> at] # NoPacket
<1>1. DOMAIN [ranges |-> rs, at |-> at] = {"ranges", "at"} /\ DOMAIN NoPacket = {"failed"}
      BY DEF NoPacket
<1>2. "at" \notin {"failed"}
      OBVIOUS
<1>3. QED
      BY <1>1, <1>2

\* The bytes of a range, part by part.
LEMMA RangeWritten ==
  ASSUME NEW s \in 0..(2^24 - 1), NEW e \in 0..(2^24 - 1)
  PROVE  /\ s = e => /\ Long(RangeBytes(<<s, e>>), 4)
                     /\ Within(RangeBytes(<<s, e>>), 0, 1, <<1>>)
                     /\ Within(RangeBytes(<<s, e>>), 1, 4, LE(3, s))
         /\ s # e => /\ Long(RangeBytes(<<s, e>>), 7)
                     /\ Within(RangeBytes(<<s, e>>), 0, 1, <<0>>)
                     /\ Within(RangeBytes(<<s, e>>), 1, 4, LE(3, s))
                     /\ Within(RangeBytes(<<s, e>>), 4, 7, LE(3, e))
<1> DEFINE a == LE(3, s)
           b == LE(3, e)
<1>1. Long(a, 3) /\ Long(b, 3)
      BY BytesOfNumber
<1>2. <<s, e>>[1] = s /\ <<s, e>>[2] = e
      OBVIOUS
<1>3. s = e => RangeBytes(<<s, e>>) = <<1>> \o a
      BY <1>2 DEF RangeBytes
<1>4. s # e => RangeBytes(<<s, e>>) = <<0>> \o (a \o b)
      BY <1>2, U24Two DEF RangeBytes
<1> HIDE DEF a, b
<1> DEFINE p == <<1>>
           q == <<0>>
<1>5. Long(p, 1) /\ Long(q, 1)
      BY OneSequence
<1> HIDE DEF p, q
<1>6. Within(p, 0, 1, p) /\ Within(q, 0, 1, q)
      BY <1>5, WithinAll
<1>7. Within(p \o a, 1, 4, a) /\ Long(p \o a, 4)
      BY <1>1, <1>5, WithinEnd
<1>8. Within(p \o a, 0, 1, p)
      BY <1>1, <1>6, WithinOn DEF Long
<1>9. Within(a \o b, 3, 6, b) /\ Long(a \o b, 6)
      BY <1>1, WithinEnd
<1>10. Within(a \o b, 0, 3, a)
  <2>1. Within(a, 0, 3, a)
        BY <1>1, WithinAll
  <2>2. QED
        BY <1>1, <2>1, WithinOn DEF Long
<1> DEFINE c == a \o b
<1>11. Long(c, 6) /\ Within(c, 3, 6, b) /\ Within(c, 0, 3, a)
       BY <1>9, <1>10
<1> HIDE DEF c
<1>12. Within(q \o c, 1, 7, c) /\ Long(q \o c, 7)
       BY <1>5, <1>11, WithinEnd
<1>13. Within(q \o c, 0, 1, q)
       BY <1>6, <1>11, WithinOn DEF Long
<1>14. Within(q \o c, 1 + 0, 1 + 3, a) /\ Within(q \o c, 1 + 3, 1 + 6, b)
       BY <1>11, <1>12, WithinPart
<1>15. Within(q \o c, 1, 4, a) /\ Within(q \o c, 4, 7, b)
       BY <1>14
<1>16. QED
       BY <1>3, <1>4, <1>7, <1>8, <1>12, <1>13, <1>15 DEF a, b, c, p, q

\* decode_ack takes a range where one was written.
LEMMA RangeTaken ==
  ASSUME NEW buf, NEW at, NEW to, NEW r, IsRange(r), Within(buf, at, to, RangeBytes(r)), NEW rs
  PROVE  TakeRange(buf, [ranges |-> rs, at |-> at]) = [ranges |-> Append(rs, r), at |-> to]
<1>1. PICK s, e \in 0..(2^24 - 1) : r = <<s, e>>
      BY DEF IsRange
<1> DEFINE w == RangeBytes(<<s, e>>)
           a == [ranges |-> rs, at |-> at]
           single == buf[at + 1] # 0
           end == at + (IF single THEN 4 ELSE 7)
<1>2. /\ s = e => Long(w, 4) /\ Within(w, 0, 1, <<1>>) /\ Within(w, 1, 4, LE(3, s))
      /\ s # e => /\ Long(w, 7) /\ Within(w, 0, 1, <<0>>) /\ Within(w, 1, 4, LE(3, s))
                  /\ Within(w, 4, 7, LE(3, e))
      BY RangeWritten
<1> HIDE DEF w
<1>3. Within(buf, at, to, w)
      BY <1>1 DEF w
<1>4. /\ at \in Nat /\ to \in Nat /\ to <= Len(buf) /\ Len(w) = to - at /\ Len(buf) \in Nat
      BY <1>3, Lengths DEF Within
<1>5. FromLE(LE(3, s)) = s /\ FromLE(LE(3, e)) = e
      BY BytesRead
<1>6. a # NoPacket /\ a.at = at /\ a.ranges = rs
      BY TakenRanges
<1> HIDE DEF a
<1>7. CASE s = e
  <2>1. /\ Within(buf, at + 0, at + 1, <<1>>) /\ Within(buf, at + 1, at + 4, LE(3, s))
        /\ to = at + 4
        BY <1>2, <1>3, <1>4, <1>7, WithinPart DEF Long
  <2>2. buf[at + 1] = 1
    <3>1. <<1>>[1] = 1 /\ at + 0 = at /\ at < at + 1
          BY <1>4
    <3>2. QED
          BY <2>1, <3>1, WithinFirst
  <2>3. Slice(buf, at + 1, at + 4) = LE(3, s)
        BY <2>1, WithinSlice
  <2>4. single /\ end = to /\ ~(at + 1 > Len(buf)) /\ ~(end > Len(buf))
        BY <1>4, <2>1, <2>2
  <2>5. TakeRange(buf, a) = [ranges |-> Append(rs, <<s, s>>), at |-> to]
        BY <1>5, <1>6, <2>3, <2>4 DEF TakeRange
  <2>6. QED
        BY <1>1, <1>7, <2>5 DEF a
<1>8. CASE s # e
  <2>1. /\ Within(buf, at + 0, at + 1, <<0>>) /\ Within(buf, at + 1, at + 4, LE(3, s))
        /\ Within(buf, at + 4, at + 7, LE(3, e)) /\ to = at + 7
        BY <1>2, <1>3, <1>4, <1>8, WithinPart DEF Long
  <2>2. buf[at + 1] = 0
    <3>1. <<0>>[1] = 0 /\ at + 0 = at /\ at < at + 1
          BY <1>4
    <3>2. QED
          BY <2>1, <3>1, WithinFirst
  <2>3. Slice(buf, at + 1, at + 4) = LE(3, s) /\ Slice(buf, at + 4, to) = LE(3, e)
        BY <2>1, WithinSlice
  <2>4. ~single /\ end = to /\ ~(at + 1 > Len(buf)) /\ ~(end > Len(buf))
        BY <1>4, <2>1, <2>2
  <2>5. TakeRange(buf, a) = [ranges |-> Append(rs, <<s, e>>), at |-> to]
        BY <1>5, <1>6, <2>3, <2>4 DEF TakeRange
  <2>6. QED
        BY <1>1, <2>5 DEF a
<1>9. QED
      BY <1>7, <1>8

\* The loop of decode_ack ends where such a loop ends.
LEMMA AckLoop ==
  ASSUME NEW buf, NEW n \in Nat, FromBE(Slice(buf, 1, 3)) = n, ~(Len(buf) < 3),
         NEW g, g[0] = [ranges |-> <<>>, at |-> 3],
         \A i \in 1..n : g[i] = TakeRange(buf, g[i - 1]), g[n] # NoPacket
  PROVE  DecodeAck(buf) = g[n].ranges
<1> DEFINE count == FromBE(Slice(buf, 1, 3))
           begin == [ranges |-> <<>>, at |-> 3]
           F(f) == [i \in 0..count |-> IF i = 0 THEN begin ELSE TakeRange(buf, f[i - 1])]
           read == CHOOSE f : f = F(f)
           h == [i \in 0..count |-> g[i]]
<1>1. DecodeAck(buf) = IF read[count] = NoPacket THEN NoPacket ELSE read[count].ranges
      BY DEF DecodeAck
<1>2. count = n
      OBVIOUS
<1> HIDE DEF begin, count
<1>3. h = F(h)
  <2>1. ASSUME NEW i \in 0..count
        PROVE  g[i] = IF i = 0 THEN begin ELSE TakeRange(buf, h[i - 1])
    <3>1. CASE i = 0
          BY <3>1 DEF begin
    <3>2. CASE i # 0
      <4>1. i \in 1..n /\ i - 1 \in 0..n
            BY <1>2, <3>2
      <4>2. h[i - 1] = g[i - 1] /\ g[i] = TakeRange(buf, g[i - 1])
            BY <1>2, <4>1
      <4>3. QED
            BY <3>2, <4>2
    <3>3. QED
          BY <3>1, <3>2
  <2>2. QED
        BY <2>1
<1> HIDE DEF h
<1>4. read = F(read)
      BY <1>3
<1> HIDE DEF read
<1>5. \A f : F(f)[0] = begin /\ \A i \in 1..n : F(f)[i] = TakeRange(buf, f[i - 1])
      BY <1>2
<1> HIDE DEF F
<1>6. read[0] = begin /\ \A i \in 1..n : read[i] = TakeRange(buf, read[i - 1])
      BY <1>4, <1>5
<1>7. read[n] = g[n]
  <2>1. read[0] = g[0]
        BY <1>6 DEF begin
  <2>2. \A i \in 1..n : read[i - 1] = g[i - 1] => read[i] = g[i]
        BY <1>6
  <2>3. QED
        BY <2>1, <2>2, SameLoop
<1>8. QED
      BY <1>1, <1>7, <1>2

\* However many ranges are written, they are read.
LEMMA AckRead ==
  ASSUME NEW rs, NEW n \in 0..(2^16 - 1), Long(rs, n), \A i \in 1..n : IsRange(rs[i])
  PROVE  DecodeAck(EncodeAck(rs)) = rs
<1> DEFINE pieces == [i \in DOMAIN rs |-> RangeBytes(rs[i])]
           a == <<192>>
           b == BE(2, n)
           body == FlattenSeq(pieces)
           buf == EncodeAck(rs)
<1>1. n \in Nat /\ DOMAIN rs = 1..n /\ Len(rs) = n
      BY Lengths DEF Long
<1>2. buf = a \o b \o body
      BY <1>1 DEF EncodeAck, RangeBytes
<1> HIDE DEF buf
<1>3. Long(pieces, n) /\ \A i \in 1..n : pieces[i] = RangeBytes(rs[i])
  <2>1. pieces = [i \in 1..n |-> pieces[i]]
        BY <1>1
  <2>2. \A i \in 1..n : pieces[i] = RangeBytes(rs[i])
        BY <1>1
  <2> HIDE DEF pieces
  <2>3. QED
        BY <1>1, <2>1, <2>2, FunctionIsSequence
<1> HIDE DEF pieces
<1>4. \A i \in 1..n : Sequence(pieces[i])
  <2>1. \A s, e \in 0..(2^24 - 1) : Sequence(RangeBytes(<<s, e>>))
        BY RangeWritten DEF Long
  <2>2. QED
        BY <1>3, <2>1 DEF IsRange
<1>5. PICK at : /\ at[0] = 0
                /\ \A i \in 0..n : at[i] \in Nat
                /\ \A i \in 1..n : Within(body, at[i - 1], at[i], pieces[i])
                /\ Long(body, at[n])
      BY <1>1, <1>3, <1>4, PiecesWithin
<1>6. Long(a, 1) /\ Long(b, 2)
      BY OneSequence, BytesOfNumber
<1> HIDE DEF a, b, body
<1>7. Long(a \o b, 3) /\ Within(a \o b, 1, 3, b)
      BY <1>6, WithinEnd
<1> DEFINE head == a \o b
           long == at[n]
<1>8. long \in Nat /\ 3 + long \in Nat /\ Long(body, long) /\ Long(head, 3) /\ buf = head \o body
      BY <1>1, <1>2, <1>5, <1>7
<1> HIDE DEF head, long
<1>9. Within(buf, 3, 3 + long, body) /\ Long(buf, 3 + long)
      BY <1>8, WithinEnd
<1>10. Within(buf, 1, 3, b)
       BY <1>7, <1>8, WithinOn DEF head, Long
<1>11. FromBE(Slice(buf, 1, 3)) = n
       BY <1>10, WithinSlice, BytesRead DEF b
<1>12. ~(Len(buf) < 3)
       BY <1>8, <1>9 DEF Long
<1> DEFINE g == [i \in 0..n |-> [ranges |-> First(rs, i), at |-> 3 + at[i]]]
<1>13. ASSUME NEW i \in 1..n PROVE g[i] = TakeRange(buf, g[i - 1])
  <2>1. i - 1 \in 0..n /\ i \in 0..n
        BY <1>1
  <2>2. Within(buf, 3 + at[i - 1], 3 + at[i], RangeBytes(rs[i]))
        BY <1>3, <1>5, <1>9, WithinPart
  <2>3. IsRange(rs[i])
        OBVIOUS
  <2>4. TakeRange(buf, [ranges |-> First(rs, i - 1), at |-> 3 + at[i - 1]])
          = [ranges |-> Append(First(rs, i - 1), rs[i]), at |-> 3 + at[i]]
        BY <2>3, <2>2, RangeTaken
  <2>5. Append(First(rs, i - 1), rs[i]) = First(rs, i)
        BY <1>1, FirstThings
  <2>6. QED
        BY <2>1, <2>4, <2>5
<1>14. g[0] = [ranges |-> <<>>, at |-> 3]
  <2>1. First(rs, 0) = <<>> /\ 3 + at[0] = 3 /\ 0 \in 0..n
        BY <1>1, <1>5, FirstThings
  <2>2. QED
        BY <2>1
<1>15. g[n].ranges = rs /\ g[n] # NoPacket
  <2>1. First(rs, n) = rs /\ n \in 0..n
        BY <1>1, FirstThings
  <2>2. g[n] = [ranges |-> rs, at |-> 3 + at[n]]
        BY <2>1
  <2> HIDE DEF g
  <2>3. QED
        BY <2>2, TakenRanges
<1> HIDE DEF g
<1>16. DecodeAck(buf) = g[n].ranges
       BY <1>1, <1>11, <1>12, <1>13, <1>14, <1>15, AckLoop
<1>17. QED
       BY <1>15, <1>16 DEF buf

\* s is a sequence of n things, those of R.
Lists(s, n, R) == Long(s, n) /\ R = {s[i] : i \in 1..n}

\* A set of at most two, in some order.
LEMMA OfAtMostTwo ==
  ASSUME NEW x, NEW y, x # y, NEW R \in SUBSET {x, y}
  PROVE  \E n \in 0..2 : Lists(SetToSeq(R), n, R)
<1> DEFINE n == Cardinality(R)
           s == SetToSeq(R)
<1>1. /\ IsFiniteSet({}) /\ Cardinality({}) = 0
      /\ IsFiniteSet({x}) /\ Cardinality({x}) = 1
      /\ IsFiniteSet({y}) /\ Cardinality({y}) = 1
      BY FS_EmptySet, FS_Singleton
<1>2. IsFiniteSet({x, y}) /\ Cardinality({x, y}) = 2
  <2>1. {x, y} = {x} \cup {y} /\ y \notin {x}
        OBVIOUS
  <2>2. QED
        BY <1>1, <2>1, FS_AddElement
<1>3. \E f \in [1..n -> R] : IsInjective(f)
  <2>1. CASE R = {}
    <3> DEFINE f == [i \in 1..0 |-> i]
    <3>1. f \in [1..0 -> {}] /\ IsInjective(f)
          BY DEF IsInjective
    <3>2. n = 0
          BY <1>1, <2>1
    <3> HIDE DEF f, n
    <3>3. QED
          BY <2>1, <3>1, <3>2
  <2>2. CASE \E z \in {x, y} : R = {z}
    <3>1. PICK z : R = {z} /\ n = 1
          BY <1>1, <2>2
    <3> DEFINE f == [i \in 1..1 |-> z]
    <3>2. f \in [1..1 -> {z}] /\ IsInjective(f)
          BY DEF IsInjective
    <3> HIDE DEF f, n
    <3>3. QED
          BY <3>1, <3>2
  <2>3. CASE R = {x, y}
    <3> DEFINE f == [i \in 1..2 |-> IF i = 1 THEN x ELSE y]
    <3>1. f \in [1..2 -> {x, y}] /\ IsInjective(f)
          BY DEF IsInjective
    <3>2. n = 2
          BY <1>2, <2>3
    <3> HIDE DEF f, n
    <3>3. QED
          BY <2>3, <3>1, <3>2
  <2>4. R \in {{}, {x}, {y}, {x, y}}
        OBVIOUS
  <2>5. QED
        BY <2>1, <2>2, <2>3, <2>4
<1>4. s \in [1..n -> R] /\ \A a, b \in 1..n : s[a] = s[b] => a = b
  <2>1. s = CHOOSE f \in [1..n -> R] : IsInjective(f)
        BY DEF SetToSeq
  <2> HIDE DEF n, s
  <2>2. s \in [1..n -> R] /\ IsInjective(s)
        BY <1>3, <2>1
  <2>3. QED
        BY <2>2 DEF IsInjective
<1>5. n \in 0..2
  <2>1. R \in {{}, {x}, {y}, {x, y}}
        OBVIOUS
  <2>2. QED
        BY <1>1, <1>2, <2>1
<1>6. {s[i] : i \in 1..n} = R
  <2>1. CASE R = {}
    <3>1. n = 0
          BY <1>1, <2>1
    <3> HIDE DEF n, s
    <3>2. QED
          BY <2>1, <3>1
  <2>2. CASE \E z \in {x, y} : R = {z}
    <3>1. PICK z : R = {z} /\ n = 1
          BY <1>1, <2>2
    <3> HIDE DEF n, s
    <3>2. s[1] = z /\ 1..n = {1}
          BY <1>4, <3>1
    <3>3. QED
          BY <3>1, <3>2
  <2>3. CASE R = {x, y}
    <3>1. n = 2
          BY <1>2, <2>3
    <3> HIDE DEF n, s
    <3>2. s[1] \in {x, y} /\ s[2] \in {x, y} /\ s[1] # s[2] /\ 1..n = {1, 2}
          BY <1>4, <2>3, <3>1
    <3>3. QED
          BY <2>3, <3>2
  <2>4. R \in {{}, {x}, {y}, {x, y}}
        OBVIOUS
  <2>5. QED
        BY <2>1, <2>2, <2>3, <2>4
<1>7. Long(s, n)
  <2> HIDE DEF s, n
  <2>1. s = [i \in 1..n |-> s[i]]
        BY <1>4
  <2>2. QED
        BY <1>5, <2>1, FunctionIsSequence
<1>8. Lists(s, n, R)
      BY <1>6, <1>7 DEF Lists
<1> HIDE DEF n
<1>9. QED
      BY <1>5, <1>8

\* The intervals of a set of numbers that no number of it borders on.
Maximal(numbers) ==
  {r \in numbers \X numbers : /\ r[1] <= r[2] /\ r[1]..r[2] \subseteq numbers
                              /\ r[1] - 1 \notin numbers /\ r[2] + 1 \notin numbers}

\* R has those of two pairs that are intervals.
Intervals(R, x, y) == \A r : r \in R <=> r \in {x, y} /\ r[1] <= r[2]

\* There is one below the lost number and one above.
LEMMA RangesOfTheRest ==
  ASSUME NEW lo \in Nat, NEW hi \in Nat, NEW lost \in lo..hi, NEW N, N = (lo..hi) \ {lost},
         NEW below, below = <<lo, lost - 1>>, NEW above, above = <<lost + 1, hi>>
  PROVE  /\ below # above
         /\ Intervals(Maximal(N), below, above)
<1>1. lost \in Nat /\ lo <= lost /\ lost <= hi
      OBVIOUS
<1>2. /\ below[1] = lo /\ below[2] = lost - 1 /\ above[1] = lost + 1 /\ above[2] = hi
      OBVIOUS
<1>3. below # above
      BY <1>1, <1>2
<1>4. ASSUME NEW r \in Maximal(N) PROVE r \in {below, above} /\ r[1] <= r[2]
  <2>1. PICK s, e \in N : r = <<s, e>>
        BY DEF Maximal
  <2>2. r[1] = s /\ r[2] = e
        BY <2>1
  <2>3. s <= e /\ s..e \subseteq N /\ s - 1 \notin N /\ e + 1 \notin N
        BY <2>2 DEF Maximal
  <2>4. s \in lo..hi /\ e \in lo..hi /\ s # lost /\ e # lost
        BY <2>1
  <2>5. s = lo \/ s = lost + 1
        BY <1>1, <2>3, <2>4
  <2>6. e = hi \/ e = lost - 1
        BY <1>1, <2>3, <2>4
  <2>7. ~(s < lost /\ lost < e)
    <3>1. SUFFICES ASSUME s < lost, lost < e PROVE FALSE
          OBVIOUS
    <3>2. lost \in s..e
          BY <1>1, <2>4, <3>1
    <3>3. QED
          BY <2>3, <3>2
  <2>8. (s = lo /\ e = lost - 1) \/ (s = lost + 1 /\ e = hi)
        BY <1>1, <2>3, <2>4, <2>5, <2>6, <2>7
  <2>9. QED
        BY <2>1, <2>2, <2>3, <2>8
<1>5. ASSUME lo <= lost - 1 PROVE below \in Maximal(N)
  <2>1. lo \in N /\ lost - 1 \in N /\ lo - 1 \notin N /\ (lost - 1) + 1 \notin N
        BY <1>1, <1>5
  <2>2. lo..(lost - 1) \subseteq N
        BY <1>1, <1>5
  <2>3. QED
        BY <1>2, <1>5, <2>1, <2>2 DEF Maximal
<1>6. ASSUME lost + 1 <= hi PROVE above \in Maximal(N)
  <2>1. lost + 1 \in N /\ hi \in N /\ (lost + 1) - 1 \notin N /\ hi + 1 \notin N
        BY <1>1, <1>6
  <2>2. (lost + 1)..hi \subseteq N
        BY <1>1, <1>6
  <2>3. QED
        BY <1>2, <1>6, <2>1, <2>2 DEF Maximal
<1>7. QED
      BY <1>2, <1>3, <1>4, <1>5, <1>6 DEF Intervals

\* Of some numbers, the ranges name those of N.
Names(ranges, numbers, N) ==
  {k \in numbers : \E i \in DOMAIN ranges : k \in ranges[i][1]..ranges[i][2]} = N

\* An ACK of all but one names all but that one.
LEMMA RestNamed ==
  ASSUME NEW lo \in Nat, NEW hi \in 0..(2^24 - 1), NEW lost \in lo..hi,
         NEW N, N = (lo..hi) \ {lost}, NEW acked, acked = DecodeAck(EncodeAck(Ranges(N)))
  PROVE  Names(acked, lo..hi, N)
<1> DEFINE below == <<lo, lost - 1>>
           above == <<lost + 1, hi>>
           R == Maximal(N)
           s == SetToSeq(R)
<1>1. hi \in Nat /\ lost \in Nat /\ lo <= lost /\ lost <= hi /\ hi < 2^24
      OBVIOUS
<1>2. Ranges(N) = s
      BY DEF Ranges, Maximal
<1>3. /\ below = <<lo, lost - 1>> /\ above = <<lost + 1, hi>>
      /\ below[1] = lo /\ below[2] = lost - 1 /\ above[1] = lost + 1 /\ above[2] = hi
      OBVIOUS
<1>4. /\ lo <= lost - 1 => IsRange(below)
      /\ lost + 1 <= hi => IsRange(above)
  <2>1. lo <= lost - 1 => lo \in 0..(2^24 - 1) /\ lost - 1 \in 0..(2^24 - 1)
        BY <1>1
  <2>2. lost + 1 <= hi => lost + 1 \in 0..(2^24 - 1) /\ hi \in 0..(2^24 - 1)
        BY <1>1
  <2>3. QED
        BY <2>1, <2>2 DEF IsRange
<1> HIDE DEF below, above
<1>5. below # above
      BY <1>1, <1>3, RangesOfTheRest
<1>6. \A r : r \in R <=> r \in {below, above} /\ r[1] <= r[2]
  <2>1. Intervals(R, below, above)
        BY <1>1, <1>3, RangesOfTheRest
  <2>2. QED
        BY <2>1 DEF Intervals
<1> HIDE DEF R, s
<1>7. R \in SUBSET {below, above}
      BY <1>6
<1>8. PICK n \in 0..2 : Lists(s, n, R)
      BY <1>5, <1>7, OfAtMostTwo DEF s
<1>9. Long(s, n) /\ \A r : r \in R <=> \E i \in 1..n : r = s[i]
      BY <1>8 DEF Lists
<1>10. \A r \in R : IsRange(r)
      BY <1>3, <1>4, <1>6
<1>11. acked = s
  <2>1. n \in 0..(2^16 - 1) /\ \A i \in 1..n : IsRange(s[i])
        BY <1>9, <1>10
  <2>2. QED
        BY <1>2, <1>9, <2>1, AckRead
<1>12. DOMAIN acked = 1..n
       BY <1>9, <1>11, Lengths DEF Long
<1>13. ASSUME NEW k \in lo..hi
       PROVE  (\E i \in DOMAIN acked : k \in acked[i][1]..acked[i][2]) <=> k \in N
  <2>1. (\E i \in DOMAIN acked : k \in acked[i][1]..acked[i][2])
          <=> \E r \in R : k \in r[1]..r[2]
        BY <1>9, <1>11, <1>12
  <2>2. (\E r \in R : k \in r[1]..r[2]) <=> k \in lo..(lost - 1) \/ k \in (lost + 1)..hi
        BY <1>1, <1>3, <1>6
  <2>3. k \in N <=> k \in lo..(lost - 1) \/ k \in (lost + 1)..hi
        BY <1>1
  <2>4. QED
        BY <2>1, <2>2, <2>3
<1>14. QED
       BY <1>13 DEF Names

\* So does the ACK of the datagrams of any payload.
LEMMA AckOfTheRest ==
  ASSUME NEW payload, Sequence(payload), NEW mtu \in Sizes, Numbered(payload, mtu),
         NEW sent, sent = Sent(payload, mtu),
         NEW numbers, numbers = {sent[i].number : i \in DOMAIN sent}, NEW lost \in numbers,
         NEW acked, acked = DecodeAck(EncodeAck(Ranges(numbers \ {lost})))
  PROVE  Names(acked, numbers, numbers \ {lost})
<1> DEFINE frames == Cut(payload, mtu)
           n == Len(sent)
           hi == FirstNumber + n - 1
<1>1. mtu \in Nat /\ mtu >= 40
      BY SizesAreEnough
<1>2. PICK F : frames \in Seq(F) /\ \A f \in F : Carried(f, mtu)
      BY <1>1, FramesAreCarried DEF Cut
<1>3. FirstNumber \in 0..(2^24 - 1)
      BY PathAssumption
<1>4. sent = Datagrams(frames, mtu, FirstNumber)
      BY DEF Sent
<1>5. FirstNumber + Len(frames) <= 2^24
      BY DEF Numbered
<1> HIDE DEF frames
<1>6. /\ sent \in Seq(Fitting(F, mtu)) /\ n \in 0..Len(frames)
      /\ \A k \in 1..n : sent[k].number = FirstNumber + k - 1
  <2>1. /\ FirstNumber \in Int
        /\ \A f \in F : Sequence(EncodeFrame(f)) /\ Len(EncodeFrame(f)) + 4 <= mtu
        BY <1>2, <1>3 DEF Carried
  <2> HIDE DEF n
  <2>2. sent \in Seq(Fitting(F, mtu))
        BY <1>1, <1>2, <1>4, <2>1, DatagramNumbers
  <2>3. Len(sent) \in 0..Len(frames)
        BY <1>1, <1>2, <1>4, <2>1, DatagramNumbers
  <2>4. NumberedFrom(sent, FirstNumber)
        BY <1>1, <1>2, <1>4, <2>1, DatagramNumbers
  <2>5. QED
        BY <2>2, <2>3, <2>4 DEF n, NumberedFrom
<1>7. Len(frames) \in Nat /\ DOMAIN sent = 1..n /\ n \in Nat
      BY <1>2, <1>6, LenProperties
<1> HIDE DEF n
<1>8. numbers = FirstNumber..hi
  <2>1. numbers = {FirstNumber + k - 1 : k \in 1..n}
        BY <1>6, <1>7
  <2>2. ASSUME NEW x \in FirstNumber..hi PROVE x \in {FirstNumber + k - 1 : k \in 1..n}
    <3>1. (x - FirstNumber) + 1 \in 1..n /\ x = FirstNumber + ((x - FirstNumber) + 1) - 1
          BY <1>3, <1>7
    <3>2. QED
          BY <3>1
  <2>3. \A k \in 1..n : FirstNumber + k - 1 \in FirstNumber..hi
        BY <1>3, <1>7
  <2>4. QED
        BY <2>1, <2>2, <2>3
<1>9. hi \in 0..(2^24 - 1) /\ FirstNumber \in Nat
  <2>1. FirstNumber <= hi
        BY <1>3, <1>7, <1>8
  <2>2. QED
        BY <1>3, <1>5, <1>6, <1>7, <2>1
<1> HIDE DEF hi
<1>10. QED
       BY <1>8, <1>9, RestNamed

\* AcksNameTheRest: whatever column is sent, an ACK of all its datagrams but one
\* leaves that one, and no other, to handle_ack.
THEOREM AcksOfColumns == Spec => []AcksNameTheRest
<1>1. HasPalette(sub) => AcksNameTheRest
  <2>1. SUFFICES ASSUME HasPalette(sub) PROVE AcksNameTheRest
        OBVIOUS
  <2>2. Sequence(Column)
        BY <2>1, ColumnSequence
  <2>3. ASSUME NEW mtu \in Sizes, Numbered(Column, mtu)
        PROVE  LET sent    == Sent(Column, mtu)
                   numbers == {sent[i].number : i \in DOMAIN sent}
               IN  \A lost \in numbers :
                     LET acked == DecodeAck(EncodeAck(Ranges(numbers \ {lost})))
                     IN  {n \in numbers : \E i \in DOMAIN acked : n \in acked[i][1]..acked[i][2]}
                           = numbers \ {lost}
    <3> DEFINE sent == Sent(Column, mtu)
               numbers == {sent[i].number : i \in DOMAIN sent}
               acked(lost) == DecodeAck(EncodeAck(Ranges(numbers \ {lost})))
    <3>1. ASSUME NEW lost \in numbers PROVE Names(acked(lost), numbers, numbers \ {lost})
      <4> HIDE DEF acked
      <4>1. acked(lost) = DecodeAck(EncodeAck(Ranges(numbers \ {lost})))
            BY DEF acked
      <4>2. sent = Sent(Column, mtu) /\ numbers = {sent[i].number : i \in DOMAIN sent}
            OBVIOUS
      <4> HIDE DEF sent, numbers
      <4>3. QED
            BY <2>2, <2>3, <4>1, <4>2, AckOfTheRest
    <3>2. QED
          BY <3>1 DEF Names
  <2>4. QED
        BY <2>3 DEF AcksNameTheRest
<1>2. QED
      BY <1>1, PaletteStays, PTL

(***************************************************************************)
(* Payloads in datagrams                                                   *)
(***************************************************************************)
\* Frames that fit datagrams and are read as they were, of one order index.
Ready(frames, mtu, order) ==
  \E F : /\ frames \in Seq(F)
         /\ \A f \in F : Carried(f, mtu) /\ Readable(f) /\ f.order = <<order>>

\* However a payload is cut, its frames are such.
LEMMA CutReady ==
  ASSUME NEW payload, Sequence(payload), NEW mtu \in Nat, mtu >= 40, mtu < 2^13,
         NEW id \in 0..(2^16 - 1), NEW reliable \in 0..(2^24 - 1), NEW order \in 0..(2^24 - 1),
         NEW frames, frames = Frames(payload, mtu, id, reliable, order), Len(frames) <= 2^24
  PROVE  Ready(frames, mtu, order)
<1>1. Len(payload) \in Nat
      BY Lengths
<1>2. CASE Len(payload) <= mtu - 14
  <2> DEFINE f == Frame(ReliableOrdered, reliable, 0, order, <<>>, payload)
  <2>1. frames = <<f>>
        BY <1>2 DEF Frames
  <2>2. Carried(f, mtu)
        BY <1>2, WholeFits
  <2>3. IsWhole(f)
    <3>1. Len(payload) < 2^13
          BY <1>1, <1>2
    <3>2. Fields(f, reliable, order, <<>>, payload)
          BY <3>1 DEF Fields
    <3> HIDE DEF f
    <3>3. QED
          BY <3>2 DEF IsWhole
  <2>4. f.order = <<order>>
        BY FrameFields
  <2> HIDE DEF f
  <2>5. <<f>> \in Seq({f})
        OBVIOUS
  <2>6. frames \in Seq({f}) /\ \A g \in {f} : Carried(g, mtu) /\ Readable(g) /\ g.order = <<order>>
        BY <2>1, <2>2, <2>3, <2>4, <2>5 DEF Readable
  <2>7. QED
        BY <2>6 DEF Ready
<1>3. CASE Len(payload) > mtu - 14
  <2> DEFINE chunk == ChunkOf(mtu)
             n == PartsOf(Len(payload), chunk)
             F == {frames[i] : i \in 1..n}
  <2>1. /\ frames = [i \in 1..n |-> PartFrame(payload, mtu, n, id, reliable, order, i)]
        /\ n \in Nat \ {0} /\ chunk \in Nat /\ chunk > 0 /\ Long(frames, n)
        BY <1>3, PartsCut
  <2> HIDE DEF chunk, n
  <2>2. n = PartsOf(Len(payload), chunk) /\ chunk = mtu - 24
        BY DEF n, chunk, ChunkOf
  <2>3. n <= 2^24 /\ n \in 0..(2^32 - 1)
    <3>1. n <= 2^24
          BY <2>1 DEF Long
    <3>2. QED
          BY <2>1, <3>1
  <2>4. ASSUME NEW i \in 1..n
        PROVE  /\ Carried(frames[i], mtu) /\ Readable(frames[i]) /\ frames[i].order = <<order>>
    <3> DEFINE body == PartBody(payload, chunk, i)
               f == frames[i]
    <3>1. Sequence(body) /\ Len(body) \in Nat /\ Len(body) <= chunk
          BY <2>1, <2>2, PartLength
    <3>2. f = Frame(ReliableOrdered, reliable, 0, order, <<n, id, i - 1>>, body)
          BY <2>1 DEF PartFrame, chunk
    <3> HIDE DEF body, f
    <3>3. Carried(f, mtu)
      <4>1. Len(body) <= mtu - 24
            BY <2>2, <3>1
      <4>2. QED
            BY <3>1, <3>2, <4>1, PartFits
    <3>4. Fields(f, reliable, order, <<n, id, i - 1>>, body)
      <4>1. Len(body) < 2^13
            BY <2>1, <2>2, <3>1
      <4>2. QED
            BY <3>1, <3>2, <4>1 DEF Fields
    <3>5. IsPart(f)
      <4> DEFINE index == i - 1
      <4>1. index \in 0..(2^32 - 1)
            BY <2>3
      <4>2. Fields(f, reliable, order, <<n, id, index>>, body)
            BY <3>4
      <4> HIDE DEF index
      <4>3. QED
            BY <2>3, <4>1, <4>2 DEF IsPart
    <3>6. f.order = <<order>>
          BY <3>2, FrameFields
    <3>7. QED
          BY <3>3, <3>5, <3>6 DEF Readable, f
  <2>5. frames \in Seq(F)
    <3>1. frames \in [1..n -> F]
          BY <2>1
    <3> HIDE DEF F
    <3>2. QED
          BY <2>1, <3>1
  <2>6. \A f \in F : Carried(f, mtu) /\ Readable(f) /\ f.order = <<order>>
        BY <2>4
  <2> HIDE DEF F
  <2>7. QED
        BY <2>5, <2>6 DEF Ready
<1>4. QED
      BY <1>1, <1>2, <1>3

\* The pieces that datagrams carry.
Loads(ds) == [i \in DOMAIN ds |-> ds[i].frames]

\* Of datagrams that fit, they are sequences of frames, none of them empty.
LEMMA LoadsOf ==
  ASSUME NEW F, NEW mtu, NEW ds \in Seq(Fitting(F, mtu)), NEW n, n = Len(ds)
  PROVE  /\ n \in Nat /\ Long(Loads(ds), n)
         /\ \A i \in 1..n : Loads(ds)[i] = ds[i].frames /\ ds[i].frames \in Seq(F)
<1>1. n \in Nat /\ DOMAIN ds = 1..n
      BY LenProperties
<1>2. \A i \in 1..n : Loads(ds)[i] = ds[i].frames
      BY <1>1 DEF Loads
<1>3. \A i \in 1..n : ds[i].frames \in Seq(F)
      BY <1>1, ElementOfSeq DEF Fitting, FramesOf
<1>4. Loads(ds) = [i \in 1..n |-> Loads(ds)[i]]
      BY <1>1 DEF Loads
<1>5. Long(Loads(ds), n)
      BY <1>1, <1>4, FunctionIsSequence
<1>6. QED
      BY <1>1, <1>2, <1>3, <1>5

\* ds carry t, one frame after the other.
Carries(ds, t) == IF ds = <<>> THEN t = <<>> ELSE FlattenSeq(Loads(ds)) = t

\* A round of build_datagrams adds the frame to what is carried.
LEMMA JoinCarries ==
  ASSUME NEW F, NEW mtu \in Nat, NEW first \in Int,
         NEW ds \in Seq(Fitting(F, mtu)), NEW f \in F,
         NEW e, e = Join(ds, f, mtu, first), e \in Seq(Fitting(F, mtu)),
         NEW t, t \in Seq(F), Carries(ds, t)
  PROVE  Carries(e, Append(t, f))
<1> DEFINE n == Len(ds)
           p == Loads(ds)
           q == Loads(e)
<1>1. /\ n \in Nat /\ Long(p, n)
      /\ \A i \in 1..n : p[i] = ds[i].frames /\ ds[i].frames \in Seq(F)
      BY LoadsOf
<1>2. ds = <<>> <=> n = 0
      BY EmptySeq
<1>3. Joins(ds, n, f, e) \/ Begins(ds, n, f, e, first)
      BY JoinCases
<1> HIDE DEF n, p
<1>4. CASE Joins(ds, n, f, e)
  <2>1. /\ n # 0 /\ Long(e, n) /\ \A k \in 1..(n - 1) : e[k] = ds[k]
        /\ e[n].frames = Append(ds[n].frames, f)
        BY <1>4 DEF Joins
  <2>2. Len(e) = n /\ n \in 1..n
        BY <1>1, <2>1 DEF Long
  <2>3. Long(q, n) /\ \A i \in 1..n : q[i] = e[i].frames
        BY <2>2, LoadsOf
  <2> HIDE DEF q
  <2>4. \A i \in 1..(n - 1) : q[i] = p[i]
    <3> SUFFICES ASSUME NEW i \in 1..(n - 1) PROVE q[i] = p[i]
        OBVIOUS
    <3>1. i \in 1..n
          BY <1>1
    <3>2. q[i] = e[i].frames /\ p[i] = ds[i].frames /\ e[i] = ds[i]
          BY <1>1, <2>1, <2>3, <3>1
    <3>3. QED
          BY <3>2
  <2>5. q[n] = Append(p[n], f)
        BY <1>1, <2>1, <2>2, <2>3
  <2>6. \A i \in 1..n : Sequence(p[i])
        BY <1>1 DEF Sequence
  <2>7. n \in Nat \ {0}
        BY <1>1, <2>1
  <2>8. Long(p, n) /\ Long(q, n)
        BY <1>1, <2>3
  <2>9. FlattenSeq(q) = Append(FlattenSeq(p), f)
        BY <2>4, <2>5, <2>6, <2>7, <2>8, FlattenGrows
  <2>10. FlattenSeq(p) = t
         BY <1>2, <2>1 DEF p, Carries
  <2>11. e # <<>>
         BY <2>1, <2>2, EmptySeq
  <2>12. QED
         BY <2>9, <2>10, <2>11 DEF q, Carries
<1>5. CASE Begins(ds, n, f, e, first)
  <2>1. /\ Long(e, n + 1) /\ \A k \in 1..n : e[k] = ds[k]
        /\ e[n + 1].frames = <<f>>
        BY <1>5 DEF Begins
  <2>2. Len(e) = n + 1
        BY <2>1 DEF Long
  <2>3. Long(q, n + 1) /\ \A i \in 1..(n + 1) : q[i] = e[i].frames
    <3>1. e \in Seq(Fitting(F, mtu))
          OBVIOUS
    <3> DEFINE k == n + 1
    <3>2. k = Len(e)
          BY <2>2
    <3> HIDE DEF k
    <3>3. Long(Loads(e), k) /\ \A i \in 1..k : Loads(e)[i] = e[i].frames
          BY ONLY <3>1, <3>2, LoadsOf
    <3>4. QED
          BY <3>3 DEF k
  <2> HIDE DEF q
  <2>4. \A i \in 1..n : q[i] = p[i]
    <3> SUFFICES ASSUME NEW i \in 1..n PROVE q[i] = p[i]
        OBVIOUS
    <3>1. i \in 1..(n + 1)
          BY <1>1
    <3>2. q[i] = e[i].frames /\ p[i] = ds[i].frames /\ e[i] = ds[i]
          BY <1>1, <2>1, <2>3, <3>1
    <3>3. QED
          BY <3>2
  <2>5. q[n + 1] = <<f>> /\ Len(p) = n /\ Len(q) = n + 1
        BY <1>1, <2>1, <2>3 DEF Long
  <2>6. e # <<>>
        BY <1>1, <2>1, <2>2, EmptySeq
  <2>7. CASE n = 0
    <3>1. FlattenSeq(q) = q[1]
          BY <2>5, <2>7, FlattenOne
    <3>2. t = <<>> /\ Append(<<>>, f) = <<f>>
          BY <1>2, <2>7 DEF Carries
    <3>3. q[1] = <<f>>
          BY <2>5, <2>7
    <3>4. QED
          BY <2>6, <3>1, <3>2, <3>3 DEF q, Carries
  <2>8. CASE n # 0
    <3>1. FlattenSeq(q) = FlattenSeq(p) \o q[n + 1]
          BY <1>1, <2>4, <2>5, <2>8, FlattenAppend
    <3>2. FlattenSeq(p) = t
          BY <1>2, <2>8 DEF p, Carries
    <3>3. t \o <<f>> = Append(t, f)
          OBVIOUS
    <3>4. QED
          BY <2>5, <2>6, <3>1, <3>2, <3>3 DEF q, Carries
  <2>9. QED
        BY <2>7, <2>8
<1>6. QED
      BY <1>3, <1>4, <1>5

\* The datagrams carry the frames, in order.
LEMMA FramesInOrder ==
  ASSUME NEW F, NEW mtu \in Nat, NEW first \in Int,
         \A f \in F : Sequence(EncodeFrame(f)) /\ Len(EncodeFrame(f)) + 4 <= mtu,
         NEW frames \in Seq(F), NEW sent, sent = Datagrams(frames, mtu, first)
  PROVE  FlattenSeq(Loads(sent)) = frames
<1> DEFINE n == Len(frames)
<1>1. n \in Nat /\ \A i \in 1..n : frames[i] \in F
      BY LenProperties, ElementOfSeq
<1>2. PICK joined : /\ joined[0] = <<>>
                    /\ \A i \in 1..n : joined[i] = Join(joined[i - 1], frames[i], mtu, first)
                    /\ sent = joined[n]
      BY <1>1, DatagramsSteps
<1>3. Long(frames, n)
      BY DEF Long, Sequence
<1>4. First(frames, 0) = <<>> /\ First(frames, n) = frames
      BY <1>1, <1>3, FirstThings
<1>5. \A i \in 1..n : First(frames, i) = Append(First(frames, i - 1), frames[i])
      BY <1>1, <1>3, FirstThings
<1> DEFINE Good(ds, i) == /\ ds \in Seq(Fitting(F, mtu)) /\ First(frames, i) \in Seq(F)
                          /\ Carries(ds, First(frames, i))
           T == {i \in Nat : i <= n => Good(joined[i], i)}
<1>6. 0 \in T
  <2>1. Good(<<>>, 0)
        BY <1>4, EmptySeq DEF Carries
  <2> HIDE DEF Good
  <2>2. QED
        BY <1>2, <2>1
<1>7. ASSUME NEW i \in T PROVE i + 1 \in T
  <2>1. SUFFICES ASSUME i + 1 <= n PROVE Good(joined[i + 1], i + 1)
        OBVIOUS
  <2> DEFINE ds == joined[i]
             e == joined[i + 1]
             f == frames[i + 1]
             t == First(frames, i)
             u == First(frames, i + 1)
  <2>2. i \in Nat /\ i + 1 \in 1..n /\ (i + 1) - 1 = i /\ Good(ds, i)
    <3> HIDE DEF Good
    <3>1. QED
          BY <1>1, <1>7, <2>1
  <2>3. f \in F /\ e = Join(ds, f, mtu, first)
        BY <1>1, <1>2, <2>2
  <2>4. /\ ds \in Seq(Fitting(F, mtu)) /\ t \in Seq(F)
        /\ Carries(ds, t)
        BY <2>2
  <2>5. u = Append(t, f)
        BY <1>5, <2>2
  <2> HIDE DEF ds, e, f, t, u
  <2>6. e \in Seq(Fitting(F, mtu))
        BY <2>3, <2>4, JoinFits
  <2>7. Carries(e, Append(t, f))
        BY <2>3, <2>4, <2>6, JoinCarries
  <2>8. Append(t, f) \in Seq(F)
        BY <2>3, <2>4
  <2>9. QED
        BY <2>5, <2>6, <2>7, <2>8 DEF e, u
<1>8. T = Nat
  <2>1. T \in SUBSET Nat
        OBVIOUS
  <2> HIDE DEF T
  <2>2. QED
        BY <1>6, <1>7, <2>1, Induction
<1>9. Good(joined[n], n)
  <2> HIDE DEF Good
  <2>1. QED
        BY <1>1, <1>8
<1>10. CASE sent = <<>>
  <2>1. frames = <<>>
        BY <1>2, <1>4, <1>9, <1>10 DEF Carries
  <2>2. DOMAIN <<>> = {} /\ DOMAIN sent = {}
        BY <1>10
  <2>3. Loads(sent) = <<>>
        BY <2>2 DEF Loads
  <2>4. FlattenSeq(<<>>) = <<>>
        BY DEF FlattenSeq
  <2>5. QED
        BY <2>1, <2>3, <2>4
<1>11. CASE sent # <<>>
       BY <1>2, <1>4, <1>9, <1>11 DEF Carries
<1>12. QED
       BY <1>10, <1>11

\* Each datagram is read as it was sent, and is within the MTU.
LEMMA DatagramsHeard ==
  ASSUME NEW mtu \in Nat, NEW order, NEW frames, Ready(frames, mtu, order),
         NEW first \in Nat, first + Len(frames) <= 2^24,
         NEW sent, sent = Datagrams(frames, mtu, first), NEW i \in DOMAIN sent
  PROVE  /\ DecodeDatagram(EncodeDatagram(sent[i])) = sent[i]
         /\ Len(EncodeDatagram(sent[i])) <= mtu
<1>1. PICK F : /\ frames \in Seq(F)
               /\ \A f \in F : Carried(f, mtu) /\ Readable(f) /\ f.order = <<order>>
      BY DEF Ready
<1>2. \A f \in F : Sequence(EncodeFrame(f)) /\ Len(EncodeFrame(f)) + 4 <= mtu
      BY <1>1 DEF Carried
<1>3. frames \in Seq(F) /\ first \in Int
      BY <1>1
<1>4. sent \in Seq(Fitting(F, mtu)) /\ Len(sent) \in 0..Len(frames) /\ NumberedFrom(sent, first)
      BY <1>2, <1>3, DatagramNumbers
<1>5. i \in 1..Len(sent) /\ Len(frames) \in Nat
      BY <1>1, <1>4, LenProperties
<1> DEFINE d == sent[i]
           n == Len(d.frames)
<1>6. d \in Fitting(F, mtu)
      BY <1>4, <1>5, ElementOfSeq
<1>7. d.number = first + i - 1
      BY <1>4, <1>5 DEF NumberedFrom
<1>8. d.number \in 0..(2^24 - 1)
      BY <1>4, <1>5, <1>7
<1>9. d.frames \in Seq(F) /\ Len(EncodeDatagram(d)) <= mtu
      /\ d \in [number : Int, frames : FramesOf(F)]
      BY <1>6 DEF Fitting, FramesOf
<1>10. n \in Nat /\ Long(d.frames, n) /\ \A k \in 1..n : d.frames[k] \in F
       BY <1>9, LenProperties, ElementOfSeq DEF Long, Sequence
<1>11. \A k \in 1..n : Readable(d.frames[k]) /\ Sequence(EncodeFrame(d.frames[k]))
       BY <1>1, <1>2, <1>10
<1>12. d = [number |-> d.number, frames |-> d.frames]
       BY <1>9
<1> DEFINE number == d.number
           fs == d.frames
<1>13. /\ number \in 0..(2^24 - 1) /\ n \in Nat /\ Long(fs, n)
       /\ \A k \in 1..n : Readable(fs[k]) /\ Sequence(EncodeFrame(fs[k]))
       /\ d = [number |-> number, frames |-> fs]
       BY <1>8, <1>10, <1>11, <1>12
<1> HIDE DEF number, fs, n, d
<1>14. DecodeDatagram(EncodeDatagram(d)) = d
       BY <1>13, DatagramRead
<1>15. QED
       BY <1>9, <1>14 DEF d

\* The payload that is sent is heard, part by part and in either order.
LEMMA PayloadHeard ==
  ASSUME NEW payload, Sequence(payload), NEW mtu \in Sizes, Numbered(payload, mtu)
  PROVE  LET sent   == Sent(payload, mtu)
             wire   == [i \in DOMAIN sent |-> EncodeDatagram(sent[i])]
             heard  == [i \in DOMAIN wire |-> DecodeDatagram(wire[i])]
             frames == FlattenSeq([i \in DOMAIN heard |-> heard[i].frames])
         IN  /\ \A i \in DOMAIN wire : Len(wire[i]) <= mtu /\ heard[i] = sent[i]
             /\ \A i \in DOMAIN frames : frames[i].order = <<70000>>
             /\ Reassemble(frames) = payload /\ Reassemble(Reverse(frames)) = payload
<1> DEFINE sent   == Sent(payload, mtu)
           wire   == [i \in DOMAIN sent |-> EncodeDatagram(sent[i])]
           heard  == [i \in DOMAIN wire |-> DecodeDatagram(wire[i])]
           loads  == [i \in DOMAIN heard |-> heard[i].frames]
           frames == FlattenSeq(loads)
           cut    == Cut(payload, mtu)
<1>1. mtu \in Nat /\ mtu >= 40 /\ mtu < 2^13
  <2>1. mtu \in Nat /\ mtu >= 40 /\ mtu <= MaxMtu
        BY SizesAreEnough
  <2>2. MaxMtu < 2^13 /\ MaxMtu \in Int
        BY Limits
  <2>3. QED
        BY <2>1, <2>2
<1>2. cut = Frames(payload, mtu, 7, 300, 70000)
      BY DEF Cut
<1>3. sent = Datagrams(cut, mtu, FirstNumber)
      BY DEF Sent
<1>4. FirstNumber + Len(cut) <= 2^24 /\ FirstNumber \in Nat
  <2>1. FirstNumber + Len(cut) <= 2^24
        BY DEF Numbered
  <2>2. FirstNumber \in Nat
        BY Limits
  <2>3. QED
        BY <2>1, <2>2
<1> HIDE DEF cut, sent
<1>5. Reassemble(cut) = payload /\ Reassemble(Reverse(cut)) = payload
      BY <1>1, <1>2, CutTogether
<1>6. PICK F : cut \in Seq(F) /\ \A f \in F : Carried(f, mtu)
      BY <1>1, <1>2, FramesAreCarried
<1>7. Len(cut) <= 2^24
  <2>1. Len(cut) \in Nat
        BY <1>6, LenProperties
  <2>2. QED
        BY <1>4, <2>1
<1>8. Ready(cut, mtu, 70000)
  <2> DEFINE id       == 7
             reliable == 300
             order    == 70000
  <2>1. id \in 0..(2^16 - 1) /\ reliable \in 0..(2^24 - 1) /\ order \in 0..(2^24 - 1)
        OBVIOUS
  <2>2. cut = Frames(payload, mtu, id, reliable, order)
        BY <1>2
  <2> HIDE DEF id, reliable, order
  <2>3. Ready(cut, mtu, order)
        BY <1>1, <1>7, <2>1, <2>2, CutReady
  <2>4. QED
        BY <2>3 DEF order
<1>9. ASSUME NEW i \in DOMAIN sent
      PROVE  /\ DecodeDatagram(EncodeDatagram(sent[i])) = sent[i]
             /\ Len(EncodeDatagram(sent[i])) <= mtu
      BY <1>1, <1>3, <1>4, <1>8, DatagramsHeard
<1>10. \A i \in DOMAIN wire : Len(wire[i]) <= mtu /\ heard[i] = sent[i]
       BY <1>9
<1>11. loads = Loads(sent)
  <2>1. DOMAIN heard = DOMAIN sent
        OBVIOUS
  <2>2. \A i \in DOMAIN sent : heard[i].frames = sent[i].frames
        BY <1>10
  <2>3. QED
        BY <2>1, <2>2 DEF Loads
<1>12. FlattenSeq(Loads(sent)) = cut
  <2>1. \A f \in F : Sequence(EncodeFrame(f)) /\ Len(EncodeFrame(f)) + 4 <= mtu
        BY <1>6 DEF Carried
  <2>2. cut \in Seq(F) /\ FirstNumber \in Int
        BY <1>4, <1>6
  <2>3. QED
        BY <1>1, <1>3, <2>1, <2>2, FramesInOrder
<1>13. frames = cut
       BY <1>11, <1>12
<1>14. \A i \in DOMAIN cut : cut[i].order = <<70000>>
  <2>1. PICK G : cut \in Seq(G) /\ \A f \in G : f.order = <<70000>>
        BY <1>8 DEF Ready
  <2>2. QED
        BY <2>1, LenProperties, ElementOfSeq
<1> HIDE DEF loads, heard, wire
<1>15. /\ \A i \in DOMAIN frames : frames[i].order = <<70000>>
       /\ Reassemble(frames) = payload /\ Reassemble(Reverse(frames)) = payload
  <2> HIDE DEF frames
  <2>1. QED
        BY <1>5, <1>13, <1>14
<1>16. QED
       BY <1>10, <1>15 DEF sent, wire, heard, loads

(***************************************************************************)
(* Batches                                                                 *)
(***************************************************************************)
\* A packet in a batch, after its length.
Packed(p) == WriteVarU32(Len(p)) \o p

\* A packet whose length has room.
IsPacket(p) == Sequence(p) /\ Len(p) < 2^30

\* What decode_batch keeps is no failure.
LEMMA TakenPackets ==
  ASSUME NEW ps, NEW at
  PROVE  [packets |-> ps, at |-> at] # NoPacket
<1>1. DOMAIN [packets |-> ps, at |-> at] = {"packets", "at"} /\ DOMAIN NoPacket = {"failed"}
      BY DEF NoPacket
<1>2. "at" \notin {"failed"}
      OBVIOUS
<1>3. QED
      BY <1>1, <1>2

\* decode_batch takes a packet where one was written.
LEMMA PacketTaken ==
  ASSUME NEW p, IsPacket(p), NEW buf, NEW at, NEW to, Within(buf, at, to, Packed(p)), NEW ps
  PROVE  /\ TakePacket(buf, [packets |-> ps, at |-> at]) = [packets |-> Append(ps, p), at |-> to]
         /\ at < to
<1> DEFINE len == Len(p)
           s == WriteVarU32(len)
           k == Len(s)
<1>1. Sequence(p) /\ len \in Nat /\ len < 2^30
      BY Lengths DEF IsPacket
<1>2. Sequence(s) /\ k \in Nat
      BY <1>1, VarIntSequence
<1>3. Within(buf, at, to, s \o p)
      BY DEF Packed
<1> HIDE DEF s, k, len
<1>4. Long(s, k) /\ Long(p, len) /\ k + len \in Nat
      BY <1>1, <1>2 DEF Long, k, len
<1>5. Within(s \o p, k, k + len, p) /\ Long(s \o p, k + len)
      BY <1>1, <1>2, <1>4, WithinEnd
<1>6. Within(s \o p, 0, k, s)
  <2>1. Within(s, 0, k, s)
        BY <1>2, <1>4, WithinAll
  <2>2. QED
        BY <1>1, <2>1, WithinOn
<1>7. Within(buf, at + 0, at + k, s) /\ Within(buf, at + k, at + (k + len), p)
      BY <1>3, <1>5, <1>6, WithinPart
<1>8. /\ at \in Nat /\ to \in Nat /\ to <= Len(buf) /\ Len(buf) \in Nat
      /\ to = at + (k + len)
      BY <1>2, <1>1, <1>3, <1>5, Lengths DEF Within, Long
<1>9. Within(buf, at, at + k, s) /\ Within(buf, at + k, to, p)
  <2>1. at + 0 = at
        BY <1>8
  <2>2. QED
        BY <1>7, <1>8, <2>1
<1> DEFINE r == ReadVarU32(buf, at)
           b == [packets |-> ps, at |-> at]
<1>10. r = [value |-> len, at |-> at + k] /\ at < at + k /\ r # NoVarInt
  <2>1. Within(buf, at, at + k, WriteVarU32(len))
        BY <1>9 DEF s
  <2>2. QED
        BY <1>1, <2>1, VarIntRead
<1>11. r.value = len /\ r.at = at + k
       BY <1>10
<1>12. b # NoPacket /\ b.at = at /\ b.packets = ps
       BY TakenPackets
<1>13. (at + k) + len = to /\ ~(to > Len(buf)) /\ at # Len(buf) /\ at < to
       BY <1>1, <1>2, <1>8, <1>10
<1>14. Slice(buf, at + k, to) = p
       BY <1>9, WithinSlice
<1> HIDE DEF r, b
<1>15. TakePacket(buf, b) = [packets |-> Append(b.packets, Slice(buf, r.at, r.at + r.value)),
                             at |-> r.at + r.value]
  <2>1. ~(b = NoPacket \/ b.at = Len(buf)) /\ ~(r = NoVarInt \/ r.at + r.value > Len(buf))
        BY <1>10, <1>11, <1>12, <1>13
  <2>2. ReadVarU32(buf, b.at) = r
        BY <1>12 DEF r
  <2>3. QED
        BY <2>1, <2>2 DEF TakePacket
<1>16. QED
       BY <1>11, <1>12, <1>13, <1>14, <1>15 DEF b

\* The loop of decode_batch ends where such a loop ends.
LEMMA BatchLoop ==
  ASSUME NEW buf, Len(buf) \in Nat, NEW g, g[0] = [packets |-> <<>>, at |-> 1],
         \A i \in 1..Len(buf) : g[i] = TakePacket(buf, g[i - 1]), g[Len(buf)] # NoPacket,
         buf # <<>>, buf[1] = BatchMagic
  PROVE  DecodeBatch(buf) = g[Len(buf)].packets
<1> DEFINE n == Len(buf)
           begin == [packets |-> <<>>, at |-> 1]
           F(f) == [i \in 0..n |-> IF i = 0 THEN begin ELSE TakePacket(buf, f[i - 1])]
           read == CHOOSE f : f = F(f)
           h == [i \in 0..n |-> g[i]]
<1>1. DecodeBatch(buf)
        = IF buf = <<>> \/ buf[1] # BatchMagic \/ read[n] = NoPacket
            THEN NoPacket ELSE read[n].packets
      BY DEF DecodeBatch
<1> HIDE DEF begin, n
<1>2. n \in Nat /\ n = Len(buf)
      BY DEF n
<1>3. h = F(h)
  <2>1. ASSUME NEW i \in 0..n
        PROVE  g[i] = IF i = 0 THEN begin ELSE TakePacket(buf, h[i - 1])
    <3>1. CASE i = 0
          BY <3>1 DEF begin
    <3>2. CASE i # 0
      <4>1. i \in 1..n /\ i - 1 \in 0..n
            BY <1>2, <3>2
      <4>2. h[i - 1] = g[i - 1] /\ g[i] = TakePacket(buf, g[i - 1])
            BY <1>2, <4>1
      <4>3. QED
            BY <3>2, <4>2
    <3>3. QED
          BY <3>1, <3>2
  <2>2. QED
        BY <2>1
<1> HIDE DEF h
<1>4. read = F(read)
      BY <1>3
<1> HIDE DEF read
<1>5. \A f : F(f)[0] = begin /\ \A i \in 1..n : F(f)[i] = TakePacket(buf, f[i - 1])
      BY <1>2
<1> HIDE DEF F
<1>6. read[0] = begin /\ \A i \in 1..n : read[i] = TakePacket(buf, read[i - 1])
      BY <1>4, <1>5
<1>7. read[n] = g[n]
  <2>1. read[0] = g[0]
        BY <1>6 DEF begin
  <2>2. \A i \in 1..n : read[i - 1] = g[i - 1] => read[i] = g[i]
        BY <1>2, <1>6
  <2>3. QED
        BY <1>2, <2>1, <2>2, SameLoop
<1>8. QED
      BY <1>1, <1>2, <1>7

\* A packet after its length is some bytes.
LEMMA PackedSequence ==
  ASSUME NEW p, Sequence(p)
  PROVE  Sequence(Packed(p))
<1> DEFINE len == Len(p)
<1>1. len \in Int
      BY Lengths
<1> HIDE DEF len
<1>2. Sequence(WriteVarU32(len))
      BY <1>1, VarIntSequence
<1>3. QED
      BY <1>2, ConcatSequence DEF Packed, len

\* However many packets a batch has, they are read.
LEMMA BatchRead ==
  ASSUME NEW packets, NEW n \in Nat, Long(packets, n), \A i \in 1..n : IsPacket(packets[i])
  PROVE  DecodeBatch(EncodeBatch(packets)) = packets
<1> DEFINE pieces == [i \in DOMAIN packets |-> Packed(packets[i])]
           a == <<BatchMagic>>
           body == FlattenSeq(pieces)
           buf == EncodeBatch(packets)
<1>1. DOMAIN packets = 1..n /\ Len(packets) = n
      BY Lengths DEF Long
<1>2. buf = a \o body
      BY DEF EncodeBatch, Packed
<1> HIDE DEF buf
<1>3. Long(pieces, n) /\ \A i \in 1..n : pieces[i] = Packed(packets[i])
  <2>1. pieces = [i \in 1..n |-> pieces[i]]
        BY <1>1
  <2>2. \A i \in 1..n : pieces[i] = Packed(packets[i])
        BY <1>1
  <2> HIDE DEF pieces
  <2>3. QED
        BY <1>1, <2>1, <2>2, FunctionIsSequence
<1> HIDE DEF pieces
<1>4. ASSUME NEW i \in 1..n PROVE Sequence(pieces[i])
  <2>1. Sequence(packets[i])
        BY DEF IsPacket
  <2>2. QED
        BY <1>3, <2>1, PackedSequence
<1>5. PICK at : /\ at[0] = 0
                /\ \A i \in 0..n : at[i] \in Nat
                /\ \A i \in 1..n : Within(body, at[i - 1], at[i], pieces[i])
                /\ Long(body, at[n])
      BY <1>1, <1>3, <1>4, PiecesWithin
<1>6. Long(a, 1) /\ a[1] = BatchMagic
      BY OneSequence
<1> HIDE DEF a, body
<1> DEFINE long == at[n]
           size == 1 + long
<1>7. long \in Nat /\ size \in Nat /\ size >= 1 /\ Long(body, long)
  <2>1. n \in 0..n
        OBVIOUS
  <2>2. QED
        BY <1>5, <2>1
<1>8. Within(buf, 1, size, body) /\ Long(buf, size)
  <2> HIDE DEF long
  <2>1. QED
        BY <1>2, <1>6, <1>7, WithinEnd
<1>9. buf[1] = BatchMagic
  <2>1. Within(a, 0, 1, a)
        BY <1>6, WithinAll
  <2>2. Within(buf, 0, 1, a)
        BY <1>2, <1>7, <2>1, WithinOn DEF Long
  <2>3. buf[0 + 1] = a[1]
        BY <2>2, WithinFirst
  <2>4. QED
        BY <1>6, <2>3
<1>10. ASSUME NEW i \in 1..n
       PROVE  /\ Within(buf, 1 + at[i - 1], 1 + at[i], Packed(packets[i]))
              /\ at[i - 1] < at[i]
  <2>1. Within(buf, 1 + at[i - 1], 1 + at[i], Packed(packets[i]))
        BY <1>3, <1>5, <1>8, WithinPart
  <2>2. IsPacket(packets[i])
        OBVIOUS
  <2>3. 1 + at[i - 1] < 1 + at[i]
        BY <2>1, <2>2, PacketTaken
  <2>4. i - 1 \in 0..n /\ i \in 0..n
        OBVIOUS
  <2>5. at[i - 1] \in Nat /\ at[i] \in Nat
        BY <1>5, <2>4
  <2>6. QED
        BY <2>1, <2>3, <2>5
<1>11. n <= long
       BY <1>5, <1>10, PiecesCount
<1> DEFINE g == [i \in 0..size |-> [packets |-> First(packets, IF i <= n THEN i ELSE n),
                                    at |-> 1 + at[IF i <= n THEN i ELSE n]]]
<1> HIDE DEF long, size
<1>12. long \in Nat /\ size = 1 + long /\ long = at[n] /\ n <= size /\ Len(buf) = size
       /\ size \in Nat /\ size >= 1
  <2>1. size = 1 + long /\ long = at[n]
        BY DEF size, long
  <2>2. QED
        BY <1>7, <1>8, <1>11, <2>1 DEF Long
<1>13. ASSUME NEW i \in 1..size PROVE g[i] = TakePacket(buf, g[i - 1])
  <2>1. i - 1 \in 0..size /\ i \in 0..size
        BY <1>12
  <2>2. CASE i <= n
    <3>1. i \in 1..n /\ i - 1 <= n
          BY <1>12, <2>2
    <3>2. TakePacket(buf, [packets |-> First(packets, i - 1), at |-> 1 + at[i - 1]])
            = [packets |-> Append(First(packets, i - 1), packets[i]), at |-> 1 + at[i]]
      <4>1. Within(buf, 1 + at[i - 1], 1 + at[i], Packed(packets[i])) /\ IsPacket(packets[i])
            BY <1>10, <3>1
      <4>2. QED
            BY <4>1, PacketTaken
    <3>3. Append(First(packets, i - 1), packets[i]) = First(packets, i)
          BY <3>1, FirstThings
    <3>4. QED
          BY <2>1, <2>2, <3>1, <3>2, <3>3
  <2>3. CASE ~(i <= n)
    <3>1. n <= i - 1 /\ (i - 1 <= n => i - 1 = n)
          BY <1>12, <2>3
    <3> DEFINE e == [packets |-> First(packets, n), at |-> 1 + at[n]]
    <3>2. g[i] = e /\ g[i - 1] = e
          BY <2>1, <2>3, <3>1
    <3>3. e.at = Len(buf)
          BY <1>12
    <3> HIDE DEF e, g
    <3>4. QED
          BY <3>2, <3>3 DEF TakePacket
  <2>4. QED
        BY <2>2, <2>3
<1>14. g[0] = [packets |-> <<>>, at |-> 1]
  <2>1. First(packets, 0) = <<>> /\ 1 + at[0] = 1 /\ 0 \in 0..size /\ 0 <= n
        BY <1>5, <1>12, FirstThings
  <2>2. QED
        BY <2>1
<1>15. g[size] = [packets |-> packets, at |-> size]
  <2>1. First(packets, n) = packets /\ size \in 0..size /\ (size <= n => size = n)
        BY <1>12, FirstThings
  <2>2. QED
        BY <1>12, <2>1
<1> HIDE DEF g
<1>16. g[size].packets = packets /\ g[size] # NoPacket
       BY <1>15, TakenPackets
<1>17. DecodeBatch(buf) = g[Len(buf)].packets
  <2>1. Len(buf) \in Nat /\ g[Len(buf)] # NoPacket /\ buf # <<>>
    <3>1. Len(buf) # Len(<<>>)
          BY <1>12, EmptySequence DEF Long
    <3>2. QED
          BY <1>12, <1>16, <3>1
  <2>2. \A i \in 1..Len(buf) : g[i] = TakePacket(buf, g[i - 1])
        BY <1>12, <1>13
  <2>3. QED
        BY <1>9, <1>14, <2>1, <2>2, BatchLoop
<1>18. QED
       BY <1>12, <1>16, <1>17 DEF buf

\* Whatever its packets, a batch is some bytes.
LEMMA BatchSequence ==
  ASSUME NEW packets, NEW n \in Nat, Long(packets, n), \A i \in 1..n : Sequence(packets[i])
  PROVE  Sequence(EncodeBatch(packets))
<1> DEFINE pieces == [i \in DOMAIN packets |-> Packed(packets[i])]
           a == <<BatchMagic>>
           body == FlattenSeq(pieces)
<1>1. DOMAIN packets = 1..n
      BY Lengths DEF Long
<1>2. EncodeBatch(packets) = a \o body
      BY DEF EncodeBatch, Packed
<1>3. Long(pieces, n) /\ \A i \in 1..n : pieces[i] = Packed(packets[i])
  <2>1. pieces = [i \in 1..n |-> pieces[i]]
        BY <1>1
  <2>2. \A i \in 1..n : pieces[i] = Packed(packets[i])
        BY <1>1
  <2> HIDE DEF pieces
  <2>3. QED
        BY <1>1, <2>1, <2>2, FunctionIsSequence
<1> HIDE DEF pieces
<1>4. ASSUME NEW i \in 1..n PROVE Sequence(pieces[i])
  <2>1. Sequence(packets[i])
        OBVIOUS
  <2>2. QED
        BY <1>3, <2>1, PackedSequence
<1>5. PICK at : Long(body, at[n])
      BY <1>3, <1>4, PiecesWithin
<1>6. Sequence(body) /\ Sequence(a)
      BY <1>5, OneSequence DEF Long
<1> HIDE DEF a, body
<1>7. QED
      BY <1>2, <1>6, ConcatSequence

(***************************************************************************)
(* What the client reads                                                   *)
(***************************************************************************)
\* All payloads are some bytes.
LEMMA PayloadSequence ==
  ASSUME HasPalette(sub), NEW payload \in Payloads
  PROVE  Sequence(payload)
<1> DEFINE c == Column
           e == Encode(sub)
<1>1. Sequence(c) /\ Sequence(e)
      BY ColumnSequence, EncodeSequence
<1>2. payload \in {c, EncodeBatch(<<c>>), EncodeBatch(<<c, e>>)}
      BY DEF Payloads
<1> HIDE DEF c, e
<1>3. Sequence(EncodeBatch(<<c>>))
  <2>1. Long(<<c>>, 1) /\ \A i \in 1..1 : <<c>>[i] = c
        BY OneSequence
  <2>2. \A i \in 1..1 : Sequence(<<c>>[i])
        BY <1>1, <2>1
  <2> DEFINE s == <<c>>
  <2>3. Long(s, 1) /\ \A i \in 1..1 : Sequence(s[i])
        BY <2>1, <2>2
  <2> HIDE DEF s
  <2>4. Sequence(EncodeBatch(s))
        BY <2>3, BatchSequence
  <2>5. QED
        BY <2>4 DEF s
<1>4. Sequence(EncodeBatch(<<c, e>>))
  <2> DEFINE s == <<c, e>>
  <2>1. Long(s, 2) /\ s[1] = c /\ s[2] = e
        BY TwoSequence
  <2> HIDE DEF s
  <2>2. \A i \in 1..2 : Sequence(s[i])
        BY <1>1, <2>1
  <2>3. Sequence(EncodeBatch(s))
        BY <2>1, <2>2, BatchSequence
  <2>4. QED
        BY <2>3 DEF s
<1>5. QED
      BY <1>1, <1>2, <1>3, <1>4

\* A batch of a column and a subchunk is read as the two.
LEMMA TwoRead ==
  ASSUME HasPalette(sub), Len(Column) < MaxLength, Len(Encode(sub)) < MaxLength
  PROVE  DecodeBatch(EncodeBatch(<<Column, Encode(sub)>>)) = <<Column, Encode(sub)>>
<1> DEFINE c == Column
           e == Encode(sub)
           s == <<c, e>>
<1>1. IsPacket(c) /\ IsPacket(e)
      BY ColumnSequence, EncodeSequence DEF IsPacket, MaxLength
<1> HIDE DEF c, e
<1>2. Long(s, 2) /\ s[1] = c /\ s[2] = e
      BY TwoSequence
<1> HIDE DEF s
<1>3. \A i \in 1..2 : IsPacket(s[i])
      BY <1>1, <1>2
<1>4. DecodeBatch(EncodeBatch(s)) = s
      BY <1>2, <1>3, BatchRead
<1>5. QED
      BY <1>4 DEF s, c, e

\* Every payload arrives as it was, by datagrams within the MTU, in either order, with
\* its order index, and a batch is read as its packets: whatever the subchunk, the sizes
\* that handshakes agree on, and the number of the first datagram.
THEOREM PayloadsCarried == Spec => []PayloadCarried
<1>1. HasPalette(sub) => PayloadCarried
  <2> SUFFICES ASSUME HasPalette(sub) PROVE PayloadCarried
      OBVIOUS
  <2>1. ASSUME NEW payload \in Payloads, NEW mtu \in Sizes, Numbered(payload, mtu)
        PROVE  LET sent   == Sent(payload, mtu)
                   wire   == [i \in DOMAIN sent |-> EncodeDatagram(sent[i])]
                   heard  == [i \in DOMAIN wire |-> DecodeDatagram(wire[i])]
                   frames == FlattenSeq([i \in DOMAIN heard |-> heard[i].frames])
               IN  /\ \A i \in DOMAIN wire : Len(wire[i]) <= mtu /\ heard[i] = sent[i]
                   /\ \A i \in DOMAIN frames : frames[i].order = <<70000>>
                   /\ Reassemble(frames) = payload /\ Reassemble(Reverse(frames)) = payload
    <3>1. Sequence(payload)
          BY PayloadSequence
    <3>2. QED
          BY <2>1, <3>1, PayloadHeard
  <2>2. Len(Column) < MaxLength /\ Len(Encode(sub)) < MaxLength =>
          DecodeBatch(EncodeBatch(<<Column, Encode(sub)>>)) = <<Column, Encode(sub)>>
        BY TwoRead
  <2>3. QED
        BY <2>1, <2>2 DEF PayloadCarried
<1>2. QED
      BY <1>1, PaletteStays, PTL

(***************************************************************************)
(* Indices in words                                                        *)
(***************************************************************************)
\* A word holds r indices, from the one of the block first on.
Indices(word, r, b, blocks, first) ==
  /\ word \in Nat /\ word < Bit[b * r]
  /\ \A j \in 0..(r - 1) : (word \div Bit[b * j]) % Bit[b] = blocks[first + j]

\* The sum of word, below J, and of a multiple of J times B.
Sums(new, word, x, J, B, M) == new = word + x * (J * (B * M))

\* What is added above leaves what is below, in numbers.
LEMMA Above ==
  ASSUME NEW word \in Nat, NEW x \in Nat, NEW J \in Nat \ {0}, NEW B \in Nat \ {0}, NEW M \in Nat,
         NEW new, Sums(new, word, x, J, B, M)
  PROVE  (new \div J) % B = (word \div J) % B
<1> DEFINE q == word \div J
           s == word % J
           u == q \div B
           t == q % B
           y == x * M
<1>1. q \in Nat /\ s \in 0..(J - 1) /\ word = J * q + s
      OBVIOUS
<1>2. u \in Nat /\ t \in 0..(B - 1) /\ q = B * u + t
  <2> HIDE DEF q
  <2>1. QED
        BY <1>1
<1>3. y \in Nat
      OBVIOUS
<1>4. x * (J * (B * M)) = J * (B * y)
  <2>1. \A a, c, d, e \in Nat : a * (c * (d * e)) = c * (d * (a * e))
        OBVIOUS
  <2>2. QED
        BY <2>1
<1> HIDE DEF y
<1> DEFINE z == B * y
           v == q + z
<1>5. z \in Nat
      BY <1>3
<1>6. v \in Nat /\ v = B * (u + y) + t /\ u + y \in Nat
  <2>1. B * (u + y) = B * u + B * y
    <3> HIDE DEF u
    <3>1. QED
          BY <1>2, <1>3
  <2> HIDE DEF q, u, t
  <2>2. B * u \in Nat
        BY <1>2
  <2>3. QED
        BY <1>1, <1>2, <1>3, <1>5, <2>1, <2>2
<1>7. word + J * z = J * v + s
  <2>1. J * v = J * q + J * z
    <3> HIDE DEF q, z
    <3>1. QED
          BY <1>1, <1>5
  <2> HIDE DEF q, z, s, v
  <2>2. J * q \in Nat /\ J * z \in Nat
        BY <1>1, <1>5
  <2>3. QED
        BY <1>1, <2>1, <2>2
<1> HIDE DEF q, s, u, t, v, z
<1>8. (word + J * z) \div J = v
      BY <1>1, <1>6, <1>7, DividedOnce
<1>9. v % B = t
      BY <1>2, <1>3, <1>6, DividedOnce
<1>10. new = word + J * z
       BY <1>4 DEF z, Sums
<1>11. QED
       BY <1>8, <1>9, <1>10 DEF q, t

\* The next index goes into the next bits.
LEMMA IndexAdded ==
  ASSUME NEW b \in Nat \ {0}, NEW r \in Nat, b * (r + 1) <= WordBits,
         NEW word, NEW blocks, NEW first, Indices(word, r, b, blocks, first),
         NEW x \in Nat, x < Bit[b], blocks[first + r] = x
  PROVE  Indices(word + x * Bit[b * r], r + 1, b, blocks, first)
<1> DEFINE R == Bit[b * r]
           B == Bit[b]
           new == word + x * R
<1>1. WordBits \in Nat
      BY SizeAssumption
<1>2. b * r \in Nat /\ b * (r + 1) = b * r + b
      OBVIOUS
<1>3. b * r + b <= WordBits /\ b * r <= WordBits /\ b <= WordBits
      BY <1>1, <1>2
<1>4. R \in Nat \ {0} /\ B \in Nat \ {0} /\ Bit[b * (r + 1)] = R * B
  <2> DEFINE n == b * r
  <2>1. n \in Nat /\ n + b <= WordBits /\ n <= WordBits
        BY <1>2, <1>3
  <2> HIDE DEF n
  <2>2. Bit[n] \in Nat \ {0} /\ Bit[b] \in Nat \ {0} /\ Bit[n + b] = Bit[n] * Bit[b]
        BY <1>3, <2>1, BitGrows, BitPlus
  <2>3. QED
        BY <1>2, <2>2 DEF n
<1>5. word \in Nat /\ word < R
      BY DEF Indices
<1> HIDE DEF R
<1>6. new \in Nat /\ new < R * B
  <2>1. x * R \in Nat
        BY <1>4
  <2>2. R * B = R * (x + 1) + R * (B - x - 1)
        BY <1>4
  <2>3. B - x - 1 \in Nat
        BY <1>4
  <2>4. R * (B - x - 1) \in Nat
        BY <1>4, <2>3
  <2>5. R * (x + 1) = x * R + R
        BY <1>4
  <2>6. R * B \in Nat /\ R * (x + 1) \in Nat
        BY <1>4
  <2> HIDE DEF B
  <2>7. QED
        BY <1>4, <1>5, <2>1, <2>2, <2>4, <2>5, <2>6
<1>7. ASSUME NEW j \in 0..(r - 1) PROVE (new \div Bit[b * j]) % B = blocks[first + j]
  <2> DEFINE i == r - 1 - j
             k == b * j
             m == b * i
  <2>1. i \in Nat /\ j \in Nat
        OBVIOUS
  <2>2. k \in Nat /\ m \in Nat /\ b * r = k + (b + m)
    <3>1. r = j + (1 + i)
          BY <2>1
    <3> HIDE DEF i
    <3>2. b * (j + (1 + i)) = b * j + (b + b * i)
          BY <2>1
    <3>3. b * j \in Nat /\ b * i \in Nat
          BY <2>1
    <3>4. QED
          BY <3>1, <3>2, <3>3
  <2> HIDE DEF i, k, m
  <2>3. /\ k + (b + m) <= WordBits /\ b + m \in Nat /\ b + m <= WordBits
        /\ k <= WordBits /\ m <= WordBits
        BY <1>1, <1>3, <2>2
  <2>4. Bit[k] \in Nat \ {0} /\ Bit[m] \in Nat \ {0}
        BY <2>2, <2>3, BitGrows
  <2>5. Bit[b + m] = Bit[b] * Bit[m] /\ Bit[k + (b + m)] = Bit[k] * Bit[b + m]
        BY <2>2, <2>3, BitPlus
  <2>6. R = Bit[k] * (B * Bit[m])
        BY <2>2, <2>5 DEF R
  <2> DEFINE J == Bit[k]
             M == Bit[m]
  <2>7. J \in Nat \ {0} /\ M \in Nat /\ R = J * (B * M)
        BY <2>4, <2>6
  <2> HIDE DEF J, M, B
  <2>8. (new \div J) % B = (word \div J) % B
    <3>1. Sums(new, word, x, J, B, M)
          BY <2>7 DEF Sums
    <3>2. /\ word \in Nat /\ x \in Nat /\ J \in Nat \ {0}
          /\ B \in Nat \ {0} /\ M \in Nat
          BY <1>4, <1>5, <2>7
    <3> HIDE DEF new
    <3>3. QED
          BY <3>1, <3>2, Above
  <2>9. (word \div J) % B = blocks[first + j]
        BY DEF Indices, J, B, k
  <2>10. QED
        BY <2>8, <2>9 DEF J, k
<1>8. (new \div Bit[b * r]) % B = blocks[first + r]
  <2>1. new = R * x + word
        BY <1>4, <1>5
  <2> HIDE DEF new
  <2>2. new \div R = x
    <3>1. R \in Nat \ {0} /\ x \in Nat /\ word \in 0..(R - 1)
          BY <1>4, <1>5
    <3>2. QED
          BY <2>1, <3>1, DividedOnce
  <2>3. x % B = x
    <3>1. x \in 0..(B - 1)
          BY <1>4
    <3> HIDE DEF B
    <3>2. QED
          BY <1>4, <3>1, Below
  <2>4. QED
        BY <2>2, <2>3 DEF R
<1>9. \A j \in 0..((r + 1) - 1) : (new \div Bit[b * j]) % B = blocks[first + j]
  <2> HIDE DEF new
  <2> SUFFICES ASSUME NEW j \in 0..((r + 1) - 1)
               PROVE (new \div Bit[b * j]) % B = blocks[first + j]
      OBVIOUS
  <2>1. j = r \/ j \in 0..(r - 1)
        OBVIOUS
  <2>2. QED
        BY <1>7, <1>8, <2>1
<1>10. QED
       BY <1>4, <1>6, <1>9 DEF Indices, R

\* Word k of out holds n indices, from the one of the block first on.
HoldsWord(out, k, n, b, blocks, first) ==
  \E word : /\ Within(out, k * WordSize, (k + 1) * WordSize, LE(WordSize, word))
            /\ Indices(word, n, b, blocks, first)

\* A word is put out after the ones before.
LEMMA WordOut ==
  ASSUME NEW q \in Nat, NEW out, Long(out, q * WordSize), NEW word
  PROVE  /\ Long(out \o LE(WordSize, word), (q + 1) * WordSize)
         /\ Within(out \o LE(WordSize, word), q * WordSize, (q + 1) * WordSize, LE(WordSize, word))
         /\ \A k, n, b, blocks, first :
              HoldsWord(out, k, n, b, blocks, first)
                => HoldsWord(out \o LE(WordSize, word), k, n, b, blocks, first)
<1> DEFINE m == q * WordSize
           e == (q + 1) * WordSize
           s == LE(WordSize, word)
<1>1. WordSize \in Nat
      BY WordBytes
<1>2. m \in Nat /\ e \in Nat /\ e = m + WordSize
      BY <1>1
<1>3. Long(s, WordSize)
      BY <1>1, BytesOfNumber
<1> HIDE DEF m, e, s
<1>4. Within(out \o s, m, e, s) /\ Long(out \o s, e)
  <2>1. Long(out, m)
        BY DEF m
  <2>2. QED
        BY <1>1, <1>2, <1>3, <2>1, WithinEnd
<1>5. ASSUME NEW k, NEW n, NEW b, NEW blocks, NEW first, HoldsWord(out, k, n, b, blocks, first)
      PROVE  HoldsWord(out \o s, k, n, b, blocks, first)
  <2>1. PICK x : /\ Within(out, k * WordSize, (k + 1) * WordSize, LE(WordSize, x))
                 /\ Indices(x, n, b, blocks, first)
        BY <1>5 DEF HoldsWord
  <2>2. Sequence(s)
        BY <1>3 DEF Long
  <2>3. Within(out \o s, k * WordSize, (k + 1) * WordSize, LE(WordSize, x))
        BY <2>1, <2>2, WithinOn
  <2>4. QED
        BY <2>1, <2>3 DEF HoldsWord
<1>6. QED
      BY <1>4, <1>5 DEF m, e, s

\* After q words of p indices each, the word being filled has r.
Filled(w, blocks, b, p, q, r) ==
  /\ Long(w.out, q * WordSize)
  /\ \A k \in 0..(q - 1) : HoldsWord(w.out, k, p, b, blocks, p * k)
  /\ w.used = b * r /\ Indices(w.word, r, b, blocks, p * q)

\* A new word has no index.
LEMMA NoIndex ==
  ASSUME NEW b \in Nat, NEW blocks, NEW first
  PROVE  Indices(0, 0, b, blocks, first)
<1>1. b * 0 = 0
      OBVIOUS
<1>2. QED
      BY <1>1, BitSteps DEF Indices

\* An index goes into a word that has room for it and for more.
LEMMA PutInside ==
  ASSUME NEW b \in Nat \ {0}, NEW p \in Nat, WordBits = b * p,
         NEW q \in Nat, NEW r \in Nat, r + 1 < p,
         NEW w, NEW blocks, Filled(w, blocks, b, p, q, r),
         NEW x \in Nat, x < Bit[b], blocks[p * q + r] = x
  PROVE  Filled(Put(w, x, b), blocks, b, p, q, r + 1)
<1> DEFINE new == w.word + x * Bit[b * r]
           first == p * q
<1>1. b * (r + 1) = b * r + b /\ b * r + b < b * p /\ b * r \in Nat
  <2>1. b * p = b * (r + 1) + b * (p - r - 1) /\ p - r - 1 \in Nat \ {0}
        OBVIOUS
  <2>2. b * (p - r - 1) \in Nat \ {0}
        BY <2>1
  <2>3. b * (r + 1) = b * r + b /\ b * r \in Nat
        OBVIOUS
  <2> DEFINE y == b * (p - r - 1)
             z == b * r
             t == b * p
  <2>4. t = z + b + y /\ y \in Nat \ {0} /\ z \in Nat
        BY <2>1, <2>2, <2>3
  <2> HIDE DEF y, z, t
  <2>5. z + b < t
        BY <2>4
  <2>6. QED
        BY <2>3, <2>5 DEF z, t
<1>2. b * (r + 1) <= WordBits
      BY <1>1
<1>3. Indices(w.word, r, b, blocks, first)
      BY DEF Filled
<1>4. Indices(new, r + 1, b, blocks, first)
  <2>1. blocks[first + r] = x
        OBVIOUS
  <2> HIDE DEF first
  <2>2. QED
        BY <1>2, <1>3, <2>1, IndexAdded
<1>5. new % Bit[WordBits] = new
  <2>1. new \in Nat /\ new < Bit[b * (r + 1)]
        BY <1>4 DEF Indices
  <2> DEFINE m == b * (r + 1)
             W == WordBits
             d == Bit[W]
  <2>2. m \in Nat /\ m <= W /\ W <= WordBits /\ W \in Nat
        BY <1>2, WordBytes
  <2>3. new < Bit[m]
        BY <2>1
  <2> HIDE DEF m, W, new
  <2>4. Bit[m] \in Nat \ {0} /\ Bit[W] \in Nat \ {0} /\ Bit[m] <= Bit[W]
        BY <2>2, BitGrows
  <2>5. d \in Nat \ {0} /\ new \in 0..(d - 1)
        BY <2>1, <2>3, <2>4
  <2> HIDE DEF d
  <2>6. new % d = new
        BY <2>5, Below
  <2>7. QED
        BY <2>6 DEF d, W
<1>6. w.used = b * r
      BY DEF Filled
<1>7. Put(w, x, b) = [out |-> w.out, word |-> new, used |-> b * (r + 1)]
  <2>1. ~(w.used + b >= WordBits) /\ w.used + b = b * (r + 1)
    <3> DEFINE z == b * r
               t == b * p
    <3>1. z + b < t /\ z \in Nat /\ t = WordBits /\ WordBits \in Nat /\ w.used = z
          BY <1>1, <1>6, WordBytes
    <3>2. z + b = b * (r + 1)
          BY <1>1
    <3> HIDE DEF z, t
    <3>3. QED
          BY <3>1, <3>2
  <2>2. (w.word + x * Bit[w.used]) % Bit[WordBits] = new
        BY <1>5, <1>6
  <2> HIDE DEF new
  <2>3. QED
        BY <2>1, <2>2 DEF Put
<1> HIDE DEF new
<1>8. QED
      BY <1>4, <1>7 DEF Filled

\* An index that fills its word sends it out.
LEMMA PutAtEnd ==
  ASSUME NEW b \in Nat \ {0}, NEW p \in Nat, WordBits = b * p,
         NEW q \in Nat, NEW r \in Nat, r + 1 = p,
         NEW w, NEW blocks, Filled(w, blocks, b, p, q, r),
         NEW x \in Nat, x < Bit[b], blocks[p * q + r] = x
  PROVE  Filled(Put(w, x, b), blocks, b, p, q + 1, 0)
<1> DEFINE new == w.word + x * Bit[b * r]
           first == p * q
           out == w.out \o LE(WordSize, new)
<1>1. b * (r + 1) = b * r + b /\ b * (r + 1) = WordBits
      OBVIOUS
<1>2. Indices(w.word, r, b, blocks, first)
      BY DEF Filled
<1>3. Indices(new, p, b, blocks, first)
  <2>1. blocks[first + r] = x
        OBVIOUS
  <2>2. b * (r + 1) <= WordBits
        BY <1>1, WordBytes
  <2> HIDE DEF first
  <2>3. QED
        BY <1>2, <2>1, <2>2, IndexAdded
<1>4. new % Bit[WordBits] = new
  <2>1. new \in Nat /\ new < Bit[b * p]
        BY <1>3 DEF Indices
  <2> DEFINE d == Bit[WordBits]
  <2>2. new < d
        BY <2>1
  <2>3. WordBits \in Nat
        BY WordBytes
  <2> HIDE DEF new
  <2>4. d \in Nat \ {0}
        BY <2>3, BitGrows
  <2>5. d \in Nat \ {0} /\ new \in 0..(d - 1)
        BY <2>1, <2>2, <2>4
  <2> HIDE DEF d
  <2>6. new % d = new
        BY <2>5, Below
  <2>7. QED
        BY <2>6 DEF d
<1>5. w.used = b * r
      BY DEF Filled
<1>6. Put(w, x, b) = [out |-> out, word |-> 0, used |-> 0]
  <2>1. w.used + b >= WordBits
        BY <1>1, <1>5, WordBytes
  <2>2. (w.word + x * Bit[w.used]) % Bit[WordBits] = new
        BY <1>4, <1>5
  <2> HIDE DEF new
  <2>3. QED
        BY <2>1, <2>2 DEF Put
<1>7. /\ Long(w.out, q * WordSize)
      /\ \A k \in 0..(q - 1) : HoldsWord(w.out, k, p, b, blocks, p * k)
      BY DEF Filled
<1> HIDE DEF new
<1>8. /\ Long(out, (q + 1) * WordSize)
      /\ Within(out, q * WordSize, (q + 1) * WordSize, LE(WordSize, new))
      /\ \A k \in 0..(q - 1) : HoldsWord(out, k, p, b, blocks, p * k)
      BY <1>7, WordOut
<1> HIDE DEF out
<1>9. HoldsWord(out, q, p, b, blocks, p * q)
      BY <1>3, <1>8 DEF HoldsWord
<1>10. ASSUME NEW k \in 0..((q + 1) - 1) PROVE HoldsWord(out, k, p, b, blocks, p * k)
  <2>1. k = q \/ k \in 0..(q - 1)
        OBVIOUS
  <2>2. QED
        BY <1>8, <1>9, <2>1
<1>11. Indices(0, 0, b, blocks, p * (q + 1))
       BY NoIndex
<1>12. b * 0 = 0
       OBVIOUS
<1>13. QED
       BY <1>6, <1>8, <1>10, <1>11, <1>12 DEF Filled

\* The index of block c, in one of n words of p indices, is x.
HoldsIndex(out, n, c, b, p, x) ==
  \E k \in 0..(n - 1), j \in 0..(p - 1), word \in Nat :
    /\ c = p * k + j /\ word < Bit[WordBits]
    /\ Within(out, k * WordSize, (k + 1) * WordSize, LE(WordSize, word))
    /\ (word \div Bit[b * j]) % Bit[b] = x

\* An index of a word that holds it.
LEMMA IndexHeld ==
  ASSUME NEW b \in Nat \ {0}, NEW p \in Nat \ {0}, WordBits = b * p,
         NEW n \in Nat, NEW k \in 0..(n - 1), NEW m \in 0..p, NEW j \in 0..(m - 1),
         NEW out, NEW blocks, HoldsWord(out, k, m, b, blocks, p * k)
  PROVE  HoldsIndex(out, n, p * k + j, b, p, blocks[p * k + j])
<1> DEFINE first == p * k
<1>1. PICK word : /\ Within(out, k * WordSize, (k + 1) * WordSize, LE(WordSize, word))
                  /\ Indices(word, m, b, blocks, first)
      BY DEF HoldsWord
<1>2. /\ word \in Nat /\ word < Bit[b * m]
      /\ (word \div Bit[b * j]) % Bit[b] = blocks[first + j]
      BY <1>1 DEF Indices
<1>3. word < Bit[WordBits]
  <2> DEFINE a == b * m
             W == WordBits
  <2>1. a \in Nat /\ a <= W
    <3>1. b * p = b * m + b * (p - m) /\ p - m \in Nat
          OBVIOUS
    <3>2. b * (p - m) \in Nat /\ b * m \in Nat
          BY <3>1
    <3> DEFINE y == b * (p - m)
    <3>3. W = a + y /\ y \in Nat /\ a \in Nat
          BY <3>1, <3>2
    <3> HIDE DEF a, y, W
    <3>4. QED
          BY <3>3
  <2>2. W \in Nat /\ W <= WordBits
        BY WordBytes
  <2>3. word < Bit[a]
        BY <1>2
  <2> HIDE DEF a, W
  <2>4. Bit[a] \in Nat \ {0} /\ Bit[W] \in Nat \ {0} /\ Bit[a] <= Bit[W]
        BY <2>1, <2>2, BitGrows
  <2>5. word < Bit[W]
        BY <1>2, <2>3, <2>4
  <2>6. QED
        BY <2>5 DEF W
<1>4. j \in 0..(p - 1)
      OBVIOUS
<1> DEFINE c == first + j
<1>5. c = p * k + j /\ (word \div Bit[b * j]) % Bit[b] = blocks[c]
      BY <1>2
<1> HIDE DEF c
<1>6. HoldsIndex(out, n, c, b, p, blocks[c])
      BY <1>1, <1>2, <1>3, <1>4, <1>5 DEF HoldsIndex
<1>7. QED
      BY <1>6 DEF c

\* The words, all full but perhaps the last, hold the index of each block.
LEMMA PackHolds ==
  ASSUME NEW b \in Nat \ {0}, NEW p \in Nat \ {0}, WordBits = b * p,
         NEW blocks, \A c \in 0..(Cells - 1) : blocks[c] \in Nat /\ blocks[c] < Bit[b]
  PROVE  LET n == (Cells + p - 1) \div p
         IN  /\ n \in Nat /\ Long(Pack(blocks, b), n * WordSize)
             /\ \A c \in 0..(Cells - 1) : HoldsIndex(Pack(blocks, b), n, c, b, p, blocks[c])
<1>1. Cells \in Nat
      BY SizeAssumption
<1>2. PICK packed : /\ packed[0] = [out |-> <<>>, word |-> 0, used |-> 0]
                    /\ \A i \in 1..Cells : packed[i] = Put(packed[i - 1], blocks[i - 1], b)
                    /\ Pack(blocks, b)
                         = IF packed[Cells].used > 0
                             THEN packed[Cells].out \o LE(WordSize, packed[Cells].word)
                             ELSE packed[Cells].out
      BY PackSteps
<1> DEFINE Full(i, q, r) == i = p * q + r /\ Filled(packed[i], blocks, b, p, q, r)
           T == {i \in Nat : i <= Cells => \E q \in Nat, r \in 0..(p - 1) : Full(i, q, r)}
<1>3. 0 \in T
  <2>1. Full(0, 0, 0)
    <3>1. 0 * WordSize = 0 /\ b * 0 = 0 /\ p * 0 + 0 = 0
          BY WordBytes
    <3>2. Long(packed[0].out, 0 * WordSize)
          BY <1>2, <3>1, EmptySequence
    <3>3. packed[0].used = b * 0 /\ Indices(packed[0].word, 0, b, blocks, p * 0)
          BY <1>2, <3>1, NoIndex
    <3>4. Filled(packed[0], blocks, b, p, 0, 0)
          BY <3>2, <3>3 DEF Filled
    <3>5. QED
          BY <3>1, <3>4
  <2> HIDE DEF Full
  <2>2. 0 \in Nat /\ 0 \in 0..(p - 1)
        OBVIOUS
  <2>3. QED
        BY <2>1, <2>2
<1>4. ASSUME NEW i \in T PROVE i + 1 \in T
  <2>1. SUFFICES ASSUME i + 1 <= Cells
                 PROVE  \E q \in Nat, r \in 0..(p - 1) : Full(i + 1, q, r)
        OBVIOUS
  <2>2. i \in Nat /\ i + 1 \in 1..Cells /\ (i + 1) - 1 = i /\ i <= Cells /\ i \in 0..(Cells - 1)
        BY <1>1, <1>4, <2>1
  <2>3. PICK q \in Nat, r \in 0..(p - 1) : Full(i, q, r)
    <3> HIDE DEF Full
    <3>1. QED
          BY <1>4, <2>2
  <2> DEFINE x == blocks[i]
             w == packed[i]
  <2>4. packed[i + 1] = Put(w, x, b)
        BY <1>2, <2>2
  <2>5. x \in Nat /\ x < Bit[b] /\ blocks[p * q + r] = x /\ i = p * q + r
        BY <2>2, <2>3
  <2>6. Filled(w, blocks, b, p, q, r)
        BY <2>3
  <2> HIDE DEF x, w
  <2>7. CASE r + 1 < p
    <3>1. Filled(Put(w, x, b), blocks, b, p, q, r + 1)
          BY <2>5, <2>6, <2>7, PutInside
    <3>2. r + 1 \in 0..(p - 1) /\ i + 1 = p * q + (r + 1)
      <4> DEFINE y == p * q
      <4>1. y \in Nat /\ i = y + r
            BY <2>5
      <4> HIDE DEF y
      <4>2. r + 1 \in 0..(p - 1) /\ i + 1 = y + (r + 1)
            BY <2>7, <4>1
      <4>3. QED
            BY <4>2 DEF y
    <3>3. Full(i + 1, q, r + 1)
          BY <2>4, <3>1, <3>2
    <3> HIDE DEF Full
    <3>4. QED
          BY <3>2, <3>3
  <2>8. CASE r + 1 = p
    <3>1. Filled(Put(w, x, b), blocks, b, p, q + 1, 0)
      <4>1. p \in Nat /\ r \in Nat /\ x \in Nat /\ x < Bit[b] /\ blocks[p * q + r] = x
            BY <2>5
      <4>2. QED
            BY ONLY <2>6, <2>8, <4>1, PutAtEnd, WordBits = b * p, b \in Nat \ {0}, q \in Nat
    <3>2. q + 1 \in Nat /\ 0 \in 0..(p - 1) /\ i + 1 = p * (q + 1) + 0
      <4> DEFINE y == p * q
                 z == p * (q + 1)
      <4>1. y \in Nat /\ i = y + r /\ z = y + p
            BY <2>5
      <4> HIDE DEF y, z
      <4>2. q + 1 \in Nat /\ 0 \in 0..(p - 1) /\ i + 1 = z + 0
            BY <2>8, <4>1
      <4>3. QED
            BY <4>2 DEF z
    <3>3. Full(i + 1, q + 1, 0)
          BY <2>4, <3>1, <3>2
    <3> HIDE DEF Full
    <3>4. QED
          BY <3>2, <3>3
  <2>9. QED
        BY <2>7, <2>8
<1>5. T = Nat
  <2>1. T \in SUBSET Nat
        OBVIOUS
  <2> HIDE DEF T
  <2>2. QED
        BY <1>3, <1>4, <2>1, Induction
<1>6. PICK q \in Nat, r \in 0..(p - 1) : Full(Cells, q, r)
  <2>1. Cells \in T
    <3> HIDE DEF T
    <3>1. QED
          BY <1>1, <1>5
  <2> DEFINE Some(i) == \E q \in Nat, r \in 0..(p - 1) : Full(i, q, r)
  <2>2. \A i \in T : i <= Cells => Some(i)
        OBVIOUS
  <2> HIDE DEF Some, T
  <2>3. Some(Cells)
        BY <1>1, <2>1, <2>2
  <2> HIDE DEF Full
  <2>4. QED
        BY <2>3 DEF Some
<1> DEFINE end == packed[Cells]
           n == (Cells + p - 1) \div p
           all == Pack(blocks, b)
<1>7. /\ Long(end.out, q * WordSize)
      /\ \A k \in 0..(q - 1) : HoldsWord(end.out, k, p, b, blocks, p * k)
      /\ end.used = b * r /\ Indices(end.word, r, b, blocks, p * q)
      BY <1>6 DEF Filled
<1>8. all = IF end.used > 0 THEN end.out \o LE(WordSize, end.word) ELSE end.out
      BY <1>2
<1>9. Cells = p * q + r
      BY <1>6
<1> HIDE DEF end, all, Full
<1> DEFINE Held(c) == HoldsIndex(all, n, c, b, p, blocks[c])
<1>10. CASE r = 0
  <2>1. n = q
    <3> DEFINE s == p - 1
    <3>1. s \in 0..(p - 1) /\ Cells + p - 1 = p * q + s
      <4> DEFINE y == p * q
      <4>1. y \in Nat /\ Cells = y + r
            BY <1>9
      <4> HIDE DEF y
      <4>2. s \in 0..(p - 1) /\ Cells + p - 1 = y + s
            BY <1>10, <4>1
      <4>3. QED
            BY <4>2 DEF y
    <3> HIDE DEF s
    <3>2. QED
          BY <3>1, DividedOnce
  <2> HIDE DEF n
  <2>2. b * r = 0 /\ ~(0 > 0)
        BY <1>10
  <2>3. all = end.out
        BY <1>7, <1>8, <2>2
  <2>4. ASSUME NEW c \in 0..(Cells - 1) PROVE Held(c)
    <3> DEFINE k == c \div p
               j == c % p
    <3>1. k \in Nat /\ j \in 0..(p - 1) /\ c = p * k + j
          BY <1>1
    <3> HIDE DEF k, j
    <3>2. k < q
      <4>1. CASE k >= q
        <5> DEFINE y == p * q
                   z == p * (k - q)
                   x == p * k
        <5>1. x = y + z /\ z \in Nat /\ y \in Nat /\ Cells = y + r /\ c = x + j
              BY <1>9, <3>1, <4>1
        <5> HIDE DEF x, y, z
        <5>2. QED
              BY <1>1, <1>10, <3>1, <5>1
      <4>2. QED
            BY <3>1, <4>1
    <3>3. k \in 0..(n - 1) /\ p \in 0..p /\ n \in Nat
          BY <2>1, <3>1, <3>2
    <3>4. HoldsWord(all, k, p, b, blocks, p * k)
      <4>1. k \in 0..(q - 1)
            BY <3>1, <3>2
      <4>2. QED
            BY <1>7, <2>3, <4>1
    <3>5. HoldsIndex(all, n, p * k + j, b, p, blocks[p * k + j])
          BY <3>1, <3>3, <3>4, IndexHeld
    <3>6. QED
          BY <3>1, <3>5
  <2>5. n \in Nat /\ Long(all, n * WordSize)
        BY <1>7, <2>1, <2>3
  <2> HIDE DEF Held
  <2>6. QED
        BY <2>4, <2>5 DEF n, all, Held
<1>11. CASE r # 0
  <2>1. n = q + 1
    <3> DEFINE s == r - 1
               u == q + 1
    <3>1. s \in 0..(p - 1) /\ u \in Nat /\ Cells + p - 1 = p * u + s
      <4> DEFINE y == p * q
                 z == p * u
      <4>1. y \in Nat /\ Cells = y + r /\ z = y + p /\ s = r - 1 /\ u \in Nat
            BY <1>9
      <4> HIDE DEF y, z, s, u
      <4>2. s \in 0..(p - 1) /\ Cells + p - 1 = z + s
            BY <1>11, <4>1
      <4>3. QED
            BY <4>1, <4>2 DEF z
    <3> HIDE DEF s, u
    <3>2. n = u
          BY <3>1, DividedOnce
    <3>3. QED
          BY <3>2 DEF u
  <2> HIDE DEF n
  <2>2. b * r > 0
    <3>1. b * r = b * (r - 1) + b /\ r - 1 \in Nat
          BY <1>11
    <3> DEFINE y == b * (r - 1)
               z == b * r
    <3>2. y \in Nat /\ z = y + b
          BY <3>1
    <3> HIDE DEF y, z
    <3>3. z > 0
          BY <3>2
    <3>4. QED
          BY <3>3 DEF z
  <2>3. all = end.out \o LE(WordSize, end.word)
        BY <1>7, <1>8, <2>2
  <2>4. /\ Long(all, (q + 1) * WordSize)
        /\ Within(all, q * WordSize, (q + 1) * WordSize, LE(WordSize, end.word))
        /\ \A k \in 0..(q - 1) : HoldsWord(all, k, p, b, blocks, p * k)
        BY <1>7, <2>3, WordOut
  <2>5. HoldsWord(all, q, r, b, blocks, p * q)
        BY <1>7, <2>4 DEF HoldsWord
  <2>6. ASSUME NEW c \in 0..(Cells - 1) PROVE Held(c)
    <3> DEFINE k == c \div p
               j == c % p
    <3>1. k \in Nat /\ j \in 0..(p - 1) /\ c = p * k + j
          BY <1>1
    <3> HIDE DEF k, j
    <3>2. k < q \/ (k = q /\ j < r)
      <4>1. CASE k > q
        <5> DEFINE y == p * q
                   z == p * (k - q - 1)
                   x == p * k
        <5>1. k - q - 1 \in Nat
              BY <3>1, <4>1
        <5>2. x = y + z + p /\ z \in Nat /\ y \in Nat /\ Cells = y + r /\ c = x + j
              BY <1>9, <3>1, <5>1
        <5> HIDE DEF x, y, z
        <5>3. QED
              BY <1>1, <3>1, <5>2
      <4>2. CASE k = q
        <5> DEFINE y == p * q
        <5>1. y \in Nat /\ Cells = y + r /\ c = y + j
              BY <1>9, <3>1, <4>2
        <5> HIDE DEF y
        <5>2. QED
              BY <1>1, <3>1, <4>2, <5>1
      <4>3. QED
            BY <3>1, <4>1, <4>2
    <3>3. k \in 0..(n - 1) /\ n \in Nat
          BY <2>1, <3>1, <3>2
    <3>4. CASE k < q
      <4>1. k \in 0..(q - 1) /\ p \in 0..p
            BY <3>1, <3>4
      <4>2. HoldsWord(all, k, p, b, blocks, p * k)
            BY <2>4, <4>1
      <4>3. HoldsIndex(all, n, p * k + j, b, p, blocks[p * k + j])
            BY <3>1, <3>3, <4>1, <4>2, IndexHeld
      <4>4. QED
            BY <3>1, <4>3
    <3>5. CASE k = q /\ j < r
      <4>1. j \in 0..(r - 1) /\ r \in 0..p
            BY <3>1, <3>5
      <4>2. HoldsWord(all, k, r, b, blocks, p * k)
            BY <2>5, <3>5
      <4>3. HoldsIndex(all, n, p * k + j, b, p, blocks[p * k + j])
            BY <3>1, <3>3, <4>1, <4>2, IndexHeld
      <4>4. QED
            BY <3>1, <4>3
    <3>6. QED
          BY <3>2, <3>4, <3>5
  <2>7. n \in Nat /\ Long(all, n * WordSize)
        BY <2>1, <2>4
  <2> HIDE DEF Held
  <2>8. QED
        BY <2>6, <2>7 DEF n, all, Held
<1>12. QED
       BY <1>10, <1>11

(***************************************************************************)
(* Subchunks, read                                                         *)
(***************************************************************************)
\* A palette whose indices fill their words: as many in each.
LEMMA PerWordOf ==
  ASSUME NEW b \in Nat \ {0}, WordBits % b = 0
  PROVE  PerWord(b) \in Nat \ {0} /\ WordBits = b * PerWord(b)
<1> DEFINE q == WordBits \div b
           s == b - 1
<1>1. WordBits \in Nat /\ WordBits > 0
      BY SizeAssumption
<1>2. q \in Nat /\ WordBits = b * q
  <2> DEFINE y == b * q
  <2>1. WordBits = y + (WordBits % b) /\ q \in Nat
        BY <1>1
  <2>2. y \in Nat
        BY <2>1
  <2> HIDE DEF y, q
  <2>3. WordBits = y
        BY <2>1, <2>2
  <2>4. QED
        BY <2>1, <2>3 DEF y
<1> HIDE DEF q
<1>3. s \in 0..(b - 1) /\ WordBits + b - 1 = b * q + s
      BY <1>1, <1>2
<1> HIDE DEF s
<1>4. (WordBits + b - 1) \div b = q
      BY <1>2, <1>3, DividedOnce
<1>5. q # 0
  <2>1. b * 0 = 0
        OBVIOUS
  <2>2. QED
        BY <1>1, <1>2, <2>1
<1>6. QED
      BY <1>2, <1>4, <1>5 DEF PerWord

\* Block c is read as x, from one of n words of p indices after three bytes.
ReadsIndex(data, n, c, b, p, x) ==
  LET k == c \div p
  IN  /\ k < n
      /\ (FromLE(Slice(data, 3 + k * WordSize, 3 + (k + 1) * WordSize))
            \div Bit[b * (c % p)]) % Bit[b] = x

\* An index is read from its word.
LEMMA IndexRead ==
  ASSUME NEW b, NEW p \in Nat \ {0}, NEW n \in Nat, NEW c, NEW x, NEW out,
         HoldsIndex(out, n, c, b, p, x),
         NEW data, NEW to, Within(data, 3, to, out)
  PROVE  ReadsIndex(data, n, c, b, p, x)
<1>1. PICK k \in 0..(n - 1), j \in 0..(p - 1), word \in Nat :
        /\ c = p * k + j /\ word < Bit[WordBits]
        /\ Within(out, k * WordSize, (k + 1) * WordSize, LE(WordSize, word))
        /\ (word \div Bit[b * j]) % Bit[b] = x
      BY DEF HoldsIndex
<1>2. c \div p = k /\ c % p = j
  <2>1. c = p * k + j /\ k \in Nat /\ j \in 0..(p - 1)
        BY <1>1
  <2>2. QED
        BY <2>1, DividedOnce
<1>3. Within(data, 3 + k * WordSize, 3 + (k + 1) * WordSize, LE(WordSize, word))
      BY <1>1, WithinPart
<1>4. FromLE(Slice(data, 3 + k * WordSize, 3 + (k + 1) * WordSize)) = word
      BY <1>1, <1>3, WithinSlice, WordRead
<1>5. k < n
      BY <1>1
<1>6. QED
      BY <1>1, <1>2, <1>4, <1>5 DEF ReadsIndex

\* What the loop over a palette keeps is no failure.
LEMMA TakenIds ==
  ASSUME NEW ids, NEW at
  PROVE  [ids |-> ids, at |-> at] # Failed
<1>1. DOMAIN [ids |-> ids, at |-> at] = {"ids", "at"} /\ DOMAIN Failed = {"failed"}
      BY DEF Failed
<1>2. "at" \notin {"failed"}
      OBVIOUS
<1>3. QED
      BY <1>1, <1>2

\* decode_subchunk takes an id where one was written.
LEMMA IdTaken ==
  ASSUME NEW id \in Nat, id < 2^30, NEW data, NEW at, NEW to,
         Within(data, at, to, WriteVarU32(id)), NEW ids
  PROVE  /\ TakeId(data, [ids |-> ids, at |-> at]) = [ids |-> Append(ids, id), at |-> to]
         /\ at < to
<1> DEFINE r == ReadVarU32(data, at)
           p == [ids |-> ids, at |-> at]
<1>1. r = [value |-> id, at |-> to] /\ at < to /\ r # NoVarInt
      BY VarIntRead
<1>2. r.value = id /\ r.at = to
      BY <1>1
<1>3. p # Failed /\ p.at = at /\ p.ids = ids
      BY TakenIds
<1> HIDE DEF r, p
<1>4. ReadVarU32(data, p.at) = r
      BY <1>3 DEF r
<1>5. TakeId(data, p) = [ids |-> Append(p.ids, r.value), at |-> r.at]
      BY <1>1, <1>3, <1>4 DEF TakeId
<1>6. QED
      BY <1>1, <1>2, <1>3, <1>5 DEF p

\* The loop over a palette ends where such a loop ends.
LEMMA PaletteLoop ==
  ASSUME NEW data, Len(data) \in Nat, NEW at, NEW n \in Nat, n <= Len(data), NEW from,
         ReadVarU32(data, at) = [value |-> n, at |-> from], ReadVarU32(data, at) # NoVarInt,
         NEW g, g[0] = [ids |-> <<>>, at |-> from],
         \A i \in 1..n : g[i] = TakeId(data, g[i - 1])
  PROVE  ReadPalette(data, at) = g[n]
<1> DEFINE size == ReadVarU32(data, at)
           m == size.value
           begin == [ids |-> <<>>, at |-> size.at]
           F(f) == [i \in 0..m |-> IF i = 0 THEN begin ELSE TakeId(data, f[i - 1])]
           read == CHOOSE f : f = F(f)
           h == [i \in 0..n |-> g[i]]
<1>1. ReadPalette(data, at)
        = IF size = NoVarInt \/ m > Len(data) THEN Failed ELSE read[m]
      BY DEF ReadPalette
<1>2. m = n /\ size.at = from /\ size # NoVarInt
      BY DEF size
<1>3. begin = [ids |-> <<>>, at |-> from]
      BY <1>2
<1> HIDE DEF begin, m, size
<1>4. h = F(h)
  <2>1. ASSUME NEW i \in 0..n
        PROVE  g[i] = IF i = 0 THEN begin ELSE TakeId(data, h[i - 1])
    <3>1. CASE i = 0
          BY <1>3, <3>1
    <3>2. CASE i # 0
      <4>1. i \in 1..n /\ i - 1 \in 0..n
            BY <3>2
      <4>2. h[i - 1] = g[i - 1] /\ g[i] = TakeId(data, g[i - 1])
            BY <4>1
      <4>3. QED
            BY <3>2, <4>2
    <3>3. QED
          BY <3>1, <3>2
  <2>2. QED
        BY <1>2, <2>1
<1> HIDE DEF h
<1>5. read = F(read)
      BY <1>4
<1> HIDE DEF read
<1>6. \A f : F(f)[0] = begin /\ \A i \in 1..n : F(f)[i] = TakeId(data, f[i - 1])
      BY <1>2
<1> HIDE DEF F
<1>7. read[0] = begin /\ \A i \in 1..n : read[i] = TakeId(data, read[i - 1])
      BY <1>5, <1>6
<1>8. read[n] = g[n]
  <2>1. read[0] = g[0]
        BY <1>3, <1>7
  <2>2. \A i \in 1..n : read[i - 1] = g[i - 1] => read[i] = g[i]
        BY <1>7
  <2>3. QED
        BY <2>1, <2>2, SameLoop
<1>9. QED
      BY <1>1, <1>2, <1>8

\* The ids of a palette follow each other, and each has a byte.
LEMMA PaletteWritten ==
  ASSUME NEW ids, NEW n \in Nat, \A i \in 1..n : ids[i] \in Nat /\ ids[i] < 2^30,
         NEW body, body = FlattenSeq([i \in 1..n |-> WriteVarU32(ids[i])])
  PROVE  \E pos : /\ pos[0] = 0
                  /\ \A i \in 0..n : pos[i] \in Nat
                  /\ \A i \in 1..n : Within(body, pos[i - 1], pos[i], WriteVarU32(ids[i]))
                  /\ Long(body, pos[n]) /\ n <= pos[n]
<1> DEFINE pieces == [i \in 1..n |-> WriteVarU32(ids[i])]
<1>1. body = FlattenSeq(pieces)
      OBVIOUS
<1>2. Long(pieces, n) /\ \A i \in 1..n : pieces[i] = WriteVarU32(ids[i])
  <2>1. pieces = [i \in 1..n |-> pieces[i]]
        OBVIOUS
  <2>2. \A i \in 1..n : pieces[i] = WriteVarU32(ids[i])
        OBVIOUS
  <2> HIDE DEF pieces
  <2>3. QED
        BY <2>1, <2>2, FunctionIsSequence
<1> HIDE DEF pieces
<1>3. ASSUME NEW i \in 1..n PROVE Sequence(pieces[i])
  <2>1. ids[i] \in Int /\ pieces[i] = WriteVarU32(ids[i])
        BY <1>2
  <2>2. Sequence(WriteVarU32(ids[i]))
        BY <2>1, VarIntSequence
  <2>3. QED
        BY <2>1, <2>2
<1>4. PICK pos : /\ pos[0] = 0
                 /\ \A i \in 0..n : pos[i] \in Nat
                 /\ \A i \in 1..n : Within(body, pos[i - 1], pos[i], pieces[i])
                 /\ Long(body, pos[n])
  <2> DEFINE joined == FlattenSeq(pieces)
  <2>1. \E pos : /\ pos[0] = 0
                 /\ \A i \in 0..n : pos[i] \in Nat
                 /\ \A i \in 1..n : Within(joined, pos[i - 1], pos[i], pieces[i])
                 /\ Long(joined, pos[n])
        BY <1>2, <1>3, PiecesWithin
  <2>2. joined = body
        BY <1>1
  <2> HIDE DEF joined
  <2>3. QED
        BY <2>1, <2>2
<1>5. ASSUME NEW i \in 1..n
      PROVE  /\ Within(body, pos[i - 1], pos[i], WriteVarU32(ids[i]))
             /\ pos[i - 1] < pos[i]
  <2>1. Within(body, pos[i - 1], pos[i], WriteVarU32(ids[i]))
        BY <1>2, <1>4
  <2>2. ids[i] \in Nat /\ ids[i] < 2^30
        OBVIOUS
  <2>3. QED
        BY <2>1, <2>2, IdTaken
<1>6. n <= pos[n]
      BY <1>4, <1>5, PiecesCount
<1>7. QED
      BY <1>4, <1>5, <1>6

\* A palette is read as it was written.
LEMMA PaletteRead ==
  ASSUME NEW ids, NEW n \in Nat, n < 2^30, Long(ids, n),
         \A i \in 1..n : ids[i] \in Nat /\ ids[i] < 2^30,
         NEW data, NEW at, NEW from, NEW to, Within(data, at, from, WriteVarU32(n)),
         Within(data, from, to, FlattenSeq([i \in 1..n |-> WriteVarU32(ids[i])]))
  PROVE  ReadPalette(data, at) = [ids |-> ids, at |-> to]
<1> DEFINE body == FlattenSeq([i \in 1..n |-> WriteVarU32(ids[i])])
<1>1. Within(data, from, to, body)
      OBVIOUS
<1>2. PICK pos : /\ pos[0] = 0
                 /\ \A i \in 0..n : pos[i] \in Nat
                 /\ \A i \in 1..n : Within(body, pos[i - 1], pos[i], WriteVarU32(ids[i]))
                 /\ Long(body, pos[n]) /\ n <= pos[n]
      BY PaletteWritten
<1> HIDE DEF body
<1>3. ASSUME NEW i \in 1..n
      PROVE  Within(data, from + pos[i - 1], from + pos[i], WriteVarU32(ids[i]))
      BY <1>1, <1>2, WithinPart
<1> DEFINE end == pos[n]
<1>4. end \in Nat /\ n <= end
  <2>1. n \in 0..n
        OBVIOUS
  <2>2. QED
        BY <1>2, <2>1
<1>5. n <= Len(data) /\ Len(data) \in Nat /\ from \in Nat /\ to = from + end
  <2>1. /\ Sequence(data) /\ from \in Nat /\ to \in Nat /\ to <= Len(data)
        /\ Len(body) = to - from
        BY <1>1 DEF Within
  <2>2. Len(body) = end
        BY <1>2 DEF Long
  <2>3. Len(data) \in Nat
        BY <2>1, Lengths
  <2> HIDE DEF end
  <2>4. QED
        BY <1>4, <2>1, <2>2, <2>3
<1>6. ReadVarU32(data, at) = [value |-> n, at |-> from] /\ ReadVarU32(data, at) # NoVarInt
      BY VarIntRead
<1> DEFINE g == [i \in 0..n |-> [ids |-> First(ids, i), at |-> from + pos[i]]]
<1>7. ASSUME NEW i \in 1..n PROVE g[i] = TakeId(data, g[i - 1])
  <2>1. i - 1 \in 0..n /\ i \in 0..n
        OBVIOUS
  <2>2. ids[i] \in Nat /\ ids[i] < 2^30
        OBVIOUS
  <2>3. TakeId(data, [ids |-> First(ids, i - 1), at |-> from + pos[i - 1]])
          = [ids |-> Append(First(ids, i - 1), ids[i]), at |-> from + pos[i]]
        BY <1>3, <2>2, IdTaken
  <2>4. Append(First(ids, i - 1), ids[i]) = First(ids, i)
        BY FirstThings
  <2>5. QED
        BY <2>1, <2>3, <2>4
<1>8. g[0] = [ids |-> <<>>, at |-> from] /\ g[n] = [ids |-> ids, at |-> to]
  <2>1. First(ids, 0) = <<>> /\ from + pos[0] = from /\ 0 \in 0..n
        BY <1>2, <1>5, FirstThings
  <2>2. First(ids, n) = ids /\ n \in 0..n /\ from + pos[n] = to
        BY <1>5, FirstThings
  <2>3. QED
        BY <2>1, <2>2
<1> HIDE DEF g
<1>9. ReadPalette(data, at) = g[n]
  <2>1. \A i \in 1..n : g[i] = TakeId(data, g[i - 1])
        BY <1>7
  <2>2. Len(data) \in Nat /\ n <= Len(data) /\ g[0] = [ids |-> <<>>, at |-> from]
        BY <1>5, <1>8
  <2>3. ReadVarU32(data, at) = [value |-> n, at |-> from]
        BY <1>6
  <2>4. ReadVarU32(data, at) # NoVarInt
        BY <1>6
  <2>5. QED
        BY ONLY <2>1, <2>2, <2>3, <2>4, PaletteLoop, n \in Nat
<1>10. QED
       BY <1>8, <1>9

\* Where in an encoded subchunk is what.
LEMMA SubWritten ==
  ASSUME NEW s, IsSubChunk(s), NEW b, b = BitsPerBlock(Len(s.palette)),
         NEW n \in Nat, Long(Pack(s.blocks, b), n * WordSize)
  PROVE  LET data  == Encode(s)
             size  == Len(s.palette)
             after == 3 + n * WordSize
         IN  \E from \in Nat :
               /\ Sequence(data) /\ Len(data) \in Nat /\ data[2] = 1 /\ data[3] = b
               /\ Within(data, 3, after, Pack(s.blocks, b))
               /\ Within(data, after, from, WriteVarU32(size))
               /\ Within(data, from, Len(data),
                         FlattenSeq([i \in 1..size |-> WriteVarU32(s.palette[i])]))
               /\ size <= Len(data)
<1> DEFINE size == Len(s.palette)
           ids == [i \in 1..size |-> WriteVarU32(s.palette[i])]
           words == n * WordSize
           after == 3 + words
           A == <<Version, 1>>
           B == WriteVarU32(b)
           C == Pack(s.blocks, b)
           D == WriteVarU32(size)
           E == FlattenSeq(ids)
           data == Encode(s)
<1>1. size \in Nat \ {0} /\ \A i \in 1..size : s.palette[i] \in Nat /\ s.palette[i] < 2^30
      BY LenProperties, EmptySeq, ElementOfSeq DEF IsSubChunk
<1>2. data = A \o B \o C \o D \o E
      BY DEF Encode
<1>3. b \in 1..16
      BY <1>1, BitsEnough
<1>4. Long(A, 2) /\ A[1] = Version /\ A[2] = 1
      BY TwoSequence
<1>5. B = <<b>> /\ Long(B, 1) /\ B[1] = b
  <2>1. b \in 0..127
        BY <1>3
  <2>2. B = <<b>>
        BY <2>1, VarIntOne
  <2>3. Long(<<b>>, 1) /\ <<b>>[1] = b
        BY OneSequence
  <2>4. QED
        BY <2>2, <2>3
<1>6. words \in Nat /\ Long(C, words)
      BY WordBytes
<1>7. Sequence(D) /\ Len(D) \in Nat
  <2>1. size \in Int
        BY <1>1
  <2> HIDE DEF size
  <2>2. QED
        BY <2>1, VarIntSequence
<1>8. PICK pos : Long(E, pos[size]) /\ size <= pos[size] /\ pos[size] \in Nat
  <2>1. PICK pos : /\ \A i \in 0..size : pos[i] \in Nat
                   /\ Long(E, pos[size]) /\ size <= pos[size]
    <3> DEFINE ps == s.palette
    <3>1. \A i \in 1..size : ps[i] \in Nat /\ ps[i] < 2^30
          BY <1>1
    <3>2. E = FlattenSeq([i \in 1..size |-> WriteVarU32(ps[i])])
          OBVIOUS
    <3> HIDE DEF E, size, ps
    <3>3. QED
          BY <1>1, <3>1, <3>2, PaletteWritten
  <2>2. size \in 0..size
        BY <1>1
  <2> HIDE DEF E, size
  <2>3. QED
        BY <2>1, <2>2
<1> DEFINE d == Len(D)
           e == pos[size]
           from == after + d
           end == from + e
<1> HIDE DEF A, B, C, D, E, data, words, e, d
<1>9. words \in Nat /\ after \in Nat /\ d \in Nat /\ from \in Nat /\ e \in Nat /\ end \in Nat
      BY <1>6, <1>7, <1>8 DEF d, e
<1>10. Long(A, 2) /\ Long(B, 1) /\ Long(C, words) /\ Long(D, d) /\ Long(E, e)
       BY <1>4, <1>5, <1>6, <1>7, <1>8 DEF d, e, Long
<1>11. Within(A \o B, 2, 3, B) /\ Long(A \o B, 3)
       BY <1>10, WithinEnd
<1> DEFINE AB == A \o B
<1>12. AB[2] = 1 /\ AB[3] = b /\ Long(AB, 3)
  <2>1. \A i \in 1..1 : AB[2 + i] = B[i]
    <3>1. \A i \in 1..(3 - 2) : B[i] = AB[2 + i]
          BY <1>11 DEF Within
    <3> HIDE DEF AB
    <3>2. QED
          BY <3>1
  <2>2. \A i \in 1..2 : AB[i] = A[i]
    <3>1. Sequence(A) /\ Sequence(B) /\ Len(A) = 2
          BY <1>10 DEF Long
    <3>2. \A i \in 1..Len(A) : AB[i] = A[i]
          BY ONLY <3>1, ConcatSequence DEF AB
    <3>3. QED
          BY <3>1, <3>2
  <2>3. Long(AB, 3)
        BY <1>11
  <2> HIDE DEF AB
  <2>4. AB[2 + 1] = B[1] /\ AB[2] = A[2] /\ 2 + 1 = 3
        BY <2>1, <2>2
  <2>5. QED
        BY <1>4, <1>5, <2>3, <2>4
<1>13. Within(A \o B \o C, 3, after, C) /\ Long(A \o B \o C, after)
       BY <1>9, <1>10, <1>11, WithinEnd
<1>14. Within(A \o B \o C \o D, after, from, D) /\ Long(A \o B \o C \o D, from)
       BY <1>9, <1>10, <1>13, WithinEnd
<1>15. Within(data, from, end, E) /\ Long(data, end)
       BY <1>2, <1>9, <1>10, <1>14, WithinEnd
<1>16. Within(data, after, from, D)
       BY <1>2, <1>10, <1>14, WithinOn DEF Long
<1>17. Within(data, 3, after, C)
  <2>1. Within(A \o B \o C \o D, 3, after, C)
        BY <1>10, <1>13, WithinOn DEF Long
  <2>2. QED
        BY <1>2, <1>10, <2>1, WithinOn DEF Long
<1>18. data[2] = 1 /\ data[3] = b
  <2>1. Within(A \o B, 0, 3, A \o B)
        BY <1>11, WithinAll
  <2>2. Within(A \o B \o C, 0, 3, A \o B)
        BY <1>10, <2>1, WithinOn DEF Long
  <2>3. Within(A \o B \o C \o D, 0, 3, A \o B)
        BY <1>10, <2>2, WithinOn DEF Long
  <2>4. Within(data, 0, 3, A \o B)
        BY <1>2, <1>10, <2>3, WithinOn DEF Long
  <2>5. \A i \in 1..(3 - 0) : AB[i] = data[0 + i]
        BY <2>4 DEF Within
  <2> HIDE DEF AB
  <2>6. \A i \in 1..3 : AB[i] = data[i]
        BY <2>5
  <2>7. QED
        BY <1>12, <2>6
<1>19. Len(data) = end /\ size <= end /\ Sequence(data)
  <2>1. size <= e
        BY <1>8 DEF e
  <2>2. Len(data) = end /\ Sequence(data)
        BY <1>15 DEF Long
  <2>3. size \in Nat
        BY <1>1
  <2> HIDE DEF size
  <2>4. QED
        BY <1>9, <2>1, <2>2, <2>3
<1>20. QED
       BY <1>9, <1>15, <1>16, <1>17, <1>18, <1>19 DEF data, C, D, E, words

\* decode_subchunk reads what encode_subchunk wrote, if the indices fill their words.
LEMMA SubRead ==
  ASSUME NEW s, IsSubChunk(s), Aligned(s), Len(Encode(s)) < MaxLength
  PROVE  Decode(Encode(s)) = [palette |-> s.palette, blocks |-> s.blocks]
<1> DEFINE size == Len(s.palette)
           b == BitsPerBlock(size)
           p == PerWord(b)
           n == WordsNeeded(b)
           C == Pack(s.blocks, b)
           data == Encode(s)
           after == 3 + n * WordSize
<1>1. size \in Nat \ {0} /\ \A i \in 1..size : s.palette[i] \in Nat /\ s.palette[i] < 2^30
      BY LenProperties, EmptySeq, ElementOfSeq DEF IsSubChunk
<1>2. b \in 1..16 /\ WordBits % b = 0
  <2>1. b \in 1..16
        BY <1>1, BitsEnough
  <2>2. WordBits % b = 0
        BY DEF Aligned
  <2>3. QED
        BY <2>1, <2>2
<1>3. p \in Nat \ {0} /\ WordBits = b * p
  <2>1. b \in 1..16
        BY <1>2
  <2>2. WordBits % b = 0
        BY <1>2
  <2> HIDE DEF b
  <2>3. b \in Nat \ {0}
        BY <2>1
  <2>4. QED
        BY <2>2, <2>3, PerWordOf
<1>4. \A c \in 0..(Cells - 1) : s.blocks[c] \in Nat /\ s.blocks[c] < Bit[b]
  <2> SUFFICES ASSUME NEW c \in 0..(Cells - 1) PROVE s.blocks[c] \in Nat /\ s.blocks[c] < Bit[b]
      OBVIOUS
  <2>1. s.blocks[c] \in Nat /\ s.blocks[c] < size /\ s.blocks[c] < 2^16
        BY DEF IsSubChunk
  <2>2. QED
        BY <1>1, <2>1, BitsEnough
<1>5. n = (Cells + p - 1) \div p
  <2>1. WordBits \div b = p
    <3> DEFINE d == b
               y == d * p
    <3>1. d \in Nat \ {0} /\ 0 \in 0..(d - 1) /\ p \in Nat /\ y \in Nat /\ WordBits = y
      <4>1. WordBits = y
            BY <1>3
      <4>2. d \in Nat \ {0} /\ 0 \in 0..(d - 1)
        <5>1. d \in 1..16
              BY <1>2
        <5> HIDE DEF d
        <5>2. QED
              BY <5>1
      <4> HIDE DEF d, y
      <4>3. p \in Nat /\ WordBits \in Nat
            BY <1>3, WordBytes
      <4>4. QED
            BY <4>1, <4>2, <4>3
    <3>2. WordBits = d * p + 0
      <4> HIDE DEF y
      <4>1. WordBits = y + 0
            BY <3>1
      <4>2. QED
            BY <4>1 DEF y
    <3> HIDE DEF d
    <3>3. WordBits \div d = p
          BY <3>1, <3>2, DividedOnce
    <3>4. QED
          BY <3>3 DEF d
  <2>2. QED
        BY <2>1 DEF WordsNeeded
<1> HIDE DEF p, n
<1>6. /\ n \in Nat /\ Long(C, n * WordSize)
      /\ \A c \in 0..(Cells - 1) : HoldsIndex(C, n, c, b, p, s.blocks[c])
  <2> DEFINE blocks == s.blocks
             bits == b
  <2>1. bits \in Nat \ {0} /\ WordBits = bits * p
    <3>1. bits \in 1..16
          BY <1>2
    <3>2. WordBits = bits * p
          BY <1>3
    <3> HIDE DEF bits
    <3>3. bits \in Nat \ {0}
          BY <3>1
    <3>4. QED
          BY ONLY <3>2, <3>3
  <2>2. \A c \in 0..(Cells - 1) : blocks[c] \in Nat /\ blocks[c] < Bit[bits]
        BY <1>4
  <2> HIDE DEF blocks, bits
  <2>3. LET m == (Cells + p - 1) \div p
        IN  /\ m \in Nat /\ Long(Pack(blocks, bits), m * WordSize)
            /\ \A c \in 0..(Cells - 1) : HoldsIndex(Pack(blocks, bits), m, c, bits, p, blocks[c])
        BY <1>3, <2>1, <2>2, PackHolds
  <2>4. QED
        BY <1>5, <2>3 DEF blocks, bits
<1>7. PICK from \in Nat :
        /\ Sequence(data) /\ Len(data) \in Nat /\ data[2] = 1 /\ data[3] = b
        /\ Within(data, 3, after, C)
        /\ Within(data, after, from, WriteVarU32(size))
        /\ Within(data, from, Len(data), FlattenSeq([i \in 1..size |-> WriteVarU32(s.palette[i])]))
        /\ size <= Len(data)
      BY <1>6, SubWritten
<1>8. ReadPalette(data, after) = [ids |-> s.palette, at |-> Len(data)]
  <2> DEFINE ids == s.palette
             m == size
             end == Len(data)
             at == after
  <2>1. m \in Nat /\ m < 2^30 /\ Long(ids, m)
    <3>1. Len(data) < 2^30
          BY DEF MaxLength
    <3>2. m < 2^30
          BY <1>1, <1>7, <3>1
    <3>3. Long(ids, m)
          BY DEF IsSubChunk, Long, Sequence
    <3>4. QED
          BY <1>1, <3>2, <3>3
  <2>2. \A i \in 1..m : ids[i] \in Nat /\ ids[i] < 2^30
        BY <1>1
  <2>3. /\ Within(data, at, from, WriteVarU32(m))
        /\ Within(data, from, end, FlattenSeq([i \in 1..m |-> WriteVarU32(ids[i])]))
        BY <1>7
  <2> HIDE DEF ids, m, end, data, at
  <2>4. ReadPalette(data, at) = [ids |-> ids, at |-> end]
        BY <2>1, <2>2, <2>3, PaletteRead
  <2>5. QED
        BY <2>4 DEF ids, m, end, data, at
<1>9. after <= Len(data)
      BY <1>7 DEF Within
<1> DEFINE Word(k) == FromLE(Slice(data, 3 + k * WordSize, 3 + (k + 1) * WordSize))
           Index(c) == LET k == c \div p
                       IN  IF k < n THEN (Word(k) \div Bit[b * (c % p)]) % Bit[b] ELSE 0
           blocks == [c \in 0..(Cells - 1) |-> Index(c)]
           palette == ReadPalette(data, after)
<1>10. Decode(data) = IF data[2] # 1 \/ after > Len(data) \/ palette = Failed THEN Failed
                      ELSE [palette |-> palette.ids, blocks |-> blocks]
  <2> HIDE DEF data, b
  <2>1. data[3] = b
        BY <1>7
  <2>2. QED
        BY <2>1 DEF Decode, p, n
<1>11. blocks = s.blocks
  <2>1. ASSUME NEW c \in 0..(Cells - 1) PROVE Index(c) = s.blocks[c]
    <3> DEFINE x == s.blocks[c]
               k == c \div p
    <3>1. HoldsIndex(C, n, c, b, p, x) /\ Within(data, 3, after, C)
          BY <1>6, <1>7
    <3> HIDE DEF x, C, data, after, b
    <3>2. p \in Nat \ {0} /\ n \in Nat
          BY <1>3, <1>6
    <3>3. ReadsIndex(data, n, c, b, p, x)
          BY ONLY <3>1, <3>2, IndexRead
    <3>4. k < n /\ (Word(k) \div Bit[b * (c % p)]) % Bit[b] = x
          BY <3>3 DEF ReadsIndex
    <3> HIDE DEF k, Word
    <3>5. (IF k < n THEN (Word(k) \div Bit[b * (c % p)]) % Bit[b] ELSE 0) = x
          BY <3>4
    <3>6. QED
          BY <3>5 DEF k, x
  <2>2. s.blocks = [c \in 0..(Cells - 1) |-> s.blocks[c]]
        BY DEF IsSubChunk
  <2> HIDE DEF Index
  <2>3. QED
        BY <2>1, <2>2
<1> HIDE DEF blocks, palette
<1>12. palette # Failed /\ palette.ids = s.palette
  <2>1. palette = [ids |-> s.palette, at |-> Len(data)]
        BY <1>8 DEF palette
  <2> HIDE DEF data
  <2>2. QED
        BY <2>1, TakenIds
<1>13. ~(after > Len(data)) /\ data[2] = 1
  <2>1. after \in Nat /\ Len(data) \in Nat
        BY <1>7 DEF Within
  <2> HIDE DEF after, data
  <2>2. QED
        BY <1>7, <1>9, <2>1
<1> HIDE DEF data, after
<1>14. Decode(data) = [palette |-> palette.ids, blocks |-> blocks]
       BY <1>10, <1>12, <1>13
<1>15. QED
       BY <1>11, <1>12, <1>14 DEF data

(***************************************************************************)
(* Columns, read                                                           *)
(***************************************************************************)
\* A subchunk that is read as it was written.
ReadsBack(s) == IsSubChunk(s) /\ Aligned(s) /\ Len(Encode(s)) < MaxLength

\* So is an empty one.
LEMMA NewReadsBack == ReadsBack(New)
<1> DEFINE data == Encode(New)
<1>1. IsSubChunk(New) /\ New.palette = <<0>> /\ Len(New.palette) = 1
      BY NewIsSubChunk DEF Air
<1>2. BitsPerBlock(1) = 1
  <2> DEFINE Enough(b) == 1 <= 2^b /\ (b = 1 \/ 1 > 2^(b - 1))
  <2>1. /\ 2^1 = 2 /\ 2^2 = 4 /\ 2^3 = 8 /\ 2^4 = 16 /\ 2^5 = 32 /\ 2^6 = 64 /\ 2^7 = 128
        /\ 2^8 = 256
        OBVIOUS
  <2>2. Enough(1) /\ ~Enough(2) /\ ~Enough(3) /\ ~Enough(4)
        BY <2>1
  <2>3. ~Enough(5) /\ ~Enough(6) /\ ~Enough(7) /\ ~Enough(8)
        BY <2>1
  <2>4. BitsPerBlock(1) = CHOOSE b \in 1..8 : Enough(b)
        BY DEF BitsPerBlock
  <2> HIDE DEF Enough
  <2>5. \A b \in 1..8 : Enough(b) => b = 1
    <3>1. \A b \in 1..8 :
            b = 1 \/ b = 2 \/ b = 3 \/ b = 4 \/ b = 5 \/ b = 6 \/ b = 7 \/ b = 8
          OBVIOUS
    <3>2. QED
          BY <2>2, <2>3, <3>1
  <2>6. QED
        BY <2>2, <2>4, <2>5
<1>3. Aligned(New)
  <2>1. WordBits % 1 = 0
        BY WordBytes
  <2>2. QED
        BY <1>1, <1>2, <2>1 DEF Aligned
<1> DEFINE p == WordBits
           n == (Cells + p - 1) \div p
           C == Pack(New.blocks, 1)
<1>4. p \in Nat \ {0} /\ WordBits = 1 * p /\ Cells \in 1..4096 /\ WordSize <= 4
      BY SizeAssumption, WordBytes
<1>5. n \in Nat /\ Long(C, n * WordSize)
  <2> DEFINE blocks == New.blocks
             b == 1
  <2>1. b \in Nat \ {0} /\ WordBits = b * p /\ p \in Nat \ {0}
        BY <1>4
  <2>2. \A c \in 0..(Cells - 1) : blocks[c] \in Nat /\ blocks[c] < Bit[b]
        BY BitValues DEF New
  <2> HIDE DEF p, blocks, b
  <2>3. LET m == (Cells + p - 1) \div p IN m \in Nat /\ Long(Pack(blocks, b), m * WordSize)
        BY <2>1, <2>2, PackHolds
  <2>4. QED
        BY <2>3 DEF blocks, b
<1>6. n <= 4096
  <2>1. n = (Cells + p - 1) \div p
        OBVIOUS
  <2> HIDE DEF n, p
  <2> DEFINE t == Cells + p - 1
             u == t % p
             y == p * n
             z == (p - 1) * (n - 1)
  <2>2. t = y + u /\ u \in 0..(p - 1)
        BY <1>4, <2>1
  <2>3. n >= 1 => z \in Nat
        BY <1>4, <1>5
  <2>4. y = z + p + n - 1
        BY <1>4, <1>5
  <2> HIDE DEF y, z, u
  <2>5. p \in Nat \ {0} /\ Cells \in 1..4096 /\ n \in Nat
        BY <1>4, <1>5
  <2>6. QED
        BY <2>2, <2>3, <2>4, <2>5
<1> HIDE DEF n, p
<1>7. PICK from \in Nat :
        /\ Len(data) \in Nat
        /\ Within(data, 3 + n * WordSize, from, WriteVarU32(1))
        /\ Within(data, from, Len(data), FlattenSeq([i \in 1..1 |-> WriteVarU32(New.palette[i])]))
  <2> DEFINE s == New
             b == 1
  <2>1. IsSubChunk(s) /\ b = BitsPerBlock(Len(s.palette)) /\ Long(Pack(s.blocks, b), n * WordSize)
        BY <1>1, <1>2, <1>5
  <2>2. Len(s.palette) = 1
        BY <1>1
  <2> HIDE DEF s, b
  <2>3. \E from \in Nat :
          /\ Len(Encode(s)) \in Nat
          /\ Within(Encode(s), 3 + n * WordSize, from, WriteVarU32(1))
          /\ Within(Encode(s), from, Len(Encode(s)),
                    FlattenSeq([i \in 1..1 |-> WriteVarU32(s.palette[i])]))
        BY <1>5, <2>1, <2>2, SubWritten
  <2>4. QED
        BY <2>3 DEF s
<1>8. from = (3 + n * WordSize) + 1 /\ n * WordSize \in Nat
  <2>1. WriteVarU32(1) = <<1>>
        BY VarIntOne
  <2>2. Long(<<1>>, 1)
        BY OneSequence
  <2>3. Len(WriteVarU32(1)) = from - (3 + n * WordSize)
        BY <1>7 DEF Within
  <2>4. n * WordSize \in Nat
        BY <1>5, WordBytes
  <2> DEFINE x == n * WordSize
  <2> HIDE DEF x
  <2>5. Len(WriteVarU32(1)) = from - (3 + x) /\ x \in Nat
        BY <2>3, <2>4 DEF x
  <2> DEFINE long == Len(WriteVarU32(1))
  <2>6. long = 1 /\ long = from - (3 + x) /\ x \in Nat
        BY <2>1, <2>2, <2>5 DEF Long
  <2> HIDE DEF long
  <2>7. from = (3 + x) + 1
        BY <2>6
  <2>8. QED
        BY <2>4, <2>7 DEF x
<1>9. Len(data) = from + 1
  <2> DEFINE ids == [i \in 1..1 |-> WriteVarU32(New.palette[i])]
  <2>1. Len(ids) = 1 /\ ids[1] = WriteVarU32(0)
        BY <1>1
  <2>2. Within(data, from, Len(data), FlattenSeq(ids))
        BY <1>7
  <2> HIDE DEF ids
  <2>3. FlattenSeq(ids) = <<0>>
        BY <2>1, FlattenOne, VarIntOne
  <2>4. Long(<<0>>, 1)
        BY OneSequence
  <2>5. Len(<<0>>) = Len(data) - from
        BY <2>2, <2>3 DEF Within
  <2> DEFINE long == Len(data)
  <2>6. long \in Nat /\ Len(<<0>>) = 1 /\ Len(<<0>>) = long - from
        BY <1>7, <2>4, <2>5 DEF Long
  <2> HIDE DEF long
  <2>7. long = from + 1
        BY <2>6
  <2>8. QED
        BY <2>7 DEF long
<1>10. Len(data) < MaxLength
  <2>1. n * WordSize <= n * 4 /\ n * WordSize \in Nat
    <3>1. n * 4 = n * WordSize + n * (4 - WordSize) /\ 4 - WordSize \in Nat
          BY <1>4, <1>5, WordBytes
    <3>2. n * (4 - WordSize) \in Nat /\ n * WordSize \in Nat
          BY <1>5, <3>1, WordBytes
    <3> DEFINE x == n * WordSize
               y == n * (4 - WordSize)
               z == n * 4
    <3>3. z = x + y /\ x \in Nat /\ y \in Nat
          BY <3>1, <3>2
    <3> HIDE DEF x, y, z
    <3>4. x <= z
          BY <3>3
    <3>5. QED
          BY <3>3, <3>4 DEF x, z
  <2> DEFINE x == n * WordSize
             long == Len(data)
  <2>2. x <= n * 4 /\ x \in Nat /\ long = ((3 + x) + 1) + 1
        BY <1>8, <1>9, <2>1
  <2>3. 2^30 > 20000
        OBVIOUS
  <2> HIDE DEF x, long
  <2>4. long < MaxLength
        BY <1>5, <1>6, <2>2, <2>3 DEF MaxLength
  <2>5. QED
        BY <2>4 DEF long
<1>11. QED
       BY <1>1, <1>3, <1>10 DEF ReadsBack

\* The number that ZigZag makes of v.
ZigZag(v) == IF v >= 0 THEN 2 * v ELSE -2 * v - 1

\* A chunk coordinate is read as it was written.
LEMMA PlaceRead ==
  ASSUME NEW v \in Int, -(2^28) <= v, v <= 2^28, NEW buf, NEW at, NEW to,
         Within(buf, at, to, WriteVarI32(v))
  PROVE  ReadVarI32(buf, at) = [value |-> v, at |-> to]
<1> DEFINE u == ZigZag(v)
           raw == ReadVarU32(buf, at)
<1>1. u \in Nat /\ u < 2^30
  <2>1. 2^28 = 268435456 /\ 2^30 = 1073741824
        OBVIOUS
  <2>2. QED
        BY <2>1 DEF ZigZag
<1>2. v = IF u % 2 = 0 THEN u \div 2 ELSE -((u + 1) \div 2)
  <2>1. CASE v >= 0
    <3>1. u = 2 * v
          BY <2>1 DEF ZigZag
    <3> HIDE DEF u
    <3>2. QED
          BY <2>1, <3>1
  <2>2. CASE ~(v >= 0)
    <3>1. u = -2 * v - 1
          BY <2>2 DEF ZigZag
    <3> HIDE DEF u
    <3>2. QED
          BY <2>2, <3>1
  <2>3. QED
        BY <2>1, <2>2
<1>3. Within(buf, at, to, WriteVarU32(u))
      BY DEF WriteVarI32, ZigZag
<1> HIDE DEF u
<1>4. raw = [value |-> u, at |-> to]
      BY <1>1, <1>3, VarIntRead
<1>5. ReadVarI32(buf, at)
        = [raw EXCEPT !.value = IF @ % 2 = 0 THEN @ \div 2 ELSE -((@ + 1) \div 2)]
      BY DEF ReadVarI32
<1> HIDE DEF raw
<1>6. ReadVarI32(buf, at)
        = [value |-> IF u % 2 = 0 THEN u \div 2 ELSE -((u + 1) \div 2), at |-> to]
      BY <1>4, <1>5
<1>7. QED
      BY <1>2, <1>6

\* A coordinate is some bytes.
LEMMA PlaceSequence ==
  ASSUME NEW v \in Int
  PROVE  Sequence(WriteVarI32(v)) /\ Len(WriteVarI32(v)) \in Nat
<1>1. (IF v >= 0 THEN 2 * v ELSE -2 * v - 1) \in Int
      OBVIOUS
<1>2. QED
      BY <1>1, VarIntSequence DEF WriteVarI32

\* What is read of a subchunk.
Copy(s) == [palette |-> s.palette, blocks |-> s.blocks]

\* A subchunk in a column, after its length.
LEMMA SizedRead ==
  ASSUME NEW s, Sequence(s), Len(s) < 2^32, NEW data, NEW at, NEW to,
         Within(data, at, to, Sized(s))
  PROVE  /\ at + 4 + FromLE(Slice(data, at, at + 4)) = to
         /\ Slice(data, at + 4, to) = s
<1> DEFINE n == Len(s)
           len == LE(4, n)
<1>1. n \in Nat /\ n < 2^32 /\ Long(s, n)
      BY Lengths DEF Long
<1>2. FromLE(len) = n
  <2>1. n \in 0..(2^32 - 1)
        BY <1>1
  <2> HIDE DEF n
  <2>2. QED
        BY <2>1, BytesRead
<1>3. Long(len, 4)
      BY BytesOfNumber
<1>4. Within(data, at, to, len \o s)
      BY DEF Sized
<1> HIDE DEF n, len
<1>5. Within(len \o s, 4, 4 + n, s) /\ Long(len \o s, 4 + n)
      BY <1>1, <1>3, WithinEnd
<1>6. Within(len \o s, 0, 4, len)
  <2>1. Within(len, 0, 4, len)
        BY <1>3, WithinAll
  <2>2. QED
        BY <2>1, WithinOn
<1>7. Within(data, at + 0, at + 4, len) /\ Within(data, at + 4, at + (4 + n), s)
      BY <1>4, <1>5, <1>6, WithinPart
<1>8. at \in Nat /\ to = at + (4 + n)
  <2>1. at \in Nat /\ to \in Nat /\ Len(len \o s) = to - at
        BY <1>4 DEF Within
  <2>2. QED
        BY <1>1, <1>5, <2>1 DEF Long
<1>9. Slice(data, at, at + 4) = len /\ Slice(data, at + 4, to) = s
  <2>1. at + 0 = at
        BY <1>8
  <2>2. QED
        BY <1>7, <1>8, <2>1, WithinSlice
<1>10. at + 4 + FromLE(len) = to
       BY <1>1, <1>2, <1>8
<1>11. QED
       BY <1>9, <1>10

\* A client takes a subchunk where one was written.
LEMMA SubTaken ==
  ASSUME NEW s, ReadsBack(s), NEW data, NEW at, NEW to, Within(data, at, to, Sized(Encode(s))),
         NEW subs
  PROVE  TakeSub(data, [subs |-> subs, at |-> at]) = [subs |-> Append(subs, Copy(s)), at |-> to]
<1> DEFINE e == Encode(s)
           r == [subs |-> subs, at |-> at]
<1>1. Sequence(e)
  <2>1. HasPalette(s)
        BY DEF ReadsBack, IsSubChunk, HasPalette
  <2>2. QED
        BY <2>1, EncodeSequence
<1>2. Len(e) < 2^32
  <2> DEFINE n == Len(e)
  <2>1. n \in Nat /\ n < 2^30
        BY <1>1, Lengths DEF ReadsBack, MaxLength
  <2> HIDE DEF n
  <2>2. n < 2^32
        BY <2>1
  <2>3. QED
        BY <2>2 DEF n
<1>3. Decode(e) = Copy(s)
      BY SubRead DEF ReadsBack, Copy
<1> HIDE DEF e
<1>4. /\ at + 4 + FromLE(Slice(data, at, at + 4)) = to
      /\ Slice(data, at + 4, to) = e
  <2>1. Within(data, at, to, Sized(e))
        BY DEF e
  <2>2. QED
        BY <1>1, <1>2, <2>1, SizedRead
<1>5. r.at = at /\ r.subs = subs
      OBVIOUS
<1> HIDE DEF r
<1>6. TakeSub(data, r) = [subs |-> Append(subs, Decode(e)), at |-> to]
      BY <1>4, <1>5 DEF TakeSub
<1>7. QED
      BY <1>3, <1>6 DEF r

\* What is read of a column before its h subchunks, and g of them.
ReadsColumn(data, x, a, z, b, h, g) ==
  /\ ReadVarI32(data, 1) = [value |-> x, at |-> a]
  /\ ReadVarI32(data, a) = [value |-> z, at |-> b]
  /\ FromLE(Slice(data, b, b + 4)) = h /\ g[0] = [subs |-> <<>>, at |-> b + 5]
  /\ \A i \in 1..h : g[i] = TakeSub(data, g[i - 1])

\* The loop over the subchunks ends where such a loop ends.
LEMMA ColumnLoop ==
  ASSUME NEW data, NEW x, NEW z, NEW a, NEW b, NEW h \in Nat, NEW g,
         ReadsColumn(data, x, a, z, b, h, g)
  PROVE  ReadColumn(data) = [place |-> <<x, z>>, subs |-> g[h].subs]
<1> DEFINE X == ReadVarI32(data, 1)
           Z == ReadVarI32(data, X.at)
           height == FromLE(Slice(data, Z.at, Z.at + 4))
           begin == [subs |-> <<>>, at |-> Z.at + 5]
           F(f) == [i \in 0..height |-> IF i = 0 THEN begin ELSE TakeSub(data, f[i - 1])]
           read == CHOOSE f : f = F(f)
           t == [i \in 0..h |-> g[i]]
<1>1. ReadColumn(data) = [place |-> <<X.value, Z.value>>, subs |-> read[height].subs]
      BY DEF ReadColumn
<1>2. X.value = x /\ X.at = a
      BY DEF ReadsColumn
<1>3. Z.value = z /\ Z.at = b
  <2> HIDE DEF X
  <2>1. QED
        BY <1>2 DEF ReadsColumn
<1>4. height = h /\ begin = g[0]
  <2> HIDE DEF X, Z
  <2>1. QED
        BY <1>3 DEF ReadsColumn
<1> HIDE DEF X, Z, height, begin
<1>5. t = F(t)
  <2>1. ASSUME NEW i \in 0..h
        PROVE  g[i] = IF i = 0 THEN begin ELSE TakeSub(data, t[i - 1])
    <3>1. CASE i = 0
          BY <1>4, <3>1
    <3>2. CASE i # 0
      <4>1. i \in 1..h /\ i - 1 \in 0..h
            BY <3>2
      <4>2. t[i - 1] = g[i - 1] /\ g[i] = TakeSub(data, g[i - 1])
            BY <4>1 DEF ReadsColumn
      <4>3. QED
            BY <3>2, <4>2
    <3>3. QED
          BY <3>1, <3>2
  <2>2. QED
        BY <1>4, <2>1
<1> HIDE DEF t
<1>6. read = F(read)
      BY <1>5
<1> HIDE DEF read
<1>7. \A f : F(f)[0] = begin /\ \A i \in 1..h : F(f)[i] = TakeSub(data, f[i - 1])
      BY <1>4
<1> HIDE DEF F
<1>8. read[0] = begin /\ \A i \in 1..h : read[i] = TakeSub(data, read[i - 1])
      BY <1>6, <1>7
<1>9. read[h] = g[h]
  <2>1. read[0] = g[0]
        BY <1>4, <1>8
  <2>2. \A i \in 1..h : read[i - 1] = g[i - 1] => read[i] = g[i]
        BY <1>8 DEF ReadsColumn
  <2>3. QED
        BY <2>1, <2>2, SameLoop
<1>10. QED
       BY <1>1, <1>2, <1>3, <1>4, <1>9

\* The subchunks of a column, each after its length, from a position on.
SubsWithin(data, at, subs, h) ==
  \E pos : /\ pos[0] = at
           /\ \A i \in 1..h : Within(data, pos[i - 1], pos[i], Sized(Encode(subs[i])))

\* A coordinate that a chunk can have.
IsPlace(v) == v \in Int /\ -(2^28) <= v /\ v <= 2^28

\* Where in an encoded column is what.
LEMMA ColumnWritten ==
  ASSUME NEW x \in Int, NEW z \in Int, NEW subs, NEW h \in Nat \ {0}, h = NeededHeight(subs),
         \A i \in 1..h : ReadsBack(subs[i])
  PROVE  LET data == EncodeColumn(x, z, subs)
         IN  \E a, b \in Nat :
               /\ Within(data, 1, a, WriteVarI32(x)) /\ Within(data, a, b, WriteVarI32(z))
               /\ Within(data, b, b + 4, LE(4, h)) /\ SubsWithin(data, b + 5, subs, h)
<1> DEFINE pieces == [i \in 1..h |-> Sized(Encode(subs[i]))]
           A == <<LevelChunk>>
           B == WriteVarI32(x)
           C == WriteVarI32(z)
           D == LE(4, h)
           E == <<0>>
           F == FlattenSeq(pieces)
           G == Zeros(13)
           data == EncodeColumn(x, z, subs)
<1>1. data = A \o B \o C \o D \o E \o F \o G
      BY DEF EncodeColumn
<1>2. Long(pieces, h) /\ \A i \in 1..h : pieces[i] = Sized(Encode(subs[i]))
  <2>1. pieces = [i \in 1..h |-> pieces[i]]
        OBVIOUS
  <2>2. \A i \in 1..h : pieces[i] = Sized(Encode(subs[i]))
        OBVIOUS
  <2> HIDE DEF pieces
  <2>3. QED
        BY <2>1, <2>2, FunctionIsSequence
<1> HIDE DEF pieces
<1>3. ASSUME NEW i \in 1..h PROVE Sequence(pieces[i])
  <2>1. HasPalette(subs[i])
        BY DEF ReadsBack, IsSubChunk, HasPalette
  <2>2. Sequence(Encode(subs[i]))
        BY <2>1, EncodeSequence
  <2>3. Sequence(LE(4, Len(Encode(subs[i]))))
        BY BytesOfNumber DEF Long
  <2>4. Sequence(LE(4, Len(Encode(subs[i]))) \o Encode(subs[i]))
        BY <2>2, <2>3, ConcatSequence
  <2>5. QED
        BY <1>2, <2>4 DEF Sized
<1>4. PICK pos : /\ pos[0] = 0
                 /\ \A i \in 0..h : pos[i] \in Nat
                 /\ \A i \in 1..h : Within(F, pos[i - 1], pos[i], pieces[i])
                 /\ Long(F, pos[h])
      BY <1>2, <1>3, PiecesWithin
<1> DEFINE m == Len(B)
           n == Len(C)
           f == pos[h]
           a == 1 + m
           b == a + n
           e == b + 4
           c == e + 1
           d == c + f
<1>5. Long(B, m) /\ Long(C, n) /\ m \in Nat /\ n \in Nat
      BY PlaceSequence DEF Long
<1>6. f \in Nat
  <2>1. h \in 0..h
        OBVIOUS
  <2>2. QED
        BY <1>4, <2>1
<1>7. Long(A, 1) /\ Long(D, 4) /\ Long(E, 1) /\ Long(F, f) /\ Long(G, 13)
      BY <1>4, OneSequence, BytesOfNumber, ZerosSequence
<1> HIDE DEF A, B, C, D, E, F, G, data, m, n, f
<1>8. /\ a \in Nat /\ b \in Nat /\ e \in Nat /\ c \in Nat /\ d \in Nat
      /\ a = 1 + m /\ b = a + n /\ e = b + 4 /\ c = e + 1 /\ d = c + f
      BY <1>5, <1>6
<1> HIDE DEF a, b, c, d, e
<1>9. Within(A \o B, 1, a, B) /\ Long(A \o B, a)
      BY <1>5, <1>7, <1>8, WithinEnd
<1>10. Within(A \o B \o C, a, b, C) /\ Long(A \o B \o C, b)
       BY <1>5, <1>8, <1>9, WithinEnd
<1>11. Within(A \o B \o C \o D, b, e, D) /\ Long(A \o B \o C \o D, e)
       BY <1>7, <1>8, <1>10, WithinEnd
<1>12. Long(A \o B \o C \o D \o E, c)
       BY <1>7, <1>8, <1>11, WithinEnd
<1>13. Within(A \o B \o C \o D \o E \o F, c, d, F) /\ Long(A \o B \o C \o D \o E \o F, d)
       BY <1>6, <1>7, <1>8, <1>12, WithinEnd
<1>14. /\ Sequence(C) /\ Sequence(D) /\ Sequence(E) /\ Sequence(F) /\ Sequence(G)
       BY <1>5, <1>7 DEF Long
<1>15. Within(data, 1, a, B)
  <2>1. Within(A \o B \o C, 1, a, B)
        BY <1>9, <1>14, WithinOn
  <2>2. Within(A \o B \o C \o D, 1, a, B)
        BY <1>14, <2>1, WithinOn
  <2>3. Within(A \o B \o C \o D \o E, 1, a, B)
        BY <1>14, <2>2, WithinOn
  <2>4. Within(A \o B \o C \o D \o E \o F, 1, a, B)
        BY <1>14, <2>3, WithinOn
  <2>5. QED
        BY <1>1, <1>14, <2>4, WithinOn
<1>16. Within(data, a, b, C)
  <2>1. Within(A \o B \o C \o D, a, b, C)
        BY <1>10, <1>14, WithinOn
  <2>2. Within(A \o B \o C \o D \o E, a, b, C)
        BY <1>14, <2>1, WithinOn
  <2>3. Within(A \o B \o C \o D \o E \o F, a, b, C)
        BY <1>14, <2>2, WithinOn
  <2>4. QED
        BY <1>1, <1>14, <2>3, WithinOn
<1>17. Within(data, b, e, D)
  <2>1. Within(A \o B \o C \o D \o E, b, e, D)
        BY <1>11, <1>14, WithinOn
  <2>2. Within(A \o B \o C \o D \o E \o F, b, e, D)
        BY <1>14, <2>1, WithinOn
  <2>3. QED
        BY <1>1, <1>14, <2>2, WithinOn
<1>18. Within(data, c, d, F)
       BY <1>1, <1>13, <1>14, WithinOn
<1>19. SubsWithin(data, c, subs, h)
  <2> DEFINE at == [i \in 0..h |-> c + pos[i]]
  <2>1. at[0] = c
        BY <1>4, <1>8
  <2>2. ASSUME NEW i \in 1..h PROVE Within(data, at[i - 1], at[i], Sized(Encode(subs[i])))
    <3>1. i - 1 \in 0..h /\ i \in 0..h
          OBVIOUS
    <3>2. Within(data, c + pos[i - 1], c + pos[i], pieces[i])
      <4>1. Within(F, pos[i - 1], pos[i], pieces[i])
            BY <1>4
      <4>2. QED
            BY <1>18, <4>1, WithinPart
    <3>3. at[i - 1] = c + pos[i - 1] /\ at[i] = c + pos[i]
          BY <3>1
    <3> HIDE DEF at
    <3>4. QED
          BY <1>2, <3>2, <3>3
  <2> HIDE DEF at
  <2>3. QED
        BY <2>1, <2>2 DEF SubsWithin
<1>20. /\ Within(data, 1, a, WriteVarI32(x)) /\ Within(data, a, b, WriteVarI32(z))
       /\ Within(data, b, b + 4, LE(4, h)) /\ SubsWithin(data, b + 5, subs, h)
  <2>1. c = b + 5
        BY <1>8
  <2>2. QED
        BY <1>8, <1>15, <1>16, <1>17, <1>19, <2>1 DEF B, C, D
<1>21. QED
       BY <1>8, <1>20 DEF data

\* A column is read at its place, its subchunks as they were up to its height.
LEMMA ColumnRead ==
  ASSUME NEW x, IsPlace(x), NEW z, IsPlace(z), NEW subs, NEW h \in Nat \ {0}, h < 2^30,
         h = NeededHeight(subs), \A i \in 1..h : ReadsBack(subs[i])
  PROVE  LET read == ReadColumn(EncodeColumn(x, z, subs))
         IN  /\ read.place = <<x, z>> /\ DOMAIN read.subs = 1..h
             /\ \A i \in 1..h : read.subs[i] = Copy(subs[i])
<1> DEFINE data == EncodeColumn(x, z, subs)
           copies == [i \in 1..h |-> Copy(subs[i])]
<1>1. /\ x \in Int /\ -(2^28) <= x /\ x <= 2^28
      /\ z \in Int /\ -(2^28) <= z /\ z <= 2^28
      BY DEF IsPlace
<1>2. PICK a, b \in Nat :
        /\ Within(data, 1, a, WriteVarI32(x)) /\ Within(data, a, b, WriteVarI32(z))
        /\ Within(data, b, b + 4, LE(4, h)) /\ SubsWithin(data, b + 5, subs, h)
      BY <1>1, ColumnWritten
<1> HIDE DEF data
<1>3. PICK pos : /\ pos[0] = b + 5
                 /\ \A i \in 1..h : Within(data, pos[i - 1], pos[i], Sized(Encode(subs[i])))
      BY <1>2 DEF SubsWithin
<1>4. ReadVarI32(data, 1) = [value |-> x, at |-> a]
      BY <1>1, <1>2, PlaceRead
<1>5. ReadVarI32(data, a) = [value |-> z, at |-> b]
      BY <1>1, <1>2, PlaceRead
<1>6. FromLE(Slice(data, b, b + 4)) = h
  <2>1. Slice(data, b, b + 4) = LE(4, h)
        BY <1>2, WithinSlice
  <2>2. h \in 0..(2^32 - 1)
    <3>1. 2^30 < 2^32
          OBVIOUS
    <3>2. QED
          BY <3>1
  <2>3. QED
        BY <2>1, <2>2, BytesRead
<1>7. Long(copies, h) /\ \A i \in 1..h : copies[i] = Copy(subs[i])
  <2>1. copies = [i \in 1..h |-> copies[i]]
        OBVIOUS
  <2>2. \A i \in 1..h : copies[i] = Copy(subs[i])
        OBVIOUS
  <2> HIDE DEF copies
  <2>3. QED
        BY <2>1, <2>2, FunctionIsSequence
<1> HIDE DEF copies
<1> DEFINE g == [i \in 0..h |-> [subs |-> First(copies, i), at |-> pos[i]]]
<1>8. ASSUME NEW i \in 1..h PROVE g[i] = TakeSub(data, g[i - 1])
  <2>1. i - 1 \in 0..h /\ i \in 0..h
        OBVIOUS
  <2>2. Within(data, pos[i - 1], pos[i], Sized(Encode(subs[i]))) /\ ReadsBack(subs[i])
        BY <1>3
  <2>3. TakeSub(data, [subs |-> First(copies, i - 1), at |-> pos[i - 1]])
          = [subs |-> Append(First(copies, i - 1), Copy(subs[i])), at |-> pos[i]]
        BY <2>2, SubTaken
  <2>4. Append(First(copies, i - 1), copies[i]) = First(copies, i) /\ copies[i] = Copy(subs[i])
        BY <1>7, FirstThings
  <2>5. QED
        BY <2>1, <2>3, <2>4
<1>9. g[0] = [subs |-> <<>>, at |-> b + 5] /\ g[h].subs = copies
  <2>1. First(copies, 0) = <<>> /\ First(copies, h) = copies /\ 0 \in 0..h /\ h \in 0..h
        BY <1>7, FirstThings
  <2>2. QED
        BY <1>3, <2>1
<1> HIDE DEF g
<1>10. ReadColumn(data) = [place |-> <<x, z>>, subs |-> g[h].subs]
  <2>1. \A i \in 1..h : g[i] = TakeSub(data, g[i - 1])
        BY <1>8
  <2>2. g[0] = [subs |-> <<>>, at |-> b + 5]
        BY <1>9
  <2>3. ReadsColumn(data, x, a, z, b, h, g)
        BY <1>4, <1>5, <1>6, <2>1, <2>2 DEF ReadsColumn
  <2>4. QED
        BY <2>3, ColumnLoop
<1>11. DOMAIN copies = 1..h
       BY <1>7, Lengths DEF Long
<1> DEFINE read == ReadColumn(data)
<1>12. read.place = <<x, z>> /\ read.subs = copies
       BY <1>9, <1>10
<1> HIDE DEF read
<1>13. /\ read.place = <<x, z>> /\ DOMAIN read.subs = 1..h
       /\ \A i \in 1..h : read.subs[i] = Copy(subs[i])
       BY <1>7, <1>11, <1>12
<1>14. QED
       BY <1>13 DEF read, data

\* The height of a column is that of a subchunk, and those above are empty.
LEMMA HeightNeeded ==
  ASSUME NEW subs, NEW n \in Nat \ {0}, Long(subs, n)
  PROVE  NeededHeight(subs) \in 1..n /\ \A i \in 1..n : i > NeededHeight(subs) => IsEmpty(subs[i])
<1> DEFINE H == {i \in DOMAIN subs : ~IsEmpty(subs[i])} \union {1}
<1>1. DOMAIN subs = 1..n
      BY Lengths DEF Long
<1>2. H \subseteq 1..n /\ H # {} /\ \A i \in 1..n : i \notin H => IsEmpty(subs[i])
      BY <1>1
<1>3. NeededHeight(subs) = Max(H)
      BY DEF NeededHeight
<1> HIDE DEF H
<1> DEFINE h == Max(H)
<1>4. h \in H /\ \A y \in H : h >= y
      BY <1>2, MaxOfSome
<1> HIDE DEF h
<1>5. h \in 1..n
      BY <1>2, <1>4
<1>6. ASSUME NEW i \in 1..n, i > h PROVE IsEmpty(subs[i])
  <2>1. i \notin H
        BY <1>4, <1>5, <1>6
  <2>2. QED
        BY <1>2, <2>1
<1>7. QED
      BY <1>3, <1>5, <1>6 DEF h

\* An empty subchunk is air.
LEMMA EmptyIsAir ==
  ASSUME NEW s, IsSubChunk(s), IsEmpty(s), NEW c \in 0..(Cells - 1)
  PROVE  BlockOf(s, c) = Air
<1>1. s.blocks[c] = 0
  <2>1. DOMAIN s.blocks = 0..(Cells - 1)
        BY DEF IsSubChunk
  <2>2. QED
        BY <2>1 DEF IsEmpty
<1>2. 0 + 1 = 1 /\ s.palette[1] = Air
      BY DEF IsSubChunk
<1>3. QED
      BY <1>1, <1>2 DEF BlockOf

\* A column of readable subchunks is read back, block by block.
LEMMA BlocksRead ==
  ASSUME NEW x, IsPlace(x), NEW z, IsPlace(z), NEW subs, NEW n \in 1..3, Long(subs, n),
         \A i \in 1..n : ReadsBack(subs[i])
  PROVE  LET read == ReadColumn(EncodeColumn(x, z, subs))
         IN  /\ read.place = <<x, z>>
             /\ \A i \in DOMAIN subs, c \in 0..(Cells - 1) :
                  BlockOf(At(read.subs, i), c) = BlockOf(subs[i], c)
<1> DEFINE h == NeededHeight(subs)
           read == ReadColumn(EncodeColumn(x, z, subs))
<1>1. h \in 1..n /\ \A i \in 1..n : i > h => IsEmpty(subs[i])
  <2>1. n \in Nat \ {0}
        OBVIOUS
  <2>2. QED
        BY <2>1, HeightNeeded
<1> HIDE DEF read
<1>2. /\ read.place = <<x, z>> /\ DOMAIN read.subs = 1..h
      /\ \A i \in 1..h : read.subs[i] = Copy(subs[i])
  <2> DEFINE m == h
  <2>1. m = NeededHeight(subs) /\ m \in 1..n
        BY <1>1
  <2> HIDE DEF m
  <2>2. m \in Nat \ {0} /\ m < 2^30 /\ \A i \in 1..m : ReadsBack(subs[i])
        BY <2>1
  <2>3. LET r == ReadColumn(EncodeColumn(x, z, subs))
        IN  /\ r.place = <<x, z>> /\ DOMAIN r.subs = 1..m
            /\ \A i \in 1..m : r.subs[i] = Copy(subs[i])
        BY <2>1, <2>2, ColumnRead
  <2>4. QED
        BY <2>3 DEF m, read
<1> HIDE DEF h
<1>3. ASSUME NEW i \in 1..n, NEW c \in 0..(Cells - 1)
      PROVE  BlockOf(At(read.subs, i), c) = BlockOf(subs[i], c)
  <2>1. CASE i <= h
    <3>1. i \in 1..h
          BY <1>1, <2>1
    <3>2. At(read.subs, i) = Copy(subs[i])
          BY <1>2, <3>1 DEF At
    <3>3. BlockOf(Copy(subs[i]), c) = BlockOf(subs[i], c)
          BY DEF BlockOf, Copy
    <3>4. QED
          BY <3>2, <3>3
  <2>2. CASE ~(i <= h)
    <3>1. i \notin 1..h /\ i > h
          BY <1>1, <2>2
    <3>2. At(read.subs, i) = New
          BY <1>2, <3>1 DEF At
    <3>3. IsEmpty(subs[i]) /\ IsSubChunk(subs[i])
          BY <1>1, <3>1 DEF ReadsBack
    <3>4. BlockOf(subs[i], c) = Air
          BY <3>3, EmptyIsAir
    <3>5. BlockOf(New, c) = Air
      <4>1. IsEmpty(New)
            BY DEF IsEmpty, New
      <4>2. QED
            BY <4>1, NewIsSubChunk, EmptyIsAir
    <3>6. QED
          BY <3>2, <3>4, <3>5
  <2>3. QED
        BY <2>1, <2>2
<1>4. DOMAIN subs = 1..n
      BY Lengths DEF Long
<1>5. QED
      BY <1>2, <1>3, <1>4 DEF read

\* The columns that are sent are of one to three subchunks, each sub or an empty one.
LEMMA ColumnsAre ==
  ASSUME NEW column \in Columns
  PROVE  \E n \in 1..3 : Long(column, n) /\ \A i \in 1..n : column[i] \in {sub, New}
<1>1. CASE column = <<sub>>
  <2>1. Long(<<sub>>, 1) /\ <<sub>>[1] = sub
        BY OneSequence
  <2> DEFINE c == <<sub>>
  <2>2. Long(c, 1) /\ c[1] = sub /\ column = c
        BY <1>1, <2>1
  <2> HIDE DEF c
  <2>3. 1 \in 1..3 /\ \A i \in 1..1 : i = 1
        OBVIOUS
  <2>4. \A i \in 1..1 : c[i] \in {sub, New}
        BY <2>2, <2>3
  <2>5. QED
        BY <2>2, <2>3, <2>4
<1>2. ASSUME NEW u \in {sub, New}, NEW v \in {sub, New}, column = <<u, v>>
      PROVE  \E n \in 1..3 : Long(column, n) /\ \A i \in 1..n : column[i] \in {sub, New}
  <2> DEFINE c == <<u, v>>
  <2>1. Long(c, 2) /\ c[1] = u /\ c[2] = v /\ column = c
        BY <1>2, TwoSequence
  <2> HIDE DEF c
  <2>2. 2 \in 1..3 /\ \A i \in 1..2 : i = 1 \/ i = 2
        OBVIOUS
  <2>3. \A i \in 1..2 : c[i] \in {sub, New}
        BY <2>1, <2>2
  <2>4. QED
        BY <2>1, <2>2, <2>3
<1>3. CASE column = <<New, sub, New>>
  <2> DEFINE c == <<New, sub, New>>
  <2>1. Long(c, 3) /\ c[1] = New /\ c[2] = sub /\ c[3] = New /\ column = c
        BY <1>3, ThreeSequence
  <2> HIDE DEF c
  <2>2. 3 \in 1..3 /\ \A i \in 1..3 : i = 1 \/ i = 2 \/ i = 3
        OBVIOUS
  <2>3. \A i \in 1..3 : c[i] \in {sub, New}
        BY <2>1, <2>2
  <2>4. QED
        BY <2>1, <2>2, <2>3
<1>4. QED
      BY <1>1, <1>2, <1>3 DEF Columns

\* A column is read back at its place, every block of every subchunk as it was, if the
\* indices of its palette fill their words.
THEOREM ColumnsReadBack == Spec => []ColumnReadBack
<1>1. ASSUME IsSubChunk(sub) PROVE ColumnReadBack
  <2> SUFFICES ASSUME Aligned(sub), Len(Encode(sub)) < MaxLength,
                      NEW column \in Columns, NEW x \in Places, NEW z \in Places
               PROVE  LET read == ReadColumn(EncodeColumn(x, z, column))
                      IN  /\ read.place = <<x, z>>
                          /\ \A i \in DOMAIN column, c \in 0..(Cells - 1) :
                               BlockOf(At(read.subs, i), c) = BlockOf(column[i], c)
      BY DEF ColumnReadBack
  <2>1. ReadsBack(sub) /\ ReadsBack(New)
        BY <1>1, NewReadsBack DEF ReadsBack
  <2>2. PICK n \in 1..3 : Long(column, n) /\ \A i \in 1..n : column[i] \in {sub, New}
        BY ColumnsAre
  <2>3. \A i \in 1..n : ReadsBack(column[i])
        BY <2>1, <2>2
  <2>4. IsPlace(x) /\ IsPlace(z)
    <3>1. Places \subseteq Int /\ \A place \in Places : -(2^28) <= place /\ place <= 2^28
          BY PathAssumption
    <3>2. QED
          BY <3>1 DEF IsPlace
  <2>5. QED
        BY <2>2, <2>3, <2>4, BlocksRead
<1>2. QED
      BY <1>1, SubChunksStay, PTL
===============================================================================
