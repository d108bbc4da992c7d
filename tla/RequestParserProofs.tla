------------------------- MODULE RequestParserProofs -------------------------
(***************************************************************************)
(* Proofs about RequestParser and its clients, for every set of requests,  *)
(* message, buffer size and word size: the type invariant of the parser,   *)
(* that only the length of a body makes it refuse a message, and what its  *)
(* clients are promised. The last rests on the invariant OnTrack: what the *)
(* parser has yet to consume is the rest of the encoding of the request,   *)
(* and what it holds is what that much of the request means.               *)
(***************************************************************************)
EXTENDS RequestClient, FiniteSetTheorems, SequenceTheorems, TLAPS

\* Induction, for a set of numbers instead of a predicate.
LEMMA SetInduction ==
  ASSUME NEW S, 0 \in S, \A n \in Nat \ {0} : n - 1 \in S => n \in S
  PROVE  \A n \in Nat : n \in S
<1> SUFFICES ASSUME NEW m \in Nat, m \notin S PROVE FALSE
  OBVIOUS
<1> DEFINE T == {n \in 0 .. m : n \in S}
           up == [n \in T |-> n + 1]
<1>1. IsFiniteSet(T) /\ Cardinality(T) \in Nat
  <2>1. IsFiniteSet(0 .. m)
    BY FS_Interval
  <2> QED
    BY <2>1, FS_Subset, FS_CardinalityType
<1>2. IsFiniteSet(T \ {0}) /\ Cardinality(T \ {0}) = Cardinality(T) - 1
  <2>1. 0 \in T
    OBVIOUS
  <2> QED
    BY <2>1, <1>1, FS_RemoveElement
<1>3. up \in Injection(T, T \ {0})
  <2>1. \A n \in T : n + 1 \in T \ {0}
    OBVIOUS
  <2> QED
    BY <2>1 DEF Injection, IsInjective
<1>4. Cardinality(T) <= Cardinality(T \ {0})
  BY <1>2, <1>3, FS_Injection
<1> QED
  BY <1>1, <1>2, <1>4

\* What a function is that is defined from its value at 0 upwards.
Chain(f, N, start, next) ==
  f[0] = start /\ \A n \in 1 .. N : f[n] = next[n][f[n - 1]]

\* There is such a function.
LEMMA Recursion ==
  ASSUME NEW N \in Nat, NEW start, NEW V, start \in V, NEW next \in [1 .. N -> [V -> V]]
  PROVE  \E f \in [0 .. N -> V] : Chain(f, N, start, next)
<1> DEFINE S == {n \in Nat : n <= N => \E f \in [0 .. n -> V] : Chain(f, n, start, next)}
<1>1. 0 \in S
  <2> DEFINE f == [i \in 0 .. 0 |-> start]
  <2>1. f \in [0 .. 0 -> V] /\ Chain(f, 0, start, next)
    BY DEF Chain
  <2> QED BY <2>1
<1>2. ASSUME NEW n \in Nat \ {0}, n - 1 \in S PROVE n \in S
  <2> SUFFICES ASSUME n <= N PROVE \E f \in [0 .. n -> V] : Chain(f, n, start, next)
    OBVIOUS
  <2>1. PICK f \in [0 .. n - 1 -> V] : Chain(f, n - 1, start, next)
    BY <1>2
  <2> DEFINE g == [i \in 0 .. n |-> IF i < n THEN f[i] ELSE next[n][f[n - 1]]]
  <2>2. next[n][f[n - 1]] \in V
    OBVIOUS
  <2>3. g \in [0 .. n -> V]
    BY <2>2
  <2>4. ASSUME NEW i \in 1 .. n PROVE g[i] = next[i][g[i - 1]]
    <3>1. CASE i < n
      <4>1. f[i] = next[i][f[i - 1]]
        BY <3>1, <2>1 DEF Chain
      <4> QED BY <3>1, <4>1
    <3>2. CASE i = n
      BY <3>2
    <3> QED BY <3>1, <3>2
  <2>5. g[0] = start
    BY <2>1 DEF Chain
  <2>6. Chain(g, n, start, next)
    BY <2>4, <2>5 DEF Chain
  <2> QED BY <2>3, <2>6
<1>3. N \in S
  <2> HIDE DEF S
  <2> QED BY <1>1, <1>2, SetInduction
<1> QED
  BY <1>3

\* A set of numbers has a least one, and a greatest one if it is bounded.
\* A set of numbers has a least one, and a greatest one if it is bounded.
LEMMA Least ==
  ASSUME NEW S, S \subseteq Nat, S # {}
  PROVE  \E m \in S : \A n \in S : m <= n
<1> SUFFICES ASSUME \A m \in S : \E n \in S : n < m PROVE FALSE
  OBVIOUS
<1> DEFINE T == {m \in Nat : \A n \in S : m <= n}
<1>1. 0 \in T
  OBVIOUS
<1>2. ASSUME NEW m \in Nat \ {0}, m - 1 \in T PROVE m \in T
  <2>1. m - 1 \notin S
    BY <1>2
  <2> QED
    BY <1>2, <2>1
<1>3. \A m \in Nat : m \in T
  <2> HIDE DEF T
  <2> QED BY <1>1, <1>2, SetInduction
<1>4. PICK n : n \in S
  OBVIOUS
<1>5. n + 1 \in T
  BY <1>3, <1>4
<1> QED
  BY <1>4, <1>5

\* FlattenSeq adds up its sequences one after the other.
LEMMA Flattened ==
  ASSUME NEW S, NEW seqs \in Seq(Seq(S))
  PROVE  \E f \in [0 .. Len(seqs) -> Seq(S)] :
           /\ f[0] = <<>>
           /\ \A n \in 1 .. Len(seqs) : f[n] = f[n - 1] \o seqs[n]
           /\ FlattenSeq(seqs) = f[Len(seqs)]
<1> DEFINE N == Len(seqs)
           next == [i \in 1 .. N |-> [v \in Seq(S) |-> v \o seqs[i]]]
<1>1. next \in [1 .. N -> [Seq(S) -> Seq(S)]]
  <2>1. \A i \in 1 .. N, v \in Seq(S) : v \o seqs[i] \in Seq(S)
    BY ConcatProperties
  <2> QED BY <2>1
<1>2. N \in Nat /\ <<>> \in Seq(S)
  OBVIOUS
<1>3. PICK f \in [0 .. N -> Seq(S)] : f[0] = <<>> /\ \A n \in 1 .. N : f[n] = next[n][f[n - 1]]
  <2> HIDE DEF N, next
  <2>1. \E f \in [0 .. N -> Seq(S)] : Chain(f, N, <<>>, next)
    BY <1>1, <1>2, Recursion
  <2> QED BY <2>1 DEF Chain
<1>4. \A n \in 1 .. N : f[n] = f[n - 1] \o seqs[n]
  <2> SUFFICES ASSUME NEW n \in 1 .. N PROVE next[n][f[n - 1]] = f[n - 1] \o seqs[n]
    BY <1>3
  <2>1. n - 1 \in 0 .. N
    BY <1>2
  <2> QED BY <2>1
<1> HIDE DEF next
<1>5. CASE N = 0
  BY <1>3, <1>4, <1>5, EmptySeq DEF FlattenSeq
<1>6. CASE N # 0
  <2> DEFINE Adds(g) == g = [i \in 1 .. N |-> IF i = 1 THEN seqs[i] ELSE g[i - 1] \o seqs[i]]
             h == [i \in 1 .. N |-> f[i]]
             c == CHOOSE g : Adds(g)
  <2>1. FlattenSeq(seqs) = c[N]
    BY <1>6 DEF FlattenSeq
  <2>2. \A i \in 1 .. N : seqs[i] \in Seq(S)
    OBVIOUS
  <2> HIDE DEF N
  <2>3. \A i \in 1 .. N : f[i] = IF i = 1 THEN seqs[i] ELSE f[i - 1] \o seqs[i]
    <3> SUFFICES ASSUME NEW i \in 1 .. N, i = 1 PROVE f[i] = seqs[i]
      BY <1>4
    <3>1. f[i] = <<>> \o seqs[i]
      <4>1. i - 1 = 0
        OBVIOUS
      <4>2. f[i] = f[i - 1] \o seqs[i]
        BY <1>4
      <4> QED BY <4>1, <4>2, <1>3
    <3> QED BY <3>1, <2>2, ConcatEmptySeq
  <2>4. Adds(h)
    <3>1. ASSUME NEW i \in 1 .. N
          PROVE h[i] = IF i = 1 THEN seqs[i] ELSE h[i - 1] \o seqs[i]
      <4>1. h[i] = f[i] /\ (i # 1 => h[i - 1] = f[i - 1])
        BY <1>2
      <4> QED BY <4>1, <2>3
    <3> QED BY <3>1
  <2>5. Adds(c)
    <3> HIDE DEF Adds
    <3> QED BY <2>4
  <2> HIDE DEF c
  <2>6. \A i \in 1 .. N : c[i] = IF i = 1 THEN seqs[i] ELSE c[i - 1] \o seqs[i]
    BY <2>5
  <2> DEFINE T == {n \in Nat : n \in 1 .. N => c[n] = f[n]}
  <2>7. 0 \in T
    OBVIOUS
  <2>8. ASSUME NEW n \in Nat \ {0}, n - 1 \in T PROVE n \in T
    BY <2>8, <1>2, <2>3, <2>6
  <2>9. N \in T
    <3> HIDE DEF T
    <3> QED BY <2>7, <2>8, <1>2, SetInduction
  <2>10. c[N] = f[N]
    BY <2>9, <1>2, <1>6
  <2> QED BY <2>1, <2>10, <1>3, <1>4 DEF N
<1> QED
  BY <1>5, <1>6

\* The last of several sequences comes last.
LEMMA FlattenAppend ==
  ASSUME NEW S, NEW seqs \in Seq(Seq(S)), NEW x \in Seq(S)
  PROVE  /\ FlattenSeq(seqs) \in Seq(S)
         /\ FlattenSeq(Append(seqs, x)) = FlattenSeq(seqs) \o x
<1> DEFINE N == Len(seqs)
           more == Append(seqs, x)
<1>1. PICK f \in [0 .. N -> Seq(S)] :
        /\ f[0] = <<>>
        /\ \A n \in 1 .. N : f[n] = f[n - 1] \o seqs[n]
        /\ FlattenSeq(seqs) = f[N]
  BY Flattened
<1>2. more \in Seq(Seq(S)) /\ Len(more) = N + 1 /\ N \in Nat
      /\ more[N + 1] = x /\ \A n \in 1 .. N : more[n] = seqs[n]
  BY AppendProperties
<1> HIDE DEF more
<1>3. PICK g \in [0 .. Len(more) -> Seq(S)] :
        /\ g[0] = <<>>
        /\ \A n \in 1 .. Len(more) : g[n] = g[n - 1] \o more[n]
        /\ FlattenSeq(more) = g[Len(more)]
  BY <1>2, Flattened
<1> DEFINE T == {n \in Nat : n <= N => g[n] = f[n]}
<1>4. \A n \in Nat : n \in T
  <2>1. 0 \in T
    BY <1>1, <1>3
  <2>2. ASSUME NEW n \in Nat \ {0}, n - 1 \in T PROVE n \in T
    <3> SUFFICES ASSUME n <= N PROVE g[n] = f[n]
      OBVIOUS
    <3>1. g[n - 1] = f[n - 1] /\ n \in 1 .. N /\ n \in 1 .. Len(more)
      BY <2>2, <1>2
    <3>2. g[n] = g[n - 1] \o more[n] /\ f[n] = f[n - 1] \o seqs[n] /\ more[n] = seqs[n]
      BY <3>1, <1>1, <1>2, <1>3
    <3> QED BY <3>1, <3>2
  <2> HIDE DEF T
  <2> QED BY <2>1, <2>2, SetInduction
<1>5. g[N] = f[N]
  <2>1. N \in T
    <3> HIDE DEF T
    <3> QED BY <1>4, <1>2
  <2> QED BY <2>1
<1>6. g[N + 1] = g[N] \o x
  <2> DEFINE n == N + 1
  <2>1. n \in 1 .. Len(more) /\ n - 1 = N /\ more[n] = x
    BY <1>2
  <2>2. g[n] = g[n - 1] \o more[n]
    <3> HIDE DEF n
    <3> QED BY <2>1, <1>3
  <2> QED BY <2>1, <2>2
<1> QED
  BY <1>1, <1>2, <1>3, <1>5, <1>6 DEF more

\* No sequences add up to none.
LEMMA FlattenEmpty == FlattenSeq(<<>>) = <<>>
  BY DEF FlattenSeq

\* The first of several sequences comes first.
LEMMA FlattenFirst ==
  ASSUME NEW S, NEW seqs \in Seq(Seq(S)), NEW x \in Seq(S)
  PROVE  FlattenSeq(<<x>> \o seqs) = x \o FlattenSeq(seqs)
<1> DEFINE N == Len(seqs)
           more == <<x>> \o seqs
<1>0. \A u, w \in Seq(S) : (x \o u) \o w = x \o (u \o w)
  BY SMTT(30), ConcatAssociative
<1>1. PICK f \in [0 .. N -> Seq(S)] :
        /\ f[0] = <<>>
        /\ \A n \in 1 .. N : f[n] = f[n - 1] \o seqs[n]
        /\ FlattenSeq(seqs) = f[N]
  BY Flattened
<1>2. more \in Seq(Seq(S)) /\ Len(more) = N + 1 /\ N \in Nat
      /\ more[1] = x /\ \A n \in 1 .. N : more[n + 1] = seqs[n]
  <2>1. <<x>> \in Seq(Seq(S)) /\ Len(<<x>>) = 1 /\ <<x>>[1] = x
    OBVIOUS
  <2>2. N \in Nat
    OBVIOUS
  <2> DEFINE y == <<x>>
  <2>3. /\ y \o seqs \in Seq(Seq(S))
        /\ Len(y \o seqs) = Len(y) + Len(seqs)
        /\ \A i \in 1 .. Len(y) + Len(seqs) :
             (y \o seqs)[i] = IF i <= Len(y) THEN y[i] ELSE seqs[i - Len(y)]
    <3> HIDE DEF y
    <3> QED BY <2>1, ConcatProperties DEF y
  <2> QED BY <2>1, <2>2, <2>3
<1> HIDE DEF more
<1>3. PICK g \in [0 .. Len(more) -> Seq(S)] :
        /\ g[0] = <<>>
        /\ \A n \in 1 .. Len(more) : g[n] = g[n - 1] \o more[n]
        /\ FlattenSeq(more) = g[Len(more)]
  BY <1>2, Flattened
<1> DEFINE T == {n \in Nat : n <= N => g[n + 1] = x \o f[n]}
<1>4. 0 \in T
  <2>1. 1 \in 1 .. Len(more) /\ 1 - 1 = 0
    BY <1>2
  <2>2. g[1] = <<>> \o x
    BY <1>2, <1>3, <2>1
  <2>3. <<>> \o x = x /\ x \o <<>> = x
    BY ConcatEmptySeq
  <2> QED BY <1>1, <2>2, <2>3
<1>5. ASSUME NEW n \in Nat \ {0}, n - 1 \in T PROVE n \in T
  <2> SUFFICES ASSUME n <= N PROVE g[n + 1] = x \o f[n]
    OBVIOUS
  <2> DEFINE k == n + 1
  <2>1. n \in 1 .. N /\ k \in 1 .. Len(more) /\ k - 1 = n /\ n - 1 \in 0 .. N
    BY <1>2
  <2>2. g[n] = x \o f[n - 1]
    BY <1>5, <2>1
  <2> HIDE DEF k
  <2>3. g[k] = g[n] \o more[k] /\ f[n] = f[n - 1] \o seqs[n]
    BY <1>1, <1>3, <2>1
  <2>4. more[k] = seqs[n]
    BY <1>2, <2>1 DEF k
  <2>5. f[n - 1] \in Seq(S) /\ seqs[n] \in Seq(S)
    <3>1. n - 1 \in 0 .. N /\ n \in 1 .. N
      BY <2>1
    <3>2. \A i \in 1 .. N : seqs[i] \in Seq(S)
      OBVIOUS
    <3> HIDE DEF N
    <3> QED BY <3>1, <3>2
  <2>6. (x \o f[n - 1]) \o seqs[n] = x \o (f[n - 1] \o seqs[n])
    BY Zenon, <2>5, <1>0
  <2>7. g[k] = x \o f[n]
    BY <2>2, <2>3, <2>4, <2>6
  <2> QED BY <2>7 DEF k
<1>6. g[N + 1] = x \o f[N]
  <2>1. N \in T
    <3> HIDE DEF T
    <3> QED BY <1>2, <1>4, <1>5, SetInduction
  <2> QED BY <2>1, <1>2
<1> QED BY <1>1, <1>2, <1>3, <1>6 DEF more

\* What sequences come to after the first n of them.
After(s, n) == FlattenSeq(SubSeq(s, n + 1, Len(s)))

\* What comes after the first n of them begins with the next.
LEMMA AfterNext ==
  ASSUME NEW S, NEW s \in Seq(Seq(S)), NEW n \in 0 .. Len(s) - 1
  PROVE  After(s, n) = s[n + 1] \o After(s, n + 1)
<1> DEFINE k == n + 1
<1>1. k \in 1 .. Len(s) /\ Len(s) \in k .. Len(s) /\ Len(s) \in Nat /\ k \in Int /\ k + 1 \in Int
  OBVIOUS
<1>2. After(s, n) = FlattenSeq(SubSeq(s, k, Len(s)))
  BY DEF After
<1>3. After(s, n + 1) = FlattenSeq(SubSeq(s, k + 1, Len(s)))
  BY DEF After
<1> HIDE DEF k
<1>4. SubSeq(s, k, Len(s)) = <<s[k]>> \o SubSeq(s, k + 1, Len(s))
  BY <1>1, SubSeqRecursiveFirst
<1>5. SubSeq(s, k + 1, Len(s)) \in Seq(Seq(S))
  <2>1. \A i \in k + 1 .. Len(s) : s[i] \in Seq(S)
    BY <1>1
  <2> QED BY <1>1, <2>1, SubSeqProperties
<1>6. s[k] \in Seq(S)
  BY <1>1
<1>7. FlattenSeq(<<s[k]>> \o SubSeq(s, k + 1, Len(s))) = s[k] \o FlattenSeq(SubSeq(s, k + 1, Len(s)))
  BY <1>5, <1>6, FlattenFirst
<1> QED BY <1>2, <1>3, <1>4, <1>7 DEF k

\* After none of them all are to come, after all of them nothing.
LEMMA AfterIs ==
  ASSUME NEW S, NEW s \in Seq(Seq(S))
  PROVE  /\ \A n \in 0 .. Len(s) : After(s, n) \in Seq(S)
         /\ After(s, 0) = FlattenSeq(s)
         /\ After(s, Len(s)) = <<>>
<1>1. Len(s) \in Nat
  OBVIOUS
<1>2. ASSUME NEW n \in 0 .. Len(s) PROVE After(s, n) \in Seq(S)
  <2>1. SubSeq(s, n + 1, Len(s)) \in Seq(Seq(S))
    <3>1. \A i \in n + 1 .. Len(s) : s[i] \in Seq(S)
      BY <1>1
    <3> QED BY <1>1, <3>1, SubSeqProperties
  <2> QED BY <2>1, FlattenAppend, EmptySeq DEF After
<1>3. SubSeq(s, 0 + 1, Len(s)) = s
  BY SubSeqFull
<1>4. SubSeq(s, Len(s) + 1, Len(s)) = <<>>
  BY <1>1, SubSeqEmpty
<1> QED BY <1>2, <1>3, <1>4, FlattenEmpty DEF After
-----------------------------------------------------------------------------
\* Span counts the first symbols, as far as they are in a set.
LEMMA SpanIs ==
  ASSUME NEW s \in Seq(Sym), NEW S, NEW k \in 0 .. Len(s),
         \A i \in 1 .. k : s[i] \in S, k < Len(s) => s[k + 1] \notin S
  PROVE  Span(s, S) = k
<1> DEFINE T == {n \in 1 .. Len(s) : \A i \in 1 .. n : s[i] \in S}
<1>1. Len(s) \in Nat
  OBVIOUS
<1>2. ASSUME NEW n \in T PROVE n \in 1 .. k
  <2>1. n \in 1 .. Len(s) /\ \A i \in 1 .. n : s[i] \in S
    OBVIOUS
  <2>2. CASE n > k
    <3>1. k + 1 \in 1 .. n /\ k < Len(s)
      BY <1>1, <2>1, <2>2
    <3> QED BY <2>1, <3>1
  <2> QED BY <1>1, <2>1, <2>2
<1>3. T = 1 .. k
  BY <1>1, <1>2
<1>4. Cardinality(1 .. k) = k
  BY <1>1, FS_Interval
<1> QED BY <1>3, <1>4 DEF Span

\* What Span counts is in the set, and what follows is not.
LEMMA Spanned ==
  ASSUME NEW s \in Seq(Sym), NEW S
  PROVE  /\ Span(s, S) \in 0 .. Len(s)
         /\ \A i \in 1 .. Span(s, S) : s[i] \in S
         /\ Span(s, S) < Len(s) => s[Span(s, S) + 1] \notin S
<1> DEFINE E == {n \in 0 .. Len(s) : n < Len(s) => s[n + 1] \notin S}
<1>1. Len(s) \in Nat
  OBVIOUS
<1>2. Len(s) \in E /\ E \subseteq Nat
  BY <1>1
<1>3. PICK k \in E : \A n \in E : k <= n
  <2> HIDE DEF E
  <2> QED BY <1>2, Least
<1>4. ASSUME NEW i \in 1 .. k PROVE s[i] \in S
  <2>1. i - 1 \notin E
    <3> HIDE DEF E
    <3> QED BY <1>2, <1>3
  <2> QED BY <1>1, <1>3, <2>1
<1>5. Span(s, S) = k
  BY <1>3, <1>4, SpanIs
<1> QED BY <1>3, <1>4, <1>5

\* A value without its leading spaces is one still.
LEMMA UnspacedType ==
  ASSUME NEW v \in Seq(Sym)
  PROVE  Unspaced(v) \in Seq(Sym)
<1> DEFINE n == Span(v, {Space}) + 1
<1>1. n \in Int /\ n >= 1 /\ Len(v) \in Nat
  BY Spanned
<1>2. \A i \in n .. Len(v) : v[i] \in Sym
  BY <1>1
<1> HIDE DEF n
<1>3. SubSeq(v, n, Len(v)) \in Seq(Sym)
  BY <1>1, <1>2, SubSeqProperties
<1> QED BY <1>3 DEF Unspaced, n

\* The digits that std::stoi reads of a value are digits.
LEMMA DigitsType ==
  ASSUME NEW v \in Seq(Sym)
  PROVE  Digits(v) \in Seq(Digit)
<1> DEFINE u == IF Signed(v) THEN Tail(Unspaced(v)) ELSE Unspaced(v)
           n == Span(u, Digit)
<1>1. u \in Seq(Sym)
  <2>1. Signed(v) => Unspaced(v) # <<>>
    BY DEF Signed
  <2> QED BY <2>1, UnspacedType, HeadTailProperties
<1> HIDE DEF u
<1>2. n \in 0 .. Len(u) /\ \A i \in 1 .. n : u[i] \in Digit
  BY <1>1, Spanned
<1>3. n \in Int /\ 1 \in Int
  BY <1>1, <1>2
<1> HIDE DEF n
<1>4. SubSeq(u, 1, n) \in Seq(Digit)
  BY <1>2, <1>3, SubSeqProperties
<1> QED BY <1>4 DEF Digits, u, n

\* What they are the decimal of is an integer.
LEMMA NumberType ==
  ASSUME NEW v \in Seq(Sym)
  PROVE  Number(v) \in Int
<1> DEFINE d == Digits(v)
           N == Len(d)
           val == [x \in Digit |-> CASE x = "0" -> 0 [] x = "1" -> 1 [] x = "2" -> 2]
           IsUpTo(g) == g = [i \in 0 .. N |-> IF i = 0 THEN 0 ELSE 10 * g[i - 1] + val[d[i]]]
           upTo == CHOOSE g : IsUpTo(g)
           next == [i \in 1 .. N |-> [x \in Nat |-> 10 * x + val[d[i]]]]
<1>1. Number(v) = IF Negative(v) THEN -upTo[N] ELSE upTo[N]
  BY DEF Number
<1>2. d \in Seq(Digit) /\ N \in Nat
  BY DigitsType
<1>3. val \in [Digit -> Nat]
  BY DEF Digit
<1> HIDE DEF d, val
<1>4. \A i \in 1 .. N : val[d[i]] \in Nat
  BY <1>2, <1>3
<1>5. next \in [1 .. N -> [Nat -> Nat]]
  BY <1>4
<1>6. PICK f \in [0 .. N -> Nat] : f[0] = 0 /\ \A n \in 1 .. N : f[n] = next[n][f[n - 1]]
  <2> HIDE DEF N, next
  <2>1. \E f \in [0 .. N -> Nat] : Chain(f, N, 0, next)
    BY <1>2, <1>5, Recursion
  <2> QED BY <2>1 DEF Chain
<1>7. \A n \in 1 .. N : f[n] = 10 * f[n - 1] + val[d[n]]
  <2> SUFFICES ASSUME NEW n \in 1 .. N PROVE next[n][f[n - 1]] = 10 * f[n - 1] + val[d[n]]
    BY <1>6
  <2>1. f[n - 1] \in Nat
    <3>1. n - 1 \in 0 .. N
      BY <1>2
    <3> QED BY <1>6, <3>1
  <2> QED BY <2>1
<1> HIDE DEF N, next
<1>8. IsUpTo(f)
  <2>1. \A i \in 0 .. N : f[i] = IF i = 0 THEN 0 ELSE 10 * f[i - 1] + val[d[i]]
    BY SMTT(30), <1>2, <1>6, <1>7
  <2>2. f = [i \in 0 .. N |-> f[i]]
    BY <1>6
  <2> QED BY <2>1, <2>2
<1>9. IsUpTo(upTo)
  <2> HIDE DEF IsUpTo
  <2> QED BY <1>8
<1> HIDE DEF upTo
<1>10. \A i \in 0 .. N : upTo[i] = IF i = 0 THEN 0 ELSE 10 * upTo[i - 1] + val[d[i]]
  BY <1>9
<1> DEFINE T == {n \in Nat : n <= N => upTo[n] \in Nat}
<1>11. 0 \in T
  BY <1>2, <1>10
<1>12. ASSUME NEW n \in Nat \ {0}, n - 1 \in T PROVE n \in T
  <2> SUFFICES ASSUME n <= N PROVE upTo[n] \in Nat
    OBVIOUS
  <2>1. upTo[n - 1] \in Nat /\ n \in 1 .. N /\ n \in 0 .. N /\ n # 0
    BY <1>2, <1>12
  <2>2. upTo[n] = 10 * upTo[n - 1] + val[d[n]]
    BY <1>10, <2>1
  <2> QED BY <1>4, <2>1, <2>2
<1>13. upTo[N] \in Nat
  <2>1. N \in T
    <3> HIDE DEF T
    <3> QED BY <1>2, <1>11, <1>12, SetInduction
  <2> QED BY <2>1
<1> QED BY <1>1, <1>13

\* An announced length is a size_t, and a number that is one is not changed.
LEMMA AnnouncedType ==
  ASSUME NEW v \in Seq(Sym)
  PROVE  /\ Announced(v) \in Nat
         /\ \A n \in Nat : Number(v) = n /\ n < Word => Announced(v) = n
  BY NumberType, SizeAssumption DEF Announced
-----------------------------------------------------------------------------
\* A prefix is no longer than the sequence.
LEMMA SpanType ==
  ASSUME NEW s \in Seq(Sym), NEW S
  PROVE  Span(s, S) \in 0 .. Len(s)
<1> DEFINE T == {n \in 1 .. Len(s) : \A i \in 1 .. n : s[i] \in S}
<1>1. Len(s) \in Nat
  BY LenProperties
<1>2. IsFiniteSet(1 .. Len(s)) /\ Cardinality(1 .. Len(s)) = Len(s)
  BY SMTT(30), <1>1, FS_Interval
<1>3. IsFiniteSet(T) /\ Cardinality(T) <= Cardinality(1 .. Len(s))
  BY <1>2, FS_Subset
<1>4. Cardinality(T) \in Nat
  BY <1>3, FS_CardinalityType
<1>. QED
  BY <1>1, <1>2, <1>3, <1>4 DEF Span

\* Decoding and cutting keep to the symbols.
LEMMA UrlDecodeType ==
  ASSUME NEW s \in Seq(Sym)
  PROVE  UrlDecode(s) \in Seq(Sym)
<1> DEFINE n == Span(s, Sym \ {"%zz"})
           d(i) == IF s[i] \in DOMAIN Escaped THEN Escaped[s[i]] ELSE s[i]
<1>1. n \in 0 .. Len(s) /\ Len(s) \in Nat
  BY SpanType, LenProperties
<1>2. \A e \in DOMAIN Escaped : Escaped[e] \in Sym
  BY DEF Escaped, Escape, Sym, Token
<1>3. \A i \in 1 .. n : d(i) \in Sym
  BY <1>1, <1>2, ElementOfSeq
<1> HIDE DEF n, d
<1>4. [i \in 1 .. n |-> d(i)] \in Seq(Sym)
  BY <1>1, <1>3
<1>. QED
  BY <1>4 DEF UrlDecode, n, d

\* The body that ConsumePayload appends keeps to the symbols too.
LEMMA CStringType ==
  ASSUME NEW s \in Seq(Sym)
  PROVE  CString(s) \in Seq(Sym)
<1> DEFINE n == Span(s, Sym \ {"NUL"})
<1>1. n \in 0 .. Len(s) /\ Len(s) \in Nat
  BY SpanType, LenProperties
<1>2. \A i \in 1 .. n : s[i] \in Sym
  BY <1>1, ElementOfSeq
<1> HIDE DEF n
<1>3. SubSeq(s, 1, n) \in Seq(Sym)
  BY <1>1, <1>2, SubSeqProperties
<1>. QED
  BY <1>3 DEF CString, n

\* What is read past the end of buffer_ is at most one symbol.
LEMMA OverrunType == Overrun \in Seq(Sym) /\ Len(Overrun) \in {0, 1}
<1>1. "low" \in Sym
  BY DEF Sym, Ctl
<1> DEFINE l == "low"
<1>2. l \in Sym /\ Overrun \in {<<>>, <<l>>}
  BY <1>1 DEF Overrun
<1> HIDE DEF l
<1>3. <<l>> \in Seq(Sym) /\ Len(<<l>>) = 1 /\ <<>> \in Seq(Sym) /\ Len(<<>>) = 0
  BY <1>2
<1> QED BY <1>2, <1>3

\* The map of headers keeps its types, and gets no key but the one inserted.
Headers(h) == DOMAIN h \subseteq Seq(Sym) /\ \A k \in DOMAIN h : h[k] \in Seq(Sym)

\* Storing a header keeps names and values sequences of symbols.
LEMMA InsertType ==
  ASSUME NEW h, Headers(h), NEW k \in Seq(Sym), NEW v \in Seq(Sym)
  PROVE  Headers(Insert(h, k, v)) /\ DOMAIN Insert(h, k, v) = DOMAIN h \cup {k}
  BY DEF Headers, Insert

\* tolower keeps to the symbols.
LEMMA ToLowerType == \A c \in Sym : ToLower(c) \in Sym
  BY DEF ToLower, Sym, Token, Letter
-----------------------------------------------------------------------------
\* A read cuts the wire in two and leaves the parser's strings alone.
LEMMA ReadSomeTypes ==
  ASSUME TypeOK, NEW n \in 1 .. BufSize, ReadSome(n)
  PROVE  TypeOK'
<1>1. n \in 1 .. Len(wire) /\ Len(wire) \in Nat
  BY LenProperties DEF ReadSome, TypeOK
<1>2. \A i \in 1 .. Len(wire) : wire[i] \in Sym
  BY ElementOfSeq DEF TypeOK
<1>3. buffer' \in Seq(Sym)
  BY <1>1, <1>2, SubSeqProperties DEF ReadSome
<1>4. wire' \in Seq(Sym)
  BY <1>1, <1>2, SubSeqProperties DEF ReadSome
<1>5. phase' \in Phase /\ method' \in Method \cup {"indeterminate"}
  BY DEF ReadSome, TypeOK, Phase, Resumes, Method
<1>6. full' \in BOOLEAN
  BY DEF ReadSome
<1>. QED
  BY <1>3, <1>4, <1>5, <1>6 DEF ReadSome, TypeOK, parserVars

\* What one symbol of the header adds to strings and fields is of their type.
LEMMA ConsumeHeaderTypes ==
  ASSUME TypeOK, ConsumeHeader
  PROVE  TypeOK'
<1> DEFINE c == Head(buffer)
<1>1. c \in Sym /\ buffer' \in Seq(Sym)
  BY HeadTailProperties DEF ConsumeHeader, TypeOK
<1>2. ToLower(c) \in Sym
  BY <1>1, ToLowerType
<1>3. /\ method_' \in Seq(Sym) /\ header_key_' \in Seq(Sym)
      /\ header_val_' \in Seq(Sym) /\ state' \in State
  <2>1. CASE Accepting(c) # {}
    <3>1. Collect(c) /\ state' \in {p.to : p \in Accepting(c)}
      BY <2>1 DEF ConsumeHeader
    <3>2. method_' \in Seq(Sym)
      BY <1>1, <3>1, AppendProperties DEF Collect, TypeOK
    <3>3. header_key_' \in Seq(Sym)
      <4>1. header_key_' \in {<<ToLower(c)>>, Append(header_key_, ToLower(c)), header_key_}
        BY <3>1 DEF Collect
      <4>2. <<ToLower(c)>> \in Seq(Sym)
        BY <1>2
      <4>3. Append(header_key_, ToLower(c)) \in Seq(Sym)
        BY <1>2, AppendProperties DEF TypeOK
      <4>. QED
        BY <4>1, <4>2, <4>3 DEF TypeOK
    <3>4. header_val_' \in Seq(Sym)
      <4>1. header_val_' \in {<<>>, Append(header_val_, c), header_val_}
        BY <3>1 DEF Collect
      <4>2. <<>> \in Seq(Sym) /\ Append(header_val_, c) \in Seq(Sym)
        BY <1>1, AppendProperties DEF TypeOK
      <4>. QED
        BY <4>1, <4>2 DEF TypeOK
    <3>5. state' \in State
      <4>1. PICK p \in Accepting(c) : state' = p.to
        BY <3>1
      <4>2. p \in Paths
        BY DEF Accepting
      <4>. QED
        BY <4>1, <4>2 DEF State
    <3>. QED
      BY <3>2, <3>3, <3>4, <3>5
  <2>2. CASE Accepting(c) = {}
    BY <2>2 DEF ConsumeHeader, parserVars, TypeOK
  <2>. QED
    BY <2>1, <2>2
<1>4. phase' \in Phase
  BY DEF ConsumeHeader, Leads, Phase
<1>5. method' \in Method \cup {"indeterminate"}
  BY DEF ConsumeHeader, MethodType, Method, TypeOK
<1>6. uri' \in Seq(Sym)
  BY <1>1, UrlDecodeType, AppendProperties DEF ConsumeHeader, TypeOK
<1>7. Headers(headers')
  <2>1. headers' = IF Stores(c) THEN Insert(headers, header_key_, header_val_) ELSE headers
    BY DEF ConsumeHeader
  <2>2. Headers(headers)
    BY DEF TypeOK, Headers
  <2>. QED
    BY <2>1, <2>2, InsertType DEF TypeOK
<1>. QED
  BY <1>1, <1>3, <1>4, <1>5, <1>6, <1>7 DEF ConsumeHeader, TypeOK, Headers

\* The payload adds symbols to the body, or ends the parsing.
LEMMA ConsumePayloadTypes ==
  ASSUME TypeOK, ConsumePayload
  PROVE  TypeOK'
<1>1. body' \in {body, body \o CString(buffer \o Overrun)}
  BY DEF ConsumePayload
<1>2. body' \in Seq(Sym)
  <2>1. body \o CString(buffer \o Overrun) \in Seq(Sym)
    BY OverrunType, CStringType, ConcatProperties DEF TypeOK
  <2>. QED
    BY <1>1, <2>1 DEF TypeOK
<1>3. phase' \in Phase
  BY DEF ConsumePayload, Phase
<1>4. buffer' \in Seq(Sym)
  BY DEF ConsumePayload
<1>. QED
  BY <1>2, <1>3, <1>4 DEF ConsumePayload, TypeOK, parserVars

\* Every step keeps the types.
LEMMA TypeOKStep == TypeOK /\ [Next]_vars => TypeOK'
<1> SUFFICES ASSUME TypeOK, [Next]_vars PROVE TypeOK'
  OBVIOUS
<1>1. CASE HeaderIndeterminate
  BY <1>1 DEF HeaderIndeterminate, TypeOK, Phase, parserVars, requestVars
<1>2. CASE UNCHANGED vars
  BY <1>2 DEF TypeOK, vars, parserVars, requestVars
<1>. QED
  BY <1>1, <1>2, ReadSomeTypes, ConsumeHeaderTypes, ConsumePayloadTypes DEF Next, Parse

\* The parser's strings and the request's fields hold symbols, and its state
\* is one of State, for every message, buffer size and word size.
THEOREM TypeCorrect == Spec => []TypeOK
<1>1. Init => TypeOK
  <2> SUFFICES ASSUME Init PROVE TypeOK
    OBVIOUS
  <2>1. full \in BOOLEAN
    BY Zenon DEF Init
  <2>2. message \in Seq(Sym) /\ wire = message
    BY MessagesAssumption DEF Init
  <2>3. /\ buffer = <<>> /\ method_ = <<>> /\ header_key_ = <<>> /\ header_val_ = <<>>
        /\ uri = <<>> /\ headers = <<>> /\ body = <<>>
        /\ phase = "reading" /\ state = "METHOD_START" /\ method = "indeterminate"
    BY Zenon DEF Init
  <2>. QED
    BY <2>1, <2>2, <2>3 DEF TypeOK, Phase, State
<1>. QED
  BY <1>1, TypeOKStep, PTL DEF Spec
-----------------------------------------------------------------------------
InMessage(c) == \E i \in 1 .. Len(message) : message[i] = c
Lowered(c) == \E i \in 1 .. Len(message) : ToLower(message[i]) = c

\* Every symbol that is read comes from the message, and so do those of the
\* names of headers; a message is only refused with a content-length stored.
Origin ==
  /\ \A i \in 1 .. Len(wire) : InMessage(wire[i])
  /\ \A i \in 1 .. Len(buffer) : InMessage(buffer[i])
  /\ \A i \in 1 .. Len(header_key_) : Lowered(header_key_[i])
  /\ \A k \in DOMAIN headers : \A i \in 1 .. Len(k) : Lowered(k[i])
  /\ phase \in {"bad", "threw"} => ContentLength \in DOMAIN headers

\* Before anything was read there is nothing to trace to the message.
LEMMA OriginInit == Init => Origin
  BY DEF Init, Origin, InMessage

\* The symbols of a read are symbols of the message.
LEMMA ReadSomeOrigin ==
  ASSUME TypeOK, Origin, NEW n \in 1 .. BufSize, ReadSome(n)
  PROVE  Origin'
<1>1. n \in 1 .. Len(wire) /\ Len(wire) \in Nat
  BY LenProperties DEF ReadSome, TypeOK
<1>2. \A i \in 1 .. Len(wire) : wire[i] \in Sym
  BY ElementOfSeq DEF TypeOK
<1>3. Len(buffer') = n /\ \A i \in 1 .. n : buffer'[i] = wire[i]
  BY <1>1, <1>2, SubSeqProperties DEF ReadSome
<1>4. Len(wire') = Len(wire) - n /\ \A i \in 1 .. Len(wire) - n : wire'[i] = wire[n + i]
  BY <1>1, <1>2, SubSeqProperties DEF ReadSome
<1>5. UNCHANGED <<message, header_key_, headers>> /\ phase' \notin {"bad", "threw"}
  BY DEF ReadSome, Resumes, parserVars
<1>6. \A i \in 1 .. Len(wire') : InMessage(wire'[i])
  BY <1>1, <1>4 DEF Origin
<1>7. \A i \in 1 .. Len(buffer') : InMessage(buffer'[i])
  BY <1>1, <1>3 DEF Origin
<1>. QED
  BY <1>5, <1>6, <1>7 DEF Origin, InMessage, Lowered

\* A header name is made of symbols of the message, in lower case.
LEMMA ConsumeHeaderOrigin ==
  ASSUME TypeOK, Origin, ConsumeHeader
  PROVE  Origin'
<1> DEFINE c == Head(buffer)
<1>1. /\ buffer # <<>> /\ buffer \in Seq(Sym)
      /\ buffer' = Tail(buffer)
      /\ UNCHANGED <<message, wire>>
  BY DEF ConsumeHeader, TypeOK
<1>2. c \in Sym /\ InMessage(c)
  BY <1>1, HeadTailProperties, LenProperties DEF Origin
<1>3. Lowered(ToLower(c))
  BY <1>2 DEF InMessage, Lowered
<1>4. \A i \in 1 .. Len(buffer') : InMessage(buffer'[i])
  <2>1. Len(buffer') = Len(buffer) - 1 /\ Len(buffer) \in Nat
    BY <1>1, HeadTailProperties, LenProperties
  <2>2. \A i \in 1 .. Len(buffer') : buffer'[i] = buffer[i + 1]
    BY <1>1, HeadTailProperties
  <2>. QED
    BY <2>1, <2>2 DEF Origin
<1>5. header_key_' \in {<<ToLower(c)>>, Append(header_key_, ToLower(c)), header_key_}
  BY DEF ConsumeHeader, Collect, parserVars
<1>6. \A i \in 1 .. Len(header_key_') : Lowered(header_key_'[i])
  <2>1. CASE header_key_' = <<ToLower(c)>>
    BY <1>3, <2>1
  <2>2. CASE header_key_' = Append(header_key_, ToLower(c))
    <3>1. ToLower(c) \in Sym /\ header_key_ \in Seq(Sym) /\ Len(header_key_) \in Nat
      BY <1>2, ToLowerType, LenProperties DEF TypeOK
    <3>2. /\ Len(header_key_') = Len(header_key_) + 1
          /\ \A i \in 1 .. Len(header_key_) : header_key_'[i] = header_key_[i]
          /\ header_key_'[Len(header_key_) + 1] = ToLower(c)
      BY <2>2, <3>1, AppendProperties
    <3>. QED
      BY <1>3, <3>1, <3>2 DEF Origin
  <2>3. CASE header_key_' = header_key_
    BY <2>3 DEF Origin
  <2>. QED
    BY <1>5, <2>1, <2>2, <2>3
<1>7. \A k \in DOMAIN headers' : \A i \in 1 .. Len(k) : Lowered(k[i])
  <2>1. headers' = IF Stores(c) THEN Insert(headers, header_key_, header_val_) ELSE headers
    BY DEF ConsumeHeader
  <2>2. DOMAIN headers' \subseteq DOMAIN headers \cup {header_key_}
    BY <2>1, InsertType DEF TypeOK, Headers
  <2>. QED
    BY <2>2 DEF Origin
<1>8. phase' \notin {"bad", "threw"}
  BY DEF ConsumeHeader, Leads
<1>. QED
  BY <1>1, <1>4, <1>6, <1>7, <1>8 DEF Origin, InMessage, Lowered

\* Every step keeps the origin of names, and refuses for a length only.
LEMMA OriginStep == TypeOK /\ Origin /\ [Next]_vars => Origin'
<1> SUFFICES ASSUME TypeOK, Origin, [Next]_vars PROVE Origin'
  OBVIOUS
<1>1. CASE HeaderIndeterminate
  BY <1>1 DEF HeaderIndeterminate, Origin, InMessage, Lowered, parserVars, requestVars
<1>2. CASE ConsumePayload
  <2>1. phase' \in {"bad", "threw"} => ContentLength \in DOMAIN headers
    BY <1>2 DEF ConsumePayload
  <2>2. UNCHANGED <<message, wire, header_key_, headers>> /\ buffer' = <<>>
    BY <1>2 DEF ConsumePayload, parserVars
  <2>. QED
    BY <2>1, <2>2 DEF Origin, InMessage, Lowered
<1>3. CASE UNCHANGED vars
  BY <1>3 DEF Origin, InMessage, Lowered, vars, parserVars, requestVars
<1>. QED
  BY <1>1, <1>2, <1>3, ReadSomeOrigin, ConsumeHeaderOrigin DEF Next, Parse

\* A message without a content-length is never refused, whatever its syntax:
\* what ConsumeHeader calls BAD does not come out of Parse.
THEOREM RefusedOnlyForLength == Spec => []RefusedForLengthOnly
<1>1. Origin => RefusedForLengthOnly
  <2> SUFFICES ASSUME Origin, phase \in {"bad", "threw"}
               PROVE  Lowered("content-length")
    BY DEF RefusedForLengthOnly, Lowered
  <2>1. \A i \in 1 .. Len(ContentLength) : Lowered(ContentLength[i])
    BY DEF Origin
  <2>. QED
    BY <2>1 DEF ContentLength
<1>. QED
  BY <1>1, OriginInit, OriginStep, TypeCorrect, PTL DEF Spec
-----------------------------------------------------------------------------
\* The symbols that decide between the paths that leave a state.
LEMMA Symbols ==
  /\ Token \subseteq Visible /\ Visible \subseteq Plain /\ Plain \subseteq Sym /\ Digit \subseteq Token
  /\ Space \notin Token /\ ":" \notin Token /\ "\t" \notin Token
  /\ "\r" \notin Plain /\ "\n" \notin Plain /\ "\t" \notin Plain /\ "NUL" \notin Plain
  /\ Space \in Plain /\ Space \notin Visible /\ Plain \subseteq Visible \cup {Space}
  /\ "\r" \notin Token /\ "." \notin Digit /\ "\r" \notin Digit
  /\ {Space, ":", "\r", "\n", "\t", "/", "H", "T", "P", ".", "1", "NUL"} \subseteq Sym
  /\ {"H", "T", "P", ".", "1"} \subseteq Token /\ "1" \in Digit /\ "/" \in Visible
  /\ Space \notin {"\t", "\r", "\n", "NUL", ":", "/", ".", "H", "T", "P"}
  BY DEF Token, Plain, Sym, Ctl, Digit, Method, Letter, Escape, Visible, Space

\* The states of the request line, of its version and of the header lines.
TargetFrom == {"METHOD_START", "METHOD", "URI"}
VersionFrom == {"HTTP_VERSION_H", "HTTP_VERSION_T_1", "HTTP_VERSION_T_2", "HTTP_VERSION_P",
                "HTTP_VERSION_SLASH", "HTTP_VERSION_MAJOR_START", "HTTP_VERSION_MAJOR",
                "HTTP_VERSION_MINOR_START", "HTTP_VERSION_MINOR", "EXPECTING_NEWLINE_1"}
HeaderFrom == {"HEADER_LINE_START", "HEADER_LWS", "HEADER_NAME", "SPACE_BEFORE_HEADER_VALUE",
               "HEADER_VALUE", "EXPECTING_NEWLINE_2", "EXPECTING_NEWLINE_3"}

\* A symbol of the request line leaves a state of it by one path only, ...
LEMMA LeavingTarget ==
  ASSUME NEW p \in TargetPaths, NEW c \in p.on
  PROVE  /\ p.from \in TargetFrom
         /\ p.from = "METHOD_START" => p.to = "METHOD"
         /\ p.from = "METHOD" => p.to = IF c = Space THEN "URI" ELSE "METHOD"
         /\ p.from = "URI" => p.to = IF c = Space THEN "HTTP_VERSION_H" ELSE "URI"
  BY Symbols DEF TargetPaths, Path, TargetFrom

\* ... and so does a symbol of the version, ...
LEMMA LeavingVersion ==
  ASSUME NEW p \in VersionPaths, NEW c \in p.on
  PROVE  /\ p.from \in VersionFrom
         /\ p.from = "HTTP_VERSION_H" => p.to = "HTTP_VERSION_T_1"
         /\ p.from = "HTTP_VERSION_T_1" => p.to = "HTTP_VERSION_T_2"
         /\ p.from = "HTTP_VERSION_T_2" => p.to = "HTTP_VERSION_P"
         /\ p.from = "HTTP_VERSION_P" => p.to = "HTTP_VERSION_SLASH"
         /\ p.from = "HTTP_VERSION_SLASH" => p.to = "HTTP_VERSION_MAJOR_START"
         /\ p.from = "HTTP_VERSION_MAJOR_START" => p.to = "HTTP_VERSION_MAJOR"
         /\ p.from = "HTTP_VERSION_MAJOR" =>
              p.to = IF c = "." THEN "HTTP_VERSION_MINOR_START" ELSE "HTTP_VERSION_MAJOR"
         /\ p.from = "HTTP_VERSION_MINOR_START" => p.to = "HTTP_VERSION_MINOR"
         /\ p.from = "HTTP_VERSION_MINOR" =>
              p.to = IF c = "\r" THEN "EXPECTING_NEWLINE_1" ELSE "HTTP_VERSION_MINOR"
         /\ p.from = "EXPECTING_NEWLINE_1" => p.to = "HEADER_LINE_START"
  BY Symbols DEF VersionPaths, Path, VersionFrom

\* ... and one of the header lines.
LEMMA LeavingHeader ==
  ASSUME NEW p \in HeaderPaths, NEW c \in p.on
  PROVE  /\ p.from \in HeaderFrom
         /\ p.from = "HEADER_LINE_START" =>
              p.to = IF c = "\r" THEN "EXPECTING_NEWLINE_3"
                     ELSE IF c \in Blank THEN "HEADER_LWS" ELSE "HEADER_NAME"
         /\ p.from = "HEADER_LWS" =>
              p.to = IF c = "\r" THEN "EXPECTING_NEWLINE_2"
                     ELSE IF c \in Blank THEN "HEADER_LWS" ELSE "HEADER_VALUE"
         /\ p.from = "HEADER_NAME" =>
              p.to = IF c = ":" THEN "SPACE_BEFORE_HEADER_VALUE" ELSE "HEADER_NAME"
         /\ p.from = "SPACE_BEFORE_HEADER_VALUE" => p.to = "HEADER_VALUE"
         /\ p.from = "HEADER_VALUE" =>
              p.to = IF c = "\r" THEN "EXPECTING_NEWLINE_2" ELSE "HEADER_VALUE"
         /\ p.from = "EXPECTING_NEWLINE_2" => p.to = "HEADER_LINE_START"
         /\ p.from = "EXPECTING_NEWLINE_3" => p.to = "CONTENT_BODY"
  BY Symbols DEF HeaderPaths, Path, HeaderFrom, Blank

\* No two paths leave a state on one symbol: the paths are the switch of consume.
LEMMA Deterministic ==
  ASSUME NEW p \in Paths, NEW q \in Paths, p.from = q.from, NEW c \in p.on, c \in q.on
  PROVE  p.to = q.to
<1>1. TargetFrom \cap VersionFrom = {} /\ TargetFrom \cap HeaderFrom = {} /\ VersionFrom \cap HeaderFrom = {}
  BY DEF TargetFrom, VersionFrom, HeaderFrom
<1>2. /\ p \in TargetPaths \/ p \in VersionPaths \/ p \in HeaderPaths
      /\ q \in TargetPaths \/ q \in VersionPaths \/ q \in HeaderPaths
  BY DEF Paths
<1>3. CASE p \in TargetPaths
  <2>1. q \in TargetPaths
    BY <1>1, <1>2, <1>3, LeavingTarget, LeavingVersion, LeavingHeader
  <2> QED BY <1>3, <2>1, LeavingTarget DEF TargetFrom
<1>4. CASE p \in VersionPaths
  <2>1. q \in VersionPaths
    BY <1>1, <1>2, <1>4, LeavingTarget, LeavingVersion, LeavingHeader
  <2> QED BY <1>4, <2>1, LeavingVersion DEF VersionFrom
<1>5. CASE p \in HeaderPaths
  <2>1. q \in HeaderPaths
    BY <1>1, <1>2, <1>5, LeavingTarget, LeavingVersion, LeavingHeader
  <2> QED BY <1>5, <2>1, LeavingHeader DEF HeaderFrom
<1> QED BY <1>2, <1>3, <1>4, <1>5

\* A step along a path.
LEMMA Moves ==
  ASSUME ConsumeHeader, NEW c, c = Head(buffer), NEW q \in Paths, q.from = state, c \in q.on,
         q.to = "HTTP_VERSION_H" => ValidUri(UrlDecode(uri)),
         q.to = "HEADER_LWS" /\ q.from = "HEADER_LINE_START" => DOMAIN headers # {}
  PROVE  /\ Collect(c) /\ state' = q.to
         /\ phase' = IF state = "EXPECTING_NEWLINE_3" THEN "payload" ELSE "header"
<1>1. q \in Accepting(c)
  BY DEF Accepting
<1>2. Collect(c) /\ state' \in {p.to : p \in Accepting(c)}
  BY <1>1 DEF ConsumeHeader
<1>3. PICK p \in Accepting(c) : state' = p.to
  BY <1>2
<1>4. p \in Paths /\ p.from = q.from /\ c \in p.on
  BY DEF Accepting
<1>5. state' = q.to
  BY <1>3, <1>4, Deterministic
<1>6. phase' = IF state = "EXPECTING_NEWLINE_3" THEN "payload" ELSE "header"
  BY <1>1 DEF ConsumeHeader, Leads
<1> QED BY <1>2, <1>5, <1>6
-----------------------------------------------------------------------------
\* What is to come of a sequence after its first n symbols.
Rest(s, n) == SubSeq(s, n + 1, Len(s))

\* The end of the request line, and the states it is read in.
Version == <<Space, "H", "T", "T", "P", "/", "1", ".", "1", "\r", "\n">>
VersionState ==
  <<"HTTP_VERSION_H", "HTTP_VERSION_T_1", "HTTP_VERSION_T_2", "HTTP_VERSION_P",
    "HTTP_VERSION_SLASH", "HTTP_VERSION_MAJOR_START", "HTTP_VERSION_MAJOR",
    "HTTP_VERSION_MINOR_START", "HTTP_VERSION_MINOR", "EXPECTING_NEWLINE_1">>

\* The lines of a header and the headers of a request as they are sent, and what
\* is to come after the first i headers, and after the first l lines of header i.
Lines(h) == [i \in 1 .. Len(h.lines) |-> EncodeLine(h.lines[i])]
Heads(r) == [i \in 1 .. Len(r.headers) |-> EncodeHeader(r.headers[i])]
AfterHeaders(r, i) == After(Heads(r), i) \o (CrLf \o r.body)
AfterLine(r, i, l) == After(Lines(r.headers[i]), l) \o AfterHeaders(r, i)

\* Three sequences are joined in either order.
LEMMA Associative == \A s, t, u \in Seq(Sym) : (s \o t) \o u = s \o (t \o u)
  BY ConcatAssociative

\* What joining sequences of symbols comes to.
LEMMA Joined ==
  /\ \A s, t \in Seq(Sym) : s \o t \in Seq(Sym)
  /\ \A s, t, u \in Seq(Sym) : (s \o t) \o u = s \o (t \o u)
  /\ \A s \in Seq(Sym) : s \o <<>> = s /\ <<>> \o s = s
  /\ <<>> \in Seq(Sym) /\ \A c \in Sym : <<c>> \in Seq(Sym)
<1>1. \A s, t \in Seq(Sym) : s \o t \in Seq(Sym)
  BY ConcatProperties
<1>2. \A s, t, u \in Seq(Sym) : (s \o t) \o u = s \o (t \o u)
  BY ConcatAssociative
<1>3. \A s \in Seq(Sym) : s \o <<>> = s /\ <<>> \o s = s
  BY ConcatEmptySeq
<1>4. <<>> \in Seq(Sym) /\ \A c \in Sym : <<c>> \in Seq(Sym)
  OBVIOUS
<1> QED BY Zenon, <1>1, <1>2, <1>3, <1>4

\* What is to come of a sequence begins with its next symbol.
LEMMA RestNext ==
  ASSUME NEW s \in Seq(Sym), NEW n \in 0 .. Len(s) - 1, NEW t \in Seq(Sym)
  PROVE  /\ s[n + 1] \in Sym /\ Rest(s, n + 1) \in Seq(Sym)
         /\ Rest(s, n) \o t = <<s[n + 1]>> \o (Rest(s, n + 1) \o t)
<1> DEFINE k == n + 1
           L == Len(s)
<1>1. k \in 1 .. L /\ L \in k .. L /\ L \in Nat /\ k \in Int /\ k + 1 \in Int
  OBVIOUS
<1>2. Rest(s, n) = SubSeq(s, k, L) /\ Rest(s, n + 1) = SubSeq(s, k + 1, L)
  BY DEF Rest
<1> HIDE DEF k
<1>3. SubSeq(s, k, L) = <<s[k]>> \o SubSeq(s, k + 1, L)
  BY <1>1, SubSeqRecursiveFirst
<1>4. s[k] \in Sym
  BY <1>1
<1>5. SubSeq(s, k + 1, L) \in Seq(Sym)
  <2>1. \A i \in k + 1 .. L : s[i] \in Sym
    BY <1>1
  <2> HIDE DEF L
  <2> QED BY <1>1, <2>1, SubSeqProperties
<1>6. (<<s[k]>> \o SubSeq(s, k + 1, L)) \o t = <<s[k]>> \o (SubSeq(s, k + 1, L) \o t)
  <2> DEFINE x == <<s[k]>>
             y == SubSeq(s, k + 1, L)
  <2>1. x \in Seq(Sym) /\ y \in Seq(Sym)
    BY <1>4, <1>5
  <2> HIDE DEF x, y
  <2>2. (x \o y) \o t = x \o (y \o t)
    BY ZenonT(60), <2>1, Associative
  <2> QED BY <2>2 DEF x, y
<1>7. Rest(s, n) \o t = <<s[k]>> \o (Rest(s, n + 1) \o t)
  BY Zenon, <1>2, <1>3, <1>6
<1> QED BY <1>2, <1>4, <1>5, <1>7 DEF k

\* What is to come of a sequence of symbols is one.
LEMMA RestType ==
  ASSUME NEW s \in Seq(Sym), NEW n \in 0 .. Len(s)
  PROVE  Rest(s, n) \in Seq(Sym)
<1>1. Len(s) \in Nat /\ n + 1 \in Int
  OBVIOUS
<1>2. \A i \in n + 1 .. Len(s) : s[i] \in Sym
  BY <1>1
<1> QED BY <1>1, <1>2, SubSeqProperties DEF Rest

\* At the start all of it is to come, at its end nothing.
LEMMA RestIs ==
  ASSUME NEW s \in Seq(Sym)
  PROVE  /\ Rest(s, 0) = s /\ Rest(s, Len(s)) = <<>>
<1>1. Len(s) \in Nat
  OBVIOUS
<1>2. SubSeq(s, 0 + 1, Len(s)) = s
  BY SubSeqFull
<1>3. SubSeq(s, Len(s) + 1, Len(s)) = <<>>
  BY <1>1, SubSeqEmpty
<1> QED BY <1>2, <1>3 DEF Rest

\* The first symbol of what is to come is the one that is consumed.
LEMMA HeadTailJoined ==
  /\ \A b, w \in Seq(Sym) : b # <<>> => Head(b \o w) = Head(b) /\ Tail(b \o w) = Tail(b) \o w
  /\ \A c \in Sym, t \in Seq(Sym) : Head(<<c>> \o t) = c /\ Tail(<<c>> \o t) = t
<1>1. ASSUME NEW b \in Seq(Sym), NEW w \in Seq(Sym), b # <<>>
      PROVE  Head(b \o w) = Head(b) /\ Tail(b \o w) = Tail(b) \o w
  <2> DEFINE s == b \o w
  <2>1. s \in Seq(Sym) /\ Len(s) = Len(b) + Len(w) /\ Len(b) \in Nat /\ Len(w) \in Nat /\ Len(b) # 0
        /\ \A i \in 1 .. Len(b) + Len(w) : s[i] = IF i <= Len(b) THEN b[i] ELSE w[i - Len(b)]
    BY <1>1, ConcatProperties
  <2>2. /\ Tail(b) \in Seq(Sym) /\ Len(Tail(b)) = Len(b) - 1
        /\ \A i \in 1 .. Len(Tail(b)) : Tail(b)[i] = b[i + 1]
    BY <1>1, HeadTailProperties
  <2>3. /\ Tail(s) \in Seq(Sym) /\ Len(Tail(s)) = Len(s) - 1
        /\ \A i \in 1 .. Len(Tail(s)) : Tail(s)[i] = s[i + 1]
    <3>1. s # <<>>
      <4> HIDE DEF s
      <4> QED BY <2>1
    <3> HIDE DEF s
    <3> QED BY <2>1, <3>1, HeadTailProperties
  <2> DEFINE u == Tail(b)
             x == u \o w
  <2>4. /\ x \in Seq(Sym) /\ Len(x) = Len(u) + Len(w)
        /\ \A i \in 1 .. Len(u) + Len(w) : x[i] = IF i <= Len(u) THEN u[i] ELSE w[i - Len(u)]
    BY <2>2, ConcatProperties
  <2>5. Head(b) = b[1]
    BY <1>1
  <2> HIDE DEF s, u, x
  <2>11. Head(s) = s[1]
    BY <2>1
  <2>6. Len(u) = Len(b) - 1 /\ u \in Seq(Sym) /\ \A i \in 1 .. Len(u) : u[i] = b[i + 1]
    BY <2>2 DEF u
  <2>7. Head(s) = Head(b)
    BY <2>1, <2>5, <2>11
  <2>8. ASSUME NEW i \in 1 .. Len(x) PROVE Tail(s)[i] = x[i]
    <3> DEFINE j == i + 1
    <3>1. i \in 1 .. Len(Tail(s)) /\ j \in 1 .. Len(b) + Len(w) /\ j - Len(b) = i - Len(u)
          /\ i \in 1 .. Len(u) + Len(w)
      BY <2>1, <2>3, <2>4, <2>6
    <3>2. Tail(s)[i] = s[j]
      BY <2>3, <3>1
    <3>3. CASE i <= Len(u)
      <4>1. j <= Len(b) /\ i \in 1 .. Len(u)
        BY <2>1, <2>6, <3>1, <3>3
      <4> QED BY <2>1, <2>4, <2>6, <3>1, <3>2, <3>3, <4>1
    <3>4. CASE ~(i <= Len(u))
      <4>1. ~(j <= Len(b))
        BY <2>1, <2>6, <3>1, <3>4
      <4>2. s[j] = w[j - Len(b)] /\ x[i] = w[i - Len(u)]
        BY <2>1, <2>4, <3>1, <3>4, <4>1
      <4> QED BY <3>1, <3>2, <4>2
    <3> QED BY <3>3, <3>4
  <2>9. Len(Tail(s)) = Len(x)
    BY <2>1, <2>3, <2>4, <2>6
  <2>10. Tail(s) = x
    BY <2>3, <2>4, <2>8, <2>9, SeqEqual
  <2> QED BY <2>7, <2>10 DEF s, x, u
<1>2. ASSUME NEW c \in Sym, NEW t \in Seq(Sym) PROVE Head(<<c>> \o t) = c /\ Tail(<<c>> \o t) = t
  <2> DEFINE e == <<c>>
  <2>1. e \in Seq(Sym) /\ e # <<>> /\ Head(e) = c /\ Tail(e) = <<>>
    OBVIOUS
  <2> HIDE DEF e
  <2>2. Head(e \o t) = c /\ Tail(e \o t) = <<>> \o t
    BY <1>1, <2>1
  <2>3. <<>> \o t = t
    BY Joined
  <2> QED BY <2>2, <2>3 DEF e
<1> QED BY <1>1, <1>2
-----------------------------------------------------------------------------
\* Sequences of fewer symbols are sequences of more.
LEMMA SymbolSeqs ==
  /\ Seq(Visible) \subseteq Seq(Plain) /\ Seq(Plain) \subseteq Seq(Sym)
  /\ Seq(Seq(Plain)) \subseteq Seq(Seq(Sym))
<1>1. Seq(Visible) \subseteq Seq(Plain) /\ Seq(Plain) \subseteq Seq(Sym)
  BY Symbols, SeqMonotonic
<1>2. Seq(Seq(Plain)) \subseteq Seq(Seq(Sym))
  BY <1>1, SeqMonotonic
<1> QED BY <1>1, <1>2

\* What RequestAssumption says of one request, ...
LEMMA RequestTypes ==
  ASSUME NEW r \in Requests
  PROVE  /\ r.method \in Token /\ r.method \in Sym
         /\ r.uri \in Seq(Visible) /\ r.uri \in Seq(Sym)
         /\ r.body \in Seq(Sym) /\ Len(r.body) < Word
         /\ Len(r.headers) \in Nat
         /\ \A i \in 1 .. Len(r.headers) : r.headers[i].name \in Token /\ r.headers[i].name \in Sym
<1>1. r \in [method : Token, uri : Seq(Visible),
             headers : Seq([name : Token, lines : Seq(Seq(Plain)) \ {<<>>}]), body : Seq(Sym)]
      /\ Len(r.body) < Word
  BY RequestAssumption
<1>2. r.uri \in Seq(Sym)
  BY <1>1, SymbolSeqs
<1>3. r.headers \in Seq([name : Token, lines : Seq(Seq(Plain)) \ {<<>>}])
  BY <1>1
<1> DEFINE H == [name : Token, lines : Seq(Seq(Plain)) \ {<<>>}]
           hs == r.headers
<1>4. hs \in Seq(H)
  BY <1>3
<1> HIDE DEF H, hs
<1>5. Len(hs) \in Nat /\ \A i \in 1 .. Len(hs) : hs[i] \in H
  BY <1>4
<1>6. \A i \in 1 .. Len(hs) : hs[i].name \in Token
  BY <1>5 DEF H
<1>7. \A i \in 1 .. Len(hs) : hs[i].name \in Sym
  BY <1>6, Symbols
<1> QED BY <1>1, <1>2, <1>5, <1>6, <1>7, Symbols DEF hs

\* ... of the lines of its headers, of which each has one, ...
LEMMA LineTypes ==
  ASSUME NEW r \in Requests, NEW i \in 1 .. Len(r.headers)
  PROVE  /\ r.headers[i].lines \in Seq(Seq(Plain)) /\ r.headers[i].lines \in Seq(Seq(Sym))
         /\ Len(r.headers[i].lines) \in Nat /\ Len(r.headers[i].lines) >= 1
         /\ \A l \in 1 .. Len(r.headers[i].lines) :
              r.headers[i].lines[l] \in Seq(Plain) /\ r.headers[i].lines[l] \in Seq(Sym)
<1>1. r.headers \in Seq([name : Token, lines : Seq(Seq(Plain)) \ {<<>>}])
  BY RequestAssumption
<1> DEFINE s == r.headers[i].lines
<1> DEFINE H == [name : Token, lines : Seq(Seq(Plain)) \ {<<>>}]
           hs == r.headers
<1>2. s \in Seq(Seq(Plain)) /\ s # <<>>
  <2>1. hs \in Seq(H) /\ i \in 1 .. Len(hs)
    BY <1>1
  <2> HIDE DEF H, hs
  <2>2. hs[i] \in H
    BY <2>1
  <2>3. hs[i].lines \in Seq(Seq(Plain)) /\ hs[i].lines # <<>>
    BY <2>2 DEF H
  <2> QED BY <2>3 DEF hs
<1> HIDE DEF s
<1>3. s \in Seq(Seq(Sym))
  BY <1>2, SymbolSeqs
<1>4. Len(s) \in Nat /\ Len(s) >= 1 /\ \A l \in 1 .. Len(s) : s[l] \in Seq(Plain)
  BY <1>2
<1>5. \A l \in 1 .. Len(s) : s[l] \in Seq(Sym)
  BY <1>4, SymbolSeqs
<1> QED BY <1>2, <1>3, <1>4, <1>5 DEF s

\* ... and of what separates them.
LEMMA LineEnds ==
  /\ CrLf \in Seq(Sym) /\ CrLf = <<"\r">> \o <<"\n">>
  /\ <<"\r">> \in Seq(Sym) /\ <<"\n">> \in Seq(Sym) /\ <<Space>> \in Seq(Sym) /\ <<":">> \in Seq(Sym)
<1>1. {"\r", "\n", Space, ":"} \subseteq Sym
  BY Symbols
<1>2. <<"\r", "\n">> = <<"\r">> \o <<"\n">>
  OBVIOUS
<1> QED BY <1>1, <1>2 DEF CrLf

\* A line is sent as a space, its text and its end, ...
LEMMA EncodeLineType ==
  ASSUME NEW s \in Seq(Sym)
  PROVE  EncodeLine(s) \in Seq(Sym) /\ EncodeLine(s) = <<Space>> \o (s \o CrLf)
<1>1. <<Space>> \o s \in Seq(Sym)
  BY Zenon, LineEnds, Joined
<1>2. (<<Space>> \o s) \o CrLf \in Seq(Sym)
  BY Zenon, <1>1, LineEnds, Joined
<1>3. (<<Space>> \o s) \o CrLf = <<Space>> \o (s \o CrLf)
  BY ZenonT(30), LineEnds, Associative
<1> QED BY <1>2, <1>3 DEF EncodeLine

\* ... the lines of a header one after the other, ...
LEMMA LinesType ==
  ASSUME NEW r \in Requests, NEW i \in 1 .. Len(r.headers)
  PROVE  /\ Lines(r.headers[i]) \in Seq(Seq(Sym))
         /\ Len(Lines(r.headers[i])) = Len(r.headers[i].lines)
         /\ \A l \in 1 .. Len(r.headers[i].lines) :
              Lines(r.headers[i])[l] = EncodeLine(r.headers[i].lines[l])
         /\ FlattenSeq(Lines(r.headers[i])) \in Seq(Sym)
<1> DEFINE s == r.headers[i].lines
           f == [l \in 1 .. Len(s) |-> EncodeLine(s[l])]
<1>1. \A l \in 1 .. Len(s) : EncodeLine(s[l]) \in Seq(Sym)
  BY LineTypes, EncodeLineType
<1>2. Len(s) \in Nat
  BY LineTypes
<1>3. Lines(r.headers[i]) = f
  BY DEF Lines
<1> HIDE DEF s
<1>4. f \in Seq(Seq(Sym)) /\ Len(f) = Len(s) /\ \A l \in 1 .. Len(s) : f[l] = EncodeLine(s[l])
  BY <1>1, <1>2
<1> HIDE DEF f
<1>5. FlattenSeq(f) \in Seq(Sym)
  BY <1>4, FlattenAppend, EmptySeq
<1> QED BY <1>3, <1>4, <1>5 DEF s

\* ... and before them the name of the header and a colon.
LEMMA HeadsType ==
  ASSUME NEW r \in Requests
  PROVE  /\ Heads(r) \in Seq(Seq(Sym)) /\ Len(Heads(r)) = Len(r.headers)
         /\ \A i \in 1 .. Len(r.headers) :
              Heads(r)[i] = <<r.headers[i].name>> \o (<<":">> \o FlattenSeq(Lines(r.headers[i])))
<1>1. ASSUME NEW i \in 1 .. Len(r.headers)
      PROVE  /\ EncodeHeader(r.headers[i]) \in Seq(Sym)
             /\ EncodeHeader(r.headers[i])
                  = <<r.headers[i].name>> \o (<<":">> \o FlattenSeq(Lines(r.headers[i])))
  <2> DEFINE x == <<r.headers[i].name>>
             y == <<":">>
             z == FlattenSeq(Lines(r.headers[i]))
  <2>1. x \in Seq(Sym) /\ y \in Seq(Sym) /\ z \in Seq(Sym)
    <3>1. z \in Seq(Sym)
      BY LinesType
    <3>2. r.headers[i].name \in Sym
      BY RequestTypes
    <3> HIDE DEF z
    <3>3. x \in Seq(Sym)
      BY <3>2
    <3> QED BY <3>1, <3>3, LineEnds
  <2>2. <<r.headers[i].name, ":">> = x \o y
    OBVIOUS
  <2>3. EncodeHeader(r.headers[i]) = (x \o y) \o z
    BY <2>2 DEF EncodeHeader, Lines
  <2> HIDE DEF x, y, z
  <2>4. (x \o y) \o z = x \o (y \o z)
    BY Zenon, <2>1, Associative
  <2>5. x \o y \in Seq(Sym)
    BY Zenon, <2>1, Joined
  <2>6. (x \o y) \o z \in Seq(Sym)
    BY Zenon, <2>1, <2>5, Joined
  <2> QED BY <2>3, <2>4, <2>6 DEF x, y, z
<1>2. Len(r.headers) \in Nat
  BY RequestTypes
<1> DEFINE hs == r.headers
           g == [i \in 1 .. Len(hs) |-> EncodeHeader(hs[i])]
<1>3. Heads(r) = g /\ Len(hs) \in Nat /\ \A i \in 1 .. Len(hs) : EncodeHeader(hs[i]) \in Seq(Sym)
  BY <1>1, <1>2 DEF Heads
<1> HIDE DEF hs
<1>4. g \in Seq(Seq(Sym)) /\ Len(g) = Len(hs)
      /\ \A i \in 1 .. Len(hs) : g[i] = EncodeHeader(hs[i])
  BY <1>3
<1> HIDE DEF g
<1> QED BY <1>1, <1>3, <1>4 DEF hs
-----------------------------------------------------------------------------
\* What is to come after a header or a line of it is symbols.
LEMMA ToComeTypes ==
  ASSUME NEW r \in Requests
  PROVE  /\ \A i \in 0 .. Len(r.headers) : AfterHeaders(r, i) \in Seq(Sym)
         /\ \A i \in 1 .. Len(r.headers) : \A l \in 0 .. Len(r.headers[i].lines) :
              AfterLine(r, i, l) \in Seq(Sym)
         /\ CrLf \o r.body \in Seq(Sym)
<1>1. CrLf \o r.body \in Seq(Sym)
  BY LineEnds, RequestTypes, Joined
<1>2. ASSUME NEW i \in 0 .. Len(r.headers) PROVE AfterHeaders(r, i) \in Seq(Sym)
  <2>1. After(Heads(r), i) \in Seq(Sym)
    BY HeadsType, AfterIs
  <2> QED BY Zenon, <1>1, <2>1, Joined DEF AfterHeaders
<1>3. ASSUME NEW i \in 1 .. Len(r.headers), NEW l \in 0 .. Len(r.headers[i].lines)
      PROVE  AfterLine(r, i, l) \in Seq(Sym)
  <2>1. After(Lines(r.headers[i]), l) \in Seq(Sym)
    BY LinesType, AfterIs
  <2>2. AfterHeaders(r, i) \in Seq(Sym)
    <3>1. i \in 0 .. Len(r.headers)
      BY RequestTypes
    <3> QED BY <3>1, <1>2
  <2> QED BY Zenon, <2>1, <2>2, Joined DEF AfterLine
<1> QED BY <1>1, <1>2, <1>3

\* After a header comes the name of the next, ...
LEMMA NextHeader ==
  ASSUME NEW r \in Requests, NEW i \in 1 .. Len(r.headers)
  PROVE  AfterHeaders(r, i - 1) = <<r.headers[i].name>> \o (<<":">> \o AfterLine(r, i, 0))
<1> DEFINE x == <<r.headers[i].name>>
           y == <<":">>
           z == FlattenSeq(Lines(r.headers[i]))
           h == After(Heads(r), i)
           e == CrLf \o r.body
<1>1. x \in Seq(Sym) /\ y \in Seq(Sym) /\ z \in Seq(Sym) /\ h \in Seq(Sym) /\ e \in Seq(Sym)
  <2>1. z \in Seq(Sym)
    BY LinesType
  <2>2. r.headers[i].name \in Sym
    BY RequestTypes
  <2>3. h \in Seq(Sym)
    <3>1. i \in 0 .. Len(Heads(r))
      BY RequestTypes, HeadsType
    <3> QED BY <3>1, HeadsType, AfterIs
  <2>4. e \in Seq(Sym)
    BY ToComeTypes
  <2> HIDE DEF z, h, e
  <2>5. x \in Seq(Sym)
    BY <2>2
  <2> QED BY <2>1, <2>3, <2>4, <2>5, LineEnds
<1>2. After(Heads(r), i - 1) = (x \o (y \o z)) \o h
  <2>1. /\ i - 1 \in 0 .. Len(Heads(r)) - 1 /\ (i - 1) + 1 = i
        /\ Heads(r) \in Seq(Seq(Sym)) /\ Heads(r)[i] = x \o (y \o z)
    <3>1. Len(r.headers) \in Nat /\ Len(Heads(r)) = Len(r.headers)
      BY RequestTypes, HeadsType
    <3>2. Heads(r) \in Seq(Seq(Sym)) /\ Heads(r)[i] = x \o (y \o z)
      BY HeadsType
    <3> QED BY <3>1, <3>2
  <2> HIDE DEF x, y, z
  <2>2. After(Heads(r), i - 1) = Heads(r)[(i - 1) + 1] \o After(Heads(r), (i - 1) + 1)
    BY <2>1, AfterNext
  <2> QED BY <2>1, <2>2
<1>3. AfterHeaders(r, i - 1) = ((x \o (y \o z)) \o h) \o e
  BY <1>2 DEF AfterHeaders
<1>4. AfterLine(r, i, 0) = z \o (h \o e)
  BY LinesType, AfterIs DEF AfterLine, AfterHeaders
<1> HIDE DEF x, y, z, h, e
<1>5. y \o z \in Seq(Sym) /\ h \o e \in Seq(Sym)
  BY Zenon, <1>1, Joined
<1>6. z \o (h \o e) \in Seq(Sym) /\ x \o (y \o z) \in Seq(Sym)
  BY Zenon, <1>1, <1>5, Joined
<1>7. ((x \o (y \o z)) \o h) \o e = (x \o (y \o z)) \o (h \o e)
  <2> DEFINE s_ == x \o (y \o z)
             t_ == h
             u_ == e
  <2>1. s_ \in Seq(Sym) /\ t_ \in Seq(Sym) /\ u_ \in Seq(Sym)
    BY <1>1, <1>6
  <2> HIDE DEF s_, t_, u_
  <2>2. (s_ \o t_) \o u_ = s_ \o (t_ \o u_)
    BY Zenon, <2>1, Associative
  <2> QED BY <2>2 DEF s_, t_, u_
<1>8. (x \o (y \o z)) \o (h \o e) = x \o ((y \o z) \o (h \o e))
  <2> DEFINE s_ == x
             t_ == y \o z
             u_ == h \o e
  <2>1. s_ \in Seq(Sym) /\ t_ \in Seq(Sym) /\ u_ \in Seq(Sym)
    BY <1>1, <1>5
  <2> HIDE DEF s_, t_, u_
  <2>2. (s_ \o t_) \o u_ = s_ \o (t_ \o u_)
    BY Zenon, <2>1, Associative
  <2> QED BY <2>2 DEF s_, t_, u_
<1>9. (y \o z) \o (h \o e) = y \o (z \o (h \o e))
  <2> DEFINE s_ == y
             t_ == z
             u_ == h \o e
  <2>1. s_ \in Seq(Sym) /\ t_ \in Seq(Sym) /\ u_ \in Seq(Sym)
    BY <1>1, <1>5
  <2> HIDE DEF s_, t_, u_
  <2>2. (s_ \o t_) \o u_ = s_ \o (t_ \o u_)
    BY Zenon, <2>1, Associative
  <2> QED BY <2>2 DEF s_, t_, u_
<1> QED BY Zenon, <1>3, <1>4, <1>7, <1>8, <1>9 DEF x, y

\* ... or, after the last, the blank line and the body.
LEMMA NoMoreHeaders ==
  ASSUME NEW r \in Requests
  PROVE  AfterHeaders(r, Len(r.headers)) = <<"\r">> \o (<<"\n">> \o r.body)
<1>1. After(Heads(r), Len(r.headers)) = <<>>
  BY HeadsType, AfterIs
<1>2. <<>> \o (CrLf \o r.body) = CrLf \o r.body
  BY ToComeTypes, Joined
<1>3. CrLf \o r.body = <<"\r">> \o (<<"\n">> \o r.body)
  BY LineEnds, RequestTypes, Associative
<1> QED BY <1>1, <1>2, <1>3 DEF AfterHeaders

\* After a line of a header comes the next, ...
LEMMA NextLine ==
  ASSUME NEW r \in Requests, NEW i \in 1 .. Len(r.headers), NEW l \in 1 .. Len(r.headers[i].lines)
  PROVE  AfterLine(r, i, l - 1)
           = <<Space>> \o (r.headers[i].lines[l] \o (CrLf \o AfterLine(r, i, l)))
<1> DEFINE x == <<Space>>
           y == r.headers[i].lines[l]
           h == After(Lines(r.headers[i]), l)
           e == AfterHeaders(r, i)
<1>1. x \in Seq(Sym) /\ y \in Seq(Sym) /\ CrLf \in Seq(Sym) /\ h \in Seq(Sym) /\ e \in Seq(Sym)
  <2>1. y \in Seq(Sym)
    BY LineTypes
  <2>2. h \in Seq(Sym)
    <3>1. Len(Lines(r.headers[i])) = Len(r.headers[i].lines) /\ Len(r.headers[i].lines) \in Nat
      BY LineTypes, LinesType
    <3>2. l \in 0 .. Len(Lines(r.headers[i]))
      BY <3>1
    <3> QED BY <3>2, LinesType, AfterIs
  <2>3. e \in Seq(Sym)
    BY RequestTypes, ToComeTypes
  <2> QED BY <2>1, <2>2, <2>3, LineEnds
<1>2. After(Lines(r.headers[i]), l - 1) = (x \o (y \o CrLf)) \o h
  <2>1. /\ l - 1 \in 0 .. Len(Lines(r.headers[i])) - 1 /\ (l - 1) + 1 = l
        /\ Lines(r.headers[i]) \in Seq(Seq(Sym))
    <3>1. Len(Lines(r.headers[i])) = Len(r.headers[i].lines) /\ Len(r.headers[i].lines) \in Nat
          /\ Lines(r.headers[i]) \in Seq(Seq(Sym))
      BY LineTypes, LinesType
    <3> QED BY <3>1
  <2>2. Lines(r.headers[i])[l] = EncodeLine(y)
    BY LinesType
  <2>3. EncodeLine(y) = x \o (y \o CrLf)
    <3> HIDE DEF y
    <3> QED BY <1>1, EncodeLineType
  <2> HIDE DEF x, y
  <2>4. After(Lines(r.headers[i]), l - 1)
          = Lines(r.headers[i])[(l - 1) + 1] \o After(Lines(r.headers[i]), (l - 1) + 1)
    BY <2>1, AfterNext
  <2> QED BY <2>1, <2>2, <2>3, <2>4
<1>3. AfterLine(r, i, l - 1) = ((x \o (y \o CrLf)) \o h) \o e
  BY <1>2 DEF AfterLine
<1>4. AfterLine(r, i, l) = h \o e
  BY DEF AfterLine
<1> HIDE DEF x, y, h, e
<1>5. y \o CrLf \in Seq(Sym) /\ h \o e \in Seq(Sym)
  BY Zenon, <1>1, Joined
<1>6. x \o (y \o CrLf) \in Seq(Sym)
  BY Zenon, <1>1, <1>5, Joined
<1>7. ((x \o (y \o CrLf)) \o h) \o e = (x \o (y \o CrLf)) \o (h \o e)
  <2> DEFINE s_ == x \o (y \o CrLf)
             t_ == h
             u_ == e
  <2>1. s_ \in Seq(Sym) /\ t_ \in Seq(Sym) /\ u_ \in Seq(Sym)
    BY <1>1, <1>6
  <2> HIDE DEF s_, t_, u_
  <2>2. (s_ \o t_) \o u_ = s_ \o (t_ \o u_)
    BY Zenon, <2>1, Associative
  <2> QED BY <2>2 DEF s_, t_, u_
<1>8. (x \o (y \o CrLf)) \o (h \o e) = x \o ((y \o CrLf) \o (h \o e))
  <2> DEFINE s_ == x
             t_ == y \o CrLf
             u_ == h \o e
  <2>1. s_ \in Seq(Sym) /\ t_ \in Seq(Sym) /\ u_ \in Seq(Sym)
    BY <1>1, <1>5
  <2> HIDE DEF s_, t_, u_
  <2>2. (s_ \o t_) \o u_ = s_ \o (t_ \o u_)
    BY Zenon, <2>1, Associative
  <2> QED BY <2>2 DEF s_, t_, u_
<1>9. (y \o CrLf) \o (h \o e) = y \o (CrLf \o (h \o e))
  <2> DEFINE s_ == y
             t_ == CrLf
             u_ == h \o e
  <2>1. s_ \in Seq(Sym) /\ t_ \in Seq(Sym) /\ u_ \in Seq(Sym)
    BY <1>1, <1>5
  <2> HIDE DEF s_, t_, u_
  <2>2. (s_ \o t_) \o u_ = s_ \o (t_ \o u_)
    BY Zenon, <2>1, Associative
  <2> QED BY <2>2 DEF s_, t_, u_
<1> QED BY Zenon, <1>3, <1>4, <1>7, <1>8, <1>9 DEF x, y

\* ... or, after its last, what comes after the header.
LEMMA NoMoreLines ==
  ASSUME NEW r \in Requests, NEW i \in 1 .. Len(r.headers)
  PROVE  AfterLine(r, i, Len(r.headers[i].lines)) = AfterHeaders(r, i)
<1>1. After(Lines(r.headers[i]), Len(r.headers[i].lines)) = <<>>
  <2> DEFINE s == Lines(r.headers[i])
  <2>1. s \in Seq(Seq(Sym)) /\ Len(s) = Len(r.headers[i].lines)
    BY LinesType
  <2> HIDE DEF s
  <2>2. After(s, Len(s)) = <<>>
    BY <2>1, AfterIs
  <2> QED BY <2>1, <2>2 DEF s
<1>2. AfterHeaders(r, i) \in Seq(Sym)
  BY RequestTypes, ToComeTypes
<1> QED BY <1>1, <1>2, Joined DEF AfterLine

\* A message is the method, a space, the URI, the version and the headers.
LEMMA Encoded ==
  ASSUME NEW r \in Requests
  PROVE  /\ Version \in Seq(Sym) /\ Version \o AfterHeaders(r, 0) \in Seq(Sym)
         /\ Encode(r) = <<r.method>> \o (<<Space>> \o (r.uri \o (Version \o AfterHeaders(r, 0))))
<1> DEFINE x == <<r.method>>
           y == <<Space>>
           u == r.uri
           v == <<Space, "H", "T", "T", "P", "/", "1", ".", "1">>
           f == FlattenSeq(Heads(r))
           b == r.body
<1>1. /\ x \in Seq(Sym) /\ y \in Seq(Sym) /\ u \in Seq(Sym) /\ v \in Seq(Sym) /\ CrLf \in Seq(Sym)
      /\ f \in Seq(Sym) /\ b \in Seq(Sym)
  <2>1. f \in Seq(Sym)
    BY HeadsType, FlattenAppend, EmptySeq
  <2>2. v \in Seq(Sym)
    <3>1. {Space, "H", "T", "P", "/", "1", "."} \subseteq Sym
      BY Symbols
    <3> QED BY <3>1
  <2>3. r.method \in Sym /\ u \in Seq(Sym) /\ b \in Seq(Sym)
    BY RequestTypes
  <2> HIDE DEF f, u, v, b
  <2>4. x \in Seq(Sym)
    BY <2>3
  <2> QED BY <2>1, <2>2, <2>3, <2>4, LineEnds
<1>2. <<r.method, Space>> = x \o y
  OBVIOUS
<1>3. Version = v \o CrLf
  BY DEF Version, CrLf
<1>4. Encode(r) = (((((x \o y) \o u) \o v) \o CrLf) \o f) \o CrLf \o b
  BY <1>2 DEF Encode, Heads
<1>5. AfterHeaders(r, 0) = f \o (CrLf \o b)
  BY HeadsType, AfterIs DEF AfterHeaders
<1> HIDE DEF x, y, u, v, f, b
<1> DEFINE w == v \o CrLf
           e == CrLf \o b
           a == f \o e
<1>6. e \in Seq(Sym) /\ w \in Seq(Sym)
  BY Zenon, <1>1, Joined
<1>7. a \in Seq(Sym)
  BY Zenon, <1>1, <1>6, Joined
<1>8. w \o a \in Seq(Sym)
  BY Zenon, <1>6, <1>7, Joined
<1>9. u \o (w \o a) \in Seq(Sym) /\ x \o y \in Seq(Sym)
  BY Zenon, <1>1, <1>8, Joined
<1>10. (x \o y) \o u \in Seq(Sym)
  BY Zenon, <1>1, <1>9, Joined
<1>11. (((x \o y) \o u) \o v) \o CrLf = ((x \o y) \o u) \o w
  <2> DEFINE s_ == (x \o y) \o u
             t_ == v
             u_ == CrLf
  <2>1. s_ \in Seq(Sym) /\ t_ \in Seq(Sym) /\ u_ \in Seq(Sym)
    BY <1>1, <1>10
  <2> HIDE DEF s_, t_, u_
  <2>2. (s_ \o t_) \o u_ = s_ \o (t_ \o u_)
    BY Zenon, <2>1, Associative
  <2> QED BY <2>2 DEF s_, t_, u_
<1>12. ((x \o y) \o u) \o w \in Seq(Sym)
  BY Zenon, <1>6, <1>10, Joined
<1>13. (((x \o y) \o u) \o w) \o f \in Seq(Sym)
  BY Zenon, <1>1, <1>12, Joined
<1>14. (((((x \o y) \o u) \o w) \o f) \o CrLf) \o b = ((((x \o y) \o u) \o w) \o f) \o e
  <2> DEFINE s_ == (((x \o y) \o u) \o w) \o f
             t_ == CrLf
             u_ == b
  <2>1. s_ \in Seq(Sym) /\ t_ \in Seq(Sym) /\ u_ \in Seq(Sym)
    BY <1>1, <1>13
  <2> HIDE DEF s_, t_, u_
  <2>2. (s_ \o t_) \o u_ = s_ \o (t_ \o u_)
    BY Zenon, <2>1, Associative
  <2> QED BY <2>2 DEF s_, t_, u_
<1>15. ((((x \o y) \o u) \o w) \o f) \o e = (((x \o y) \o u) \o w) \o a
  <2> DEFINE s_ == ((x \o y) \o u) \o w
             t_ == f
             u_ == e
  <2>1. s_ \in Seq(Sym) /\ t_ \in Seq(Sym) /\ u_ \in Seq(Sym)
    BY <1>1, <1>6, <1>12
  <2> HIDE DEF s_, t_, u_
  <2>2. (s_ \o t_) \o u_ = s_ \o (t_ \o u_)
    BY Zenon, <2>1, Associative
  <2> QED BY <2>2 DEF s_, t_, u_
<1>16. (((x \o y) \o u) \o w) \o a = ((x \o y) \o u) \o (w \o a)
  BY <1>6, <1>7, <1>10, Associative
<1>17. ((x \o y) \o u) \o (w \o a) = (x \o y) \o (u \o (w \o a))
  <2> DEFINE s_ == x \o y
             t_ == u
             u_ == w \o a
  <2>1. s_ \in Seq(Sym) /\ t_ \in Seq(Sym) /\ u_ \in Seq(Sym)
    BY <1>1, <1>8, <1>9
  <2> HIDE DEF s_, t_, u_
  <2>2. (s_ \o t_) \o u_ = s_ \o (t_ \o u_)
    BY Zenon, <2>1, Associative
  <2> QED BY <2>2 DEF s_, t_, u_
<1>18. (x \o y) \o (u \o (w \o a)) = x \o (y \o (u \o (w \o a)))
  <2> DEFINE s_ == x
             t_ == y
             u_ == u \o (w \o a)
  <2>1. s_ \in Seq(Sym) /\ t_ \in Seq(Sym) /\ u_ \in Seq(Sym)
    BY <1>1, <1>9
  <2> HIDE DEF s_, t_, u_
  <2>2. (s_ \o t_) \o u_ = s_ \o (t_ \o u_)
    BY Zenon, <2>1, Associative
  <2> QED BY <2>2 DEF s_, t_, u_
<1>19. Encode(r) = x \o (y \o (u \o (w \o a)))
  BY Zenon, <1>4, <1>11, <1>14, <1>15, <1>16, <1>17, <1>18
<1>20. Version = w /\ AfterHeaders(r, 0) = a
  BY <1>3, <1>5
<1> QED BY Zenon, <1>6, <1>8, <1>19, <1>20 DEF x, y, u
-----------------------------------------------------------------------------
\* How much of line l of a value is skipped, and the value after the first l lines
\* and after n symbols of line l.
Skipped(lines, l) == IF l = 1 THEN 0 ELSE Span(lines[l], {Space})
ValueUpTo(lines, l) == IF l = 0 THEN <<>> ELSE Value(SubSeq(lines, 1, l))
ValueSoFar(lines, l, n) ==
  ValueUpTo(lines, l - 1) \o SubSeq(lines[l], Skipped(lines, l) + 1, n)

\* The headers that the first i make.
Stored(r, i) == [k \in {Name(r, j) : j \in 1 .. i} |-> Value(r.headers[FirstNamed(r, k)].lines)]

\* The lines that continue a value, up to line l.
Continued(lines, l) == [i \in 1 .. l - 1 |-> Unspaced(lines[i + 1])]

\* Each line adds itself, without its spaces, to the value before it.
LEMMA ContinuedIs ==
  ASSUME NEW lines \in Seq(Seq(Sym)), NEW l \in 1 .. Len(lines)
  PROVE  /\ Continued(lines, l) \in Seq(Seq(Sym))
         /\ l # 1 => Continued(lines, l) = Append(Continued(lines, l - 1), Unspaced(lines[l]))
         /\ FlattenSeq(Continued(lines, l)) \in Seq(Sym)
         /\ ValueUpTo(lines, l) = lines[1] \o FlattenSeq(Continued(lines, l))
<1>1. Len(lines) \in Nat /\ l \in Nat
  OBVIOUS
<1>2. \A i \in 1 .. Len(lines) : Unspaced(lines[i]) \in Seq(Sym)
  BY UnspacedType
<1>3. ASSUME NEW n \in 1 .. Len(lines)
      PROVE  /\ Continued(lines, n) \in Seq(Seq(Sym)) /\ Len(Continued(lines, n)) = n - 1
             /\ \A i \in 1 .. n - 1 : Continued(lines, n)[i] = Unspaced(lines[i + 1])
  <2> DEFINE m == n - 1
  <2>1. m \in Nat /\ \A i \in 1 .. m : Unspaced(lines[i + 1]) \in Seq(Sym)
    BY <1>1, <1>2
  <2> HIDE DEF m
  <2>2. /\ [i \in 1 .. m |-> Unspaced(lines[i + 1])] \in Seq(Seq(Sym))
        /\ Len([i \in 1 .. m |-> Unspaced(lines[i + 1])]) = m
    BY <2>1
  <2> QED BY <2>2 DEF Continued, m
<1>4. ASSUME l # 1 PROVE Continued(lines, l) = Append(Continued(lines, l - 1), Unspaced(lines[l]))
  <2> DEFINE s == Continued(lines, l - 1)
             t == Continued(lines, l)
             x == Unspaced(lines[l])
  <2>1. l - 1 \in 1 .. Len(lines) /\ x \in Seq(Sym)
    BY <1>1, <1>2, <1>4
  <2>2. /\ s \in Seq(Seq(Sym)) /\ Len(s) = l - 2
        /\ \A i \in 1 .. l - 2 : s[i] = Unspaced(lines[i + 1])
    <3>1. (l - 1) - 1 = l - 2
      BY <1>1
    <3> QED BY <1>3, <2>1, <3>1
  <2>3. /\ t \in Seq(Seq(Sym)) /\ Len(t) = l - 1
        /\ \A i \in 1 .. l - 1 : t[i] = Unspaced(lines[i + 1])
    BY <1>3
  <2>4. t[l - 1] = x
    <3>1. l - 1 \in 1 .. l - 1 /\ (l - 1) + 1 = l
      BY <1>1, <1>4
    <3> QED BY <2>3, <3>1
  <2> HIDE DEF s, t, x
  <2>5. /\ Append(s, x) \in Seq(Seq(Sym)) /\ Len(Append(s, x)) = l - 1
        /\ \A i \in 1 .. l - 1 : Append(s, x)[i] = t[i]
    <3>1. Append(s, x) \in Seq(Seq(Sym)) /\ Len(Append(s, x)) = Len(s) + 1
          /\ \A i \in 1 .. Len(s) : Append(s, x)[i] = s[i]
          /\ Append(s, x)[Len(s) + 1] = x
      BY SMTT(30), <2>1, <2>2, AppendProperties
    <3>2. Len(s) = l - 2 /\ Len(s) + 1 = l - 1
      BY <1>1, <2>2
    <3>3. ASSUME NEW i \in 1 .. l - 1 PROVE Append(s, x)[i] = t[i]
      <4>1. CASE i = l - 1
        BY <2>4, <3>1, <3>2, <4>1
      <4>2. CASE i # l - 1
        <5>1. i \in 1 .. l - 2
          BY <1>1, <4>2
        <5> QED BY <2>2, <2>3, <3>1, <3>2, <5>1
      <4> QED BY <4>1, <4>2
    <3> QED BY <3>1, <3>2, <3>3
  <2>6. t = Append(s, x)
    BY <2>3, <2>5, SeqEqual
  <2> QED BY <2>6 DEF s, t, x
<1>5. FlattenSeq(Continued(lines, l)) \in Seq(Sym)
  BY <1>3, FlattenAppend, EmptySeq
<1>6. ValueUpTo(lines, l) = lines[1] \o FlattenSeq(Continued(lines, l))
  <2> DEFINE s == SubSeq(lines, 1, l)
  <2>1. \A i \in 1 .. l : lines[i] \in Seq(Sym)
    BY <1>1
  <2>2. s \in Seq(Seq(Sym)) /\ Len(s) = l /\ \A i \in 1 .. l : s[i] = lines[i]
    BY <1>1, <2>1, SubSeqProperties
  <2>3. ValueUpTo(lines, l) = Value(s)
    BY <1>1 DEF ValueUpTo
  <2> HIDE DEF s
  <2>4. Head(s) = lines[1]
    BY <1>1, <2>2
  <2>5. [i \in 1 .. Len(s) - 1 |-> Unspaced(s[i + 1])] = Continued(lines, l)
    <3>1. \A i \in 1 .. l - 1 : s[i + 1] = lines[i + 1]
      BY <1>1, <2>2
    <3> QED BY <2>2, <3>1 DEF Continued
  <2> QED BY <2>3, <2>4, <2>5 DEF Value
<1> QED BY <1>3, <1>4, <1>5, <1>6

\* A line adds to the value what it does not skip of itself, ...
LEMMA ValueLine ==
  ASSUME NEW lines \in Seq(Seq(Sym)), NEW l \in 1 .. Len(lines)
  PROVE  /\ ValueUpTo(lines, l - 1) \in Seq(Sym) /\ ValueUpTo(lines, l) \in Seq(Sym)
         /\ Skipped(lines, l) \in 0 .. Len(lines[l])
         /\ ValueUpTo(lines, l)
              = ValueUpTo(lines, l - 1) \o SubSeq(lines[l], Skipped(lines, l) + 1, Len(lines[l]))
<1>1. /\ Len(lines) \in Nat /\ l \in Nat /\ \A i \in 1 .. Len(lines) : lines[i] \in Seq(Sym)
      /\ lines[1] \in Seq(Sym) /\ lines[l] \in Seq(Sym)
  OBVIOUS
<1>2. ASSUME NEW i \in 1 .. Len(lines) PROVE ValueUpTo(lines, i) \in Seq(Sym)
  <2> DEFINE f == FlattenSeq(Continued(lines, i))
             y == lines[1]
  <2>1. f \in Seq(Sym) /\ y \in Seq(Sym) /\ ValueUpTo(lines, i) = y \o f
    BY <1>1, ContinuedIs
  <2> HIDE DEF f, y
  <2>2. y \o f \in Seq(Sym)
    BY Zenon, <2>1, Joined
  <2> QED BY <2>1, <2>2
<1>3. CASE l = 1
  <2>1. Continued(lines, 1) = <<>>
    <3>1. 1 .. 1 - 1 = {}
      OBVIOUS
    <3> QED BY <3>1 DEF Continued
  <2>2. ValueUpTo(lines, 1) = lines[1]
    <3>1. ValueUpTo(lines, 1) = lines[1] \o FlattenSeq(Continued(lines, 1))
      BY <1>3, ContinuedIs
    <3>2. lines[1] \o <<>> = lines[1]
      BY <1>1, Joined
    <3> QED BY <2>1, <3>1, <3>2, FlattenEmpty
  <2>3. ValueUpTo(lines, 0) = <<>> /\ Skipped(lines, 1) = 0
    BY DEF ValueUpTo, Skipped
  <2>4. SubSeq(lines[1], 0 + 1, Len(lines[1])) = lines[1] /\ <<>> \o lines[1] = lines[1]
    BY <1>1, SubSeqFull, Joined
  <2>5. Len(lines[1]) \in Nat /\ <<>> \in Seq(Sym)
    BY <1>1
  <2>6. l - 1 = 0
    BY <1>3
  <2>7. ValueUpTo(lines, l - 1) = <<>> /\ Skipped(lines, l) = 0 /\ lines[l] = lines[1]
        /\ ValueUpTo(lines, l) = lines[1]
    BY <1>3, <2>2, <2>3, <2>6
  <2>8. 0 \in 0 .. Len(lines[l])
    BY <2>5, <2>7
  <2>9. <<>> \o SubSeq(lines[l], Skipped(lines, l) + 1, Len(lines[l])) = lines[1]
    BY <2>4, <2>7
  <2> QED BY Zenon, <1>1, <2>5, <2>7, <2>8, <2>9
<1>4. CASE l # 1
  <2>1. l - 1 \in 1 .. Len(lines)
    BY <1>1, <1>4
  <2> DEFINE s == Continued(lines, l - 1)
             x == Unspaced(lines[l])
             y == lines[1]
  <2>2. s \in Seq(Seq(Sym)) /\ x \in Seq(Sym) /\ y \in Seq(Sym) /\ Continued(lines, l) = Append(s, x)
        /\ ValueUpTo(lines, l - 1) = y \o FlattenSeq(s)
        /\ ValueUpTo(lines, l) = y \o FlattenSeq(Append(s, x))
    BY <1>1, <1>4, <2>1, ContinuedIs, UnspacedType
  <2> HIDE DEF s, x, y
  <2>3. FlattenSeq(s) \in Seq(Sym) /\ FlattenSeq(Append(s, x)) = FlattenSeq(s) \o x
    BY <2>2, FlattenAppend
  <2>4. (y \o FlattenSeq(s)) \o x = y \o (FlattenSeq(s) \o x)
    BY Zenon, <2>2, <2>3, Associative
  <2>5. x = SubSeq(lines[l], Skipped(lines, l) + 1, Len(lines[l]))
    BY <1>4 DEF x, Unspaced, Skipped
  <2>6. Skipped(lines, l) \in 0 .. Len(lines[l])
    BY <1>1, <1>4, Spanned DEF Skipped
  <2>7. ValueUpTo(lines, l) = ValueUpTo(lines, l - 1) \o x
    BY Zenon, <2>2, <2>3, <2>4
  <2> QED BY <1>2, <2>1, <2>5, <2>6, <2>7
<1> QED BY <1>3, <1>4

\* ... and it does so symbol by symbol.
LEMMA ValueGrows ==
  ASSUME NEW lines \in Seq(Seq(Sym)), NEW l \in 1 .. Len(lines), NEW n \in 0 .. Len(lines[l])
  PROVE  /\ n <= Skipped(lines, l) => ValueSoFar(lines, l, n) = ValueUpTo(lines, l - 1)
         /\ n = Len(lines[l]) => ValueSoFar(lines, l, n) = ValueUpTo(lines, l)
         /\ n < Len(lines[l]) /\ n >= Skipped(lines, l)
              => ValueSoFar(lines, l, n + 1) = Append(ValueSoFar(lines, l, n), lines[l][n + 1])
<1> DEFINE v == ValueUpTo(lines, l - 1)
           k == Skipped(lines, l)
           s == lines[l]
<1>1. v \in Seq(Sym) /\ k \in 0 .. Len(s) /\ s \in Seq(Sym)
  BY ValueLine
<1>2. ValueUpTo(lines, l) = v \o SubSeq(s, k + 1, Len(s))
  BY ValueLine
<1>3. \A m : ValueSoFar(lines, l, m) = v \o SubSeq(s, k + 1, m)
  BY DEF ValueSoFar
<1>4. n \in 0 .. Len(s)
  OBVIOUS
<1> HIDE DEF v, k, s
<1>5. k \in Nat /\ n \in Nat /\ Len(s) \in Nat /\ k + 1 \in Int
  BY <1>1, <1>4
<1>6. ASSUME n <= k PROVE v \o SubSeq(s, k + 1, n) = v
  <2>1. SubSeq(s, k + 1, n) = <<>>
    BY <1>1, <1>5, <1>6, SubSeqEmpty
  <2> QED BY <1>1, <2>1, Joined
<1>7. ASSUME n < Len(s), n >= k
      PROVE  v \o SubSeq(s, k + 1, n + 1) = Append(v \o SubSeq(s, k + 1, n), s[n + 1])
  <2> DEFINE p == n + 1
             a == SubSeq(s, k + 1, n)
             x == s[p]
  <2>1. k + 1 \in 1 .. Len(s) /\ p \in k + 1 .. Len(s) /\ p - 1 = n
    BY <1>1, <1>5, <1>7
  <2>2. \A i \in k + 1 .. n : s[i] \in Sym
    BY <1>1, <1>5, <1>7
  <2>3. a \in Seq(Sym)
    BY <1>1, <1>5, <2>2, SubSeqProperties
  <2>4. x \in Sym
    BY <1>1, <1>5, <2>1
  <2> HIDE DEF p
  <2>5. SubSeq(s, k + 1, p) = SubSeq(s, k + 1, p - 1) \o <<s[p]>>
    BY <1>1, <2>1, SubSeqRecursiveSecond
  <2>6. SubSeq(s, k + 1, p) = a \o <<x>>
    BY <2>1, <2>5
  <2> HIDE DEF a, x
  <2>7. (v \o a) \o <<x>> = v \o (a \o <<x>>)
    <3> DEFINE t == <<x>>
    <3>1. t \in Seq(Sym)
      BY <2>4
    <3> HIDE DEF t
    <3>2. (v \o a) \o t = v \o (a \o t)
      BY ZenonT(60), <1>1, <2>3, <3>1, Associative
    <3> QED BY <3>2 DEF t
  <2>8. v \o a \in Seq(Sym)
    BY Zenon, <1>1, <2>3, Joined
  <2>9. Append(v \o a, x) = (v \o a) \o <<x>>
    <3> DEFINE t == v \o a
    <3>1. t \in Seq(Sym)
      BY <2>8
    <3> HIDE DEF t
    <3>2. Append(t, x) = t \o <<x>>
      BY <2>4, <3>1, AppendIsConcat
    <3> QED BY <3>2 DEF t
  <2> QED BY <2>6, <2>7, <2>9 DEF p, a, x
<1> QED BY <1>2, <1>3, <1>6, <1>7 DEF v, k, s

\* With the last line the value is what the header means.
LEMMA ValueAll ==
  ASSUME NEW lines \in Seq(Seq(Sym)), Len(lines) >= 1
  PROVE  ValueUpTo(lines, Len(lines)) = Value(lines) /\ ValueUpTo(lines, 0) = <<>>
<1>1. SubSeq(lines, 1, Len(lines)) = lines
  BY SubSeqFull
<1>2. Len(lines) # 0
  OBVIOUS
<1>3. ValueUpTo(lines, Len(lines)) = Value(SubSeq(lines, 1, Len(lines)))
  BY Zenon, <1>2 DEF ValueUpTo
<1>4. ValueUpTo(lines, 0) = <<>>
  BY Zenon DEF ValueUpTo
<1> QED BY Zenon, <1>1, <1>3, <1>4
-----------------------------------------------------------------------------
\* No header makes no map, and all of them make the one that is meant.
LEMMA StoredIs ==
  ASSUME NEW r \in Requests
  PROVE  /\ Stored(r, 0) = <<>> /\ Stored(r, Len(r.headers)) = Meant(r)
         /\ \A i \in 1 .. Len(r.headers) : DOMAIN Stored(r, i) # {}
<1>1. Stored(r, 0) = <<>>
  <2>1. {Name(r, j) : j \in 1 .. 0} = {}
    OBVIOUS
  <2>2. \A f, g : f = [k \in {} |-> f[k]] /\ g = [k \in {} |-> g[k]] => f = g
    OBVIOUS
  <2>3. <<>> = [k \in {} |-> <<>>[k]]
    OBVIOUS
  <2> QED BY <2>1, <2>2, <2>3 DEF Stored
<1>2. Stored(r, Len(r.headers)) = Meant(r)
  BY DEF Stored, Meant
<1>3. ASSUME NEW i \in 1 .. Len(r.headers) PROVE DOMAIN Stored(r, i) # {}
  <2>1. i \in 1 .. i
    BY RequestTypes
  <2> QED BY <2>1 DEF Stored
<1> QED BY <1>1, <1>2, <1>3

\* Inserting a header keeps the first of its name, as the meaning does.
LEMMA StoresIt ==
  ASSUME NEW r \in Requests, NEW i \in 1 .. Len(r.headers)
  PROVE  Insert(Stored(r, i - 1), Name(r, i), Value(r.headers[i].lines)) = Stored(r, i)
<1> DEFINE before == {Name(r, j) : j \in 1 .. i - 1}
           upTo == {Name(r, j) : j \in 1 .. i}
           v(k) == Value(r.headers[FirstNamed(r, k)].lines)
<1>1. i \in Nat /\ Len(r.headers) \in Nat /\ i \in 1 .. i
  BY RequestTypes
<1>2. upTo = before \cup {Name(r, i)}
  <2>1. 1 .. i = (1 .. i - 1) \cup {i}
    BY <1>1
  <2> QED BY <2>1
<1>3. ASSUME Name(r, i) \notin before PROVE FirstNamed(r, Name(r, i)) = i
  <2> DEFINE P(m) == m \in 1 .. Len(r.headers) /\ Name(r, m) = Name(r, i)
                       /\ \A j \in 1 .. m - 1 : Name(r, j) # Name(r, i)
  <2>1. P(i)
    BY <1>3
  <2>2. ASSUME NEW m, P(m) PROVE m = i
    <3>1. m \in Nat /\ m \in 1 .. Len(r.headers)
      BY <2>2
    <3>2. CASE m < i
      <4>1. m \in 1 .. i - 1
        BY <1>1, <3>1, <3>2
      <4> QED BY <1>3, <2>2, <4>1
    <3>3. CASE m > i
      <4>1. i \in 1 .. m - 1
        BY <1>1, <3>1, <3>3
      <4> QED BY <2>2, <4>1
    <3> QED BY <1>1, <3>1, <3>2, <3>3
  <2>3. FirstNamed(r, Name(r, i)) = CHOOSE m : P(m)
    BY DEF FirstNamed
  <2> HIDE DEF P
  <2> QED BY <2>1, <2>2, <2>3
<1>4. Stored(r, i - 1) = [k \in before |-> v(k)] /\ Stored(r, i) = [k \in upTo |-> v(k)]
  BY DEF Stored
<1>5. Name(r, i) \notin before => Value(r.headers[i].lines) = v(Name(r, i))
  BY <1>3
<1> HIDE DEF before, upTo, v
<1>6. Insert([k \in before |-> v(k)], Name(r, i), Value(r.headers[i].lines))
        = [k \in before \cup {Name(r, i)} |-> v(k)]
  BY <1>5 DEF Insert
<1> QED BY <1>2, <1>4, <1>6
-----------------------------------------------------------------------------
\* What the parser has yet to consume, and what it holds while it does: no header,
\* or i - 1 that are stored and one that is not.
toCome == buffer \o wire
NoHeaders == headers = <<>> /\ header_key_ = <<>>
Holds(r, i, value) ==
  /\ uri = UrlDecode(r.uri)
  /\ headers = Stored(r, i - 1) /\ header_key_ = Name(r, i) /\ header_val_ = value

\* The stages of reading the header of r: a place in the message, the state of the
\* parser there and what it has made of the symbols before.
AtStart(r) ==
  /\ state = "METHOD_START" /\ method_ = <<>> /\ uri = <<>> /\ NoHeaders
  /\ toCome = Encode(r)
AfterMethod(r) ==
  /\ state = "METHOD" /\ method_ = <<r.method>> /\ uri = <<>> /\ NoHeaders
  /\ toCome = <<Space>> \o (r.uri \o (Version \o AfterHeaders(r, 0)))
InUri(r, n) ==
  /\ state = "URI" /\ n \in 0 .. Len(r.uri) /\ uri = SubSeq(r.uri, 1, n) /\ NoHeaders
  /\ toCome = Rest(r.uri, n) \o (Version \o AfterHeaders(r, 0))
InVersion(r, n) ==
  /\ n \in 1 .. 10 /\ state = VersionState[n] /\ uri = UrlDecode(r.uri) /\ NoHeaders
  /\ toCome = Rest(Version, n) \o AfterHeaders(r, 0)
AtFirstLine(r) ==
  /\ state = "HEADER_LINE_START" /\ uri = UrlDecode(r.uri) /\ NoHeaders
  /\ toCome = AfterHeaders(r, 0)
AfterName(r, i) ==
  /\ i \in 1 .. Len(r.headers)
  /\ state = "HEADER_NAME" /\ Holds(r, i, <<>>)
  /\ toCome = <<":">> \o AfterLine(r, i, 0)
AfterColon(r, i) ==
  /\ i \in 1 .. Len(r.headers)
  /\ state = "SPACE_BEFORE_HEADER_VALUE" /\ Holds(r, i, <<>>)
  /\ toCome = AfterLine(r, i, 0)
InLine(r, i, l, n) ==
  /\ i \in 1 .. Len(r.headers) /\ l \in 1 .. Len(r.headers[i].lines)
  /\ n \in 0 .. Len(r.headers[i].lines[l])
  /\ state = IF l # 1 /\ n <= Skipped(r.headers[i].lines, l) THEN "HEADER_LWS" ELSE "HEADER_VALUE"
  /\ Holds(r, i, ValueSoFar(r.headers[i].lines, l, n))
  /\ toCome = Rest(r.headers[i].lines[l], n) \o (CrLf \o AfterLine(r, i, l))
AfterReturn(r, i, l) ==
  /\ i \in 1 .. Len(r.headers) /\ l \in 1 .. Len(r.headers[i].lines)
  /\ state = "EXPECTING_NEWLINE_2" /\ Holds(r, i, ValueUpTo(r.headers[i].lines, l))
  /\ toCome = <<"\n">> \o AfterLine(r, i, l)
AtLine(r, i, l) ==
  /\ i \in 1 .. Len(r.headers) /\ l \in 1 .. Len(r.headers[i].lines)
  /\ state = "HEADER_LINE_START" /\ Holds(r, i, ValueUpTo(r.headers[i].lines, l))
  /\ toCome = AfterLine(r, i, l)
AtEnd(r) ==
  LET i == Len(r.headers)
  IN  /\ state = "EXPECTING_NEWLINE_3" /\ toCome = <<"\n">> \o r.body
      /\ IF i = 0 THEN uri = UrlDecode(r.uri) /\ NoHeaders
                  ELSE Holds(r, i, Value(r.headers[i].lines))

\* The parser is in one of them.
Stage(r) ==
  \/ AtStart(r) \/ AfterMethod(r) \/ AtFirstLine(r) \/ AtEnd(r)
  \/ \E n \in 0 .. Len(r.uri) : InUri(r, n)
  \/ \E n \in 1 .. 10 : InVersion(r, n)
  \/ \E i \in 1 .. Len(r.headers) :
       \/ AfterName(r, i) \/ AfterColon(r, i)
       \/ \E l \in 1 .. Len(r.headers[i].lines) :
            \/ AtLine(r, i, l) \/ AfterReturn(r, i, l)
            \/ \E n \in 0 .. Len(r.headers[i].lines[l]) : InLine(r, i, l, n)

\* It reads the header, or waits for more of it.
InHeader(r) ==
  /\ phase \in {"header", "reading"} /\ body = <<>>
  /\ phase = "reading" => buffer = <<>>
  /\ Stage(r)

\* It has read the header and reads the body, or has decided.
Length(r) == Announced(Meant(r)[ContentLength])

\* A body gets a symbol too many only if the read that filled buffer_ had the end of
\* the method and of the header; then it is the first of the body.
Extra(r) == IF MayOverrun(r) THEN 1 ELSE 0
OverrunsOnce(r) == Len(body) + Len(toCome) <= Len(r.body) /\ (Announces(r) => MayOverrun(r))

\* What is to come of the body of a proper request is text, and enough.
Pending(r) == CString(toCome) = toCome /\ Len(r.body) <= Len(body) + Len(toCome)

InBody(r) ==
  /\ state = "CONTENT_BODY" /\ uri = UrlDecode(r.uri) /\ headers = Meant(r)
  /\ phase \in {"payload", "reading", "good", "bad", "threw"}
  /\ Len(body) + Len(toCome) <= Len(r.body) + Extra(r)
  /\ phase = "payload" /\ Overrun # <<>> => OverrunsOnce(r)
  /\ Proper(r) => phase # "threw" /\ (Announces(r) => Pending(r))
  /\ Proper(r) /\ ~MayOverrun(r) => body \o toCome = r.body /\ phase # "bad"
  /\ phase = "reading" => buffer = <<>> /\ Announces(r) /\ Len(body) < Length(r)
  /\ phase = "good" /\ Announces(r) => Len(body) = Length(r)
  /\ phase = "bad" => Announces(r) /\ Len(body) > Length(r)
  /\ phase \in {"good", "bad", "threw"} => buffer = <<>>

\* The method is known once its space is read, and a read that fills buffer_ may
\* overwrite it. Such a read leaves symbols on the wire or comes after one, so that
\* the message is longer than buffer_.
MethodKept(r) ==
  IF state \in {"METHOD_START", "METHOD"} THEN method = "indeterminate"
  ELSE method = MethodType(<<r.method>>) \/ (method = "GET" /\ Len(message) > BufSize)

\* The symbols that are left are fewer than the message once its first is consumed.
Consumed == Len(buffer) + Len(wire) + (IF state = "METHOD_START" THEN 0 ELSE 1) <= Len(message)

\* A read that filled buffer_ was that long; if it had the end of the method, then at
\* most the first symbol of the message was read before it.
Filled ==
  full => /\ Len(wire) + BufSize <= Len(message)
          /\ method # "GET" => Len(message) <= Len(wire) + BufSize + 1

\* The parser reads the message of r as it is meant.
OnTrackOf(r) == Consumed /\ MethodKept(r) /\ Filled /\ (InHeader(r) \/ InBody(r))

\* Inductive invariant: the parser is on track for every readable request that is
\* sent without a fault.
OnTrack ==
  /\ sent \in Requests
  /\ \A r \in Requests : sent = r /\ message = Encode(r) /\ Readable(r) => OnTrackOf(r)

\* What the type invariant says of what is to come.
LEMMA Typed ==
  ASSUME TypeOK
  PROVE  buffer \in Seq(Sym) /\ wire \in Seq(Sym) /\ toCome \in Seq(Sym) /\ body \in Seq(Sym)
         /\ Len(buffer) \in Nat /\ Len(wire) \in Nat /\ Len(toCome) = Len(buffer) + Len(wire)
  BY ConcatProperties DEF TypeOK, toCome

\* What a symbol that is accepted does.
LEMMA Effect ==
  ASSUME TypeOK, ConsumeHeader, NEW c \in Sym, NEW t \in Seq(Sym), toCome = <<c>> \o t,
         NEW q \in Paths, q.from = state, c \in q.on,
         q.to = "HTTP_VERSION_H" => ValidUri(UrlDecode(uri)),
         q.to = "HEADER_LWS" /\ q.from = "HEADER_LINE_START" => DOMAIN headers # {}
  PROVE  /\ toCome' = t /\ state' = q.to /\ Collect(c)
         /\ phase' = IF state = "EXPECTING_NEWLINE_3" THEN "payload" ELSE "header"
         /\ method' = IF state = "METHOD" /\ c = Space THEN MethodType(method_) ELSE method
         /\ uri' = CASE state = "URI" /\ c = Space -> UrlDecode(uri)
                     [] state = "URI" /\ c \in Visible -> Append(uri, c)
                     [] OTHER -> uri
         /\ headers' = IF Stores(c) THEN Insert(headers, header_key_, header_val_) ELSE headers
         /\ body' = body
<1>1. buffer \in Seq(Sym) /\ wire \in Seq(Sym) /\ buffer # <<>> /\ buffer \o wire = <<c>> \o t
  BY Typed DEF ConsumeHeader, toCome
<1>2. Head(buffer) = c /\ Tail(buffer) \o wire = t
  <2>1. Head(buffer \o wire) = Head(buffer) /\ Tail(buffer \o wire) = Tail(buffer) \o wire
    BY <1>1, HeadTailJoined
  <2>2. Head(<<c>> \o t) = c /\ Tail(<<c>> \o t) = t
    BY HeadTailJoined
  <2> QED BY <1>1, <2>1, <2>2
<1>3. toCome' = t
  BY <1>2 DEF ConsumeHeader, toCome
<1>4. /\ Collect(c) /\ state' = q.to
      /\ phase' = IF state = "EXPECTING_NEWLINE_3" THEN "payload" ELSE "header"
  BY <1>2, Moves
<1> QED BY <1>2, <1>3, <1>4 DEF ConsumeHeader

\* The method is read, ...
LEMMA FromStart ==
  ASSUME TypeOK, ConsumeHeader, NEW r \in Requests, AtStart(r)
  PROVE  AfterMethod(r)' /\ phase' = "header" /\ body' = body /\ method' = method
<1> DEFINE q == Path("METHOD_START", Token, "METHOD")
           c == r.method
           t == <<Space>> \o (r.uri \o (Version \o AfterHeaders(r, 0)))
<1>1. q \in Paths /\ q.from = "METHOD_START" /\ q.on = Token /\ q.to = "METHOD"
  BY DEF Paths, TargetPaths, Path
<1>2. c \in Sym /\ c \in Token /\ t \in Seq(Sym)
  BY RequestTypes, Encoded, LineEnds, Joined
<1>3. toCome = <<c>> \o t /\ state = "METHOD_START"
  BY Encoded DEF AtStart
<1> HIDE DEF q, c, t
<1>4. /\ toCome' = t /\ state' = "METHOD" /\ Collect(c) /\ phase' = "header" /\ method' = method
      /\ uri' = uri /\ headers' = headers /\ body' = body
  BY <1>1, <1>2, <1>3, Effect DEF Stores
<1>5. method_' = Append(<<>>, c) /\ header_key_' = <<>>
  BY <1>2, <1>3, <1>4, Symbols DEF Collect, AtStart, NoHeaders
<1> QED BY <1>4, <1>5 DEF AfterMethod, AtStart, NoHeaders, c, t

\* ... the space after it, ...
LEMMA FromMethod ==
  ASSUME TypeOK, ConsumeHeader, NEW r \in Requests, AfterMethod(r)
  PROVE  InUri(r, 0)' /\ phase' = "header" /\ body' = body /\ method' = MethodType(<<r.method>>)
<1> DEFINE q == Path("METHOD", {Space}, "URI")
           t == r.uri \o (Version \o AfterHeaders(r, 0))
<1>1. q \in Paths /\ q.from = "METHOD" /\ q.on = {Space} /\ q.to = "URI"
  BY DEF Paths, TargetPaths, Path
<1>2. Space \in Sym /\ t \in Seq(Sym)
  BY RequestTypes, Encoded, Symbols, Joined
<1>3. toCome = <<Space>> \o t /\ state = "METHOD"
  BY DEF AfterMethod
<1> HIDE DEF q, t
<1>4. /\ toCome' = t /\ state' = "URI" /\ Collect(Space) /\ phase' = "header"
      /\ method' = MethodType(<<r.method>>) /\ uri' = uri /\ headers' = headers /\ body' = body
  BY <1>1, <1>2, <1>3, Effect DEF Stores, AfterMethod
<1>5. header_key_' = <<>>
  BY <1>3, <1>4, Symbols DEF Collect, AfterMethod, NoHeaders
<1>6. SubSeq(r.uri, 1, 0) = <<>> /\ Rest(r.uri, 0) = r.uri /\ Len(r.uri) \in Nat
  BY RequestTypes, RestIs, SubSeqEmpty
<1>7. uri' = SubSeq(r.uri, 1, 0) /\ headers' = <<>>
  BY <1>4, <1>6 DEF AfterMethod, NoHeaders
<1>8. toCome' = Rest(r.uri, 0) \o (Version \o AfterHeaders(r, 0))
  BY <1>4, <1>6 DEF t
<1>9. 0 \in 0 .. Len(r.uri)
  BY <1>6
<1> QED BY Zenon, <1>4, <1>5, <1>7, <1>8, <1>9 DEF InUri, NoHeaders

\* ... the URI, whose last symbol decodes it, ...
LEMMA FromUri ==
  ASSUME TypeOK, ConsumeHeader, NEW r \in Requests, Readable(r), NEW n \in 0 .. Len(r.uri), InUri(r, n)
  PROVE  /\ InVersion(r, 1)' \/ (n + 1 \in 0 .. Len(r.uri) /\ InUri(r, n + 1)')
         /\ phase' = "header" /\ body' = body /\ method' = method
<1> DEFINE e == Version \o AfterHeaders(r, 0)
<1>1. e \in Seq(Sym) /\ r.uri \in Seq(Sym) /\ r.uri \in Seq(Visible) /\ Len(r.uri) \in Nat
  <2>1. r.uri \in Seq(Sym) /\ r.uri \in Seq(Visible)
    BY RequestTypes
  <2>2. e \in Seq(Sym)
    BY Encoded
  <2>3. Len(r.uri) \in Nat
    BY <2>1, LenProperties
  <2> QED BY <2>1, <2>2, <2>3
<1>2. state = "URI" /\ toCome = Rest(r.uri, n) \o e /\ uri = SubSeq(r.uri, 1, n) /\ NoHeaders
  BY DEF InUri
<1>3. CASE n = Len(r.uri)
  <2> DEFINE q == Path("URI", {Space}, "HTTP_VERSION_H")
             t == Rest(Version, 1) \o AfterHeaders(r, 0)
  <2>1. q \in Paths /\ q.from = "URI" /\ q.on = {Space} /\ q.to = "HTTP_VERSION_H"
    BY DEF Paths, TargetPaths, Path
  <2>2. /\ Version \in Seq(Sym) /\ 0 \in 0 .. Len(Version) - 1 /\ Version[0 + 1] = Space
        /\ 0 + 1 = 1 /\ AfterHeaders(r, 0) \in Seq(Sym)
    <3>1. Len(Version) = 11 /\ Version[1] = Space
      BY DEF Version
    <3>2. 0 \in 0 .. Len(r.headers)
      BY RequestTypes
    <3>3. Version \in Seq(Sym)
      BY Encoded
    <3>4. AfterHeaders(r, 0) \in Seq(Sym)
      BY <3>2, ToComeTypes
    <3>5. 0 + 1 = 1 /\ 0 \in 0 .. 11 - 1
      OBVIOUS
    <3> QED BY <3>1, <3>3, <3>4, <3>5
  <2>3. e = <<Space>> \o t /\ t \in Seq(Sym) /\ Space \in Sym
    <3>1. Rest(Version, 0) \o AfterHeaders(r, 0)
            = <<Version[0 + 1]>> \o (Rest(Version, 0 + 1) \o AfterHeaders(r, 0))
          /\ Rest(Version, 0 + 1) \in Seq(Sym)
      BY <2>2, RestNext
    <3>2. Rest(Version, 0) = Version
      BY <2>2, RestIs
    <3>3. t \in Seq(Sym)
      BY <2>2, <3>1, Joined
    <3> QED BY <2>2, <3>1, <3>2, <3>3, Symbols
  <2>4. toCome = <<Space>> \o t /\ uri = r.uri
    <3>1. Rest(r.uri, n) = <<>> /\ SubSeq(r.uri, 1, n) = r.uri
      BY <1>1, <1>3, RestIs, SubSeqFull
    <3>2. <<>> \o e = e
      BY <1>1, Joined
    <3> QED BY <1>2, <2>3, <3>1, <3>2
  <2>5. ValidUri(UrlDecode(uri))
    BY <2>4 DEF Readable
  <2> HIDE DEF q, t, e
  <2>6. /\ toCome' = t /\ state' = "HTTP_VERSION_H" /\ Collect(Space) /\ phase' = "header"
        /\ method' = method /\ uri' = UrlDecode(uri) /\ headers' = headers /\ body' = body
    <3>1. ~Stores(Space)
      BY <1>2 DEF Stores
    <3>2. q.from = state /\ Space \in q.on
          /\ (q.to = "HEADER_LWS" /\ q.from = "HEADER_LINE_START" => DOMAIN headers # {})
      BY <1>2, <2>1
    <3>3. /\ toCome' = t /\ state' = q.to /\ Collect(Space)
          /\ phase' = IF state = "EXPECTING_NEWLINE_3" THEN "payload" ELSE "header"
          /\ method' = IF state = "METHOD" /\ Space = Space THEN MethodType(method_) ELSE method
          /\ uri' = CASE state = "URI" /\ Space = Space -> UrlDecode(uri)
                      [] state = "URI" /\ Space \in Visible -> Append(uri, Space)
                      [] OTHER -> uri
          /\ headers' = IF Stores(Space) THEN Insert(headers, header_key_, header_val_) ELSE headers
          /\ body' = body
      BY <2>1, <2>3, <2>4, <2>5, <3>2, Effect
    <3> QED BY <1>2, <2>1, <3>1, <3>3, Symbols
  <2>7. header_key_' = header_key_
    BY <1>2, <2>6, Symbols DEF Collect
  <2>8. VersionState[1] = "HTTP_VERSION_H"
    BY DEF VersionState
  <2> QED BY <1>2, <2>4, <2>6, <2>7, <2>8 DEF InVersion, NoHeaders, t
<1>4. CASE n # Len(r.uri)
  <2> DEFINE q == Path("URI", Visible, "URI")
             c == r.uri[n + 1]
             t == Rest(r.uri, n + 1) \o e
  <2>1. q \in Paths /\ q.from = "URI" /\ q.on = Visible /\ q.to = "URI"
    BY DEF Paths, TargetPaths, Path
  <2>2. n \in 0 .. Len(r.uri) - 1 /\ n + 1 \in 1 .. Len(r.uri) /\ c \in Visible
    BY <1>1, <1>4
  <2> HIDE DEF e
  <2>3. toCome = <<c>> \o t /\ c \in Sym /\ t \in Seq(Sym)
    <3>1. /\ Rest(r.uri, n) \o e = <<c>> \o t
          /\ Rest(r.uri, n + 1) \in Seq(Sym) /\ c \in Sym
      BY <1>1, <2>2, RestNext
    <3> QED BY <1>1, <1>2, <3>1, Joined
  <2> HIDE DEF q, t, c
  <2>4. /\ toCome' = t /\ state' = "URI" /\ Collect(c) /\ phase' = "header"
        /\ method' = method /\ uri' = Append(uri, c) /\ headers' = headers /\ body' = body
    BY <1>2, <2>1, <2>2, <2>3, Effect, Symbols DEF Stores
  <2>5. header_key_' = header_key_
    BY <1>2, <2>4, Symbols DEF Collect
  <2>6. Append(uri, c) = SubSeq(r.uri, 1, n + 1)
    <3> DEFINE p == n + 1
    <3>1. /\ p \in 1 .. Len(r.uri) /\ 1 \in 1 .. Len(r.uri) /\ p - 1 = n /\ c = r.uri[p]
          /\ 1 \in Int /\ n \in Int
      BY <1>1, <2>2 DEF c
    <3>2. SubSeq(r.uri, 1, n) \in Seq(Sym)
      <4>1. \A i \in 1 .. n : r.uri[i] \in Sym
        BY <1>1, <2>2
      <4> QED BY <1>1, <3>1, <4>1, SubSeqProperties
    <3> HIDE DEF p
    <3>3. SubSeq(r.uri, 1, p) = SubSeq(r.uri, 1, p - 1) \o <<r.uri[p]>>
      BY <1>1, <3>1, SubSeqRecursiveSecond
    <3>4. Append(uri, c) = uri \o <<c>>
      BY <1>2, <2>3, <3>2, AppendIsConcat
    <3> QED BY <1>2, <3>1, <3>3, <3>4 DEF p
  <2>7. n + 1 \in 0 .. Len(r.uri)
    BY <1>1, <2>2
  <2> QED BY <1>2, <2>4, <2>5, <2>6, <2>7 DEF InUri, NoHeaders, t, e
<1> QED BY <1>3, <1>4
-----------------------------------------------------------------------------
\* The version is read along one path, symbol by symbol.
LEMMA VersionPath ==
  ASSUME NEW n \in 1 .. 10
  PROVE  /\ VersionState[n] \in VersionFrom
         /\ \E q \in Paths : /\ q.from = VersionState[n] /\ Version[n + 1] \in q.on
                             /\ q.to = IF n = 10 THEN "HEADER_LINE_START" ELSE VersionState[n + 1]
<1> DEFINE To(m) == IF m = 10 THEN "HEADER_LINE_START" ELSE VersionState[m + 1]
           on == <<{"H"}, {"T"}, {"T"}, {"P"}, {"/"}, Digit, {"."}, Digit, {"\r"}, {"\n"}>>
           q == Path(VersionState[n], on[n], To(n))
<1>1. n \in {1, 2, 3, 4, 5, 6, 7, 8, 9, 10}
  OBVIOUS
<1>2. VersionState[n] \in VersionFrom
  BY <1>1 DEF VersionState, VersionFrom
<1>3. Version[n + 1] \in on[n]
  BY <1>1, Symbols DEF Version
<1>4. q \in VersionPaths
  <2>1. CASE n = 1
    <3>1. VersionState[n] = "HTTP_VERSION_H" /\ on[n] = {"H"} /\ To(n) = "HTTP_VERSION_T_1"
      BY <2>1 DEF VersionState
    <3> QED BY <3>1 DEF VersionPaths
  <2>2. CASE n = 2
    <3>1. VersionState[n] = "HTTP_VERSION_T_1" /\ on[n] = {"T"} /\ To(n) = "HTTP_VERSION_T_2"
      BY <2>2 DEF VersionState
    <3> QED BY <3>1 DEF VersionPaths
  <2>3. CASE n = 3
    <3>1. VersionState[n] = "HTTP_VERSION_T_2" /\ on[n] = {"T"} /\ To(n) = "HTTP_VERSION_P"
      BY <2>3 DEF VersionState
    <3> QED BY <3>1 DEF VersionPaths
  <2>4. CASE n = 4
    <3>1. VersionState[n] = "HTTP_VERSION_P" /\ on[n] = {"P"} /\ To(n) = "HTTP_VERSION_SLASH"
      BY <2>4 DEF VersionState
    <3> QED BY <3>1 DEF VersionPaths
  <2>5. CASE n = 5
    <3>1. VersionState[n] = "HTTP_VERSION_SLASH" /\ on[n] = {"/"} /\ To(n) = "HTTP_VERSION_MAJOR_START"
      BY <2>5 DEF VersionState
    <3> QED BY <3>1 DEF VersionPaths
  <2>6. CASE n = 6
    <3>1. VersionState[n] = "HTTP_VERSION_MAJOR_START" /\ on[n] = Digit /\ To(n) = "HTTP_VERSION_MAJOR"
      BY <2>6 DEF VersionState
    <3> QED BY <3>1 DEF VersionPaths
  <2>7. CASE n = 7
    <3>1. VersionState[n] = "HTTP_VERSION_MAJOR" /\ on[n] = {"."} /\ To(n) = "HTTP_VERSION_MINOR_START"
      BY <2>7 DEF VersionState
    <3> QED BY <3>1 DEF VersionPaths
  <2>8. CASE n = 8
    <3>1. VersionState[n] = "HTTP_VERSION_MINOR_START" /\ on[n] = Digit /\ To(n) = "HTTP_VERSION_MINOR"
      BY <2>8 DEF VersionState
    <3> QED BY <3>1 DEF VersionPaths
  <2>9. CASE n = 9
    <3>1. VersionState[n] = "HTTP_VERSION_MINOR" /\ on[n] = {"\r"} /\ To(n) = "EXPECTING_NEWLINE_1"
      BY <2>9 DEF VersionState
    <3> QED BY <3>1 DEF VersionPaths
  <2>10. CASE n = 10
    <3>1. VersionState[n] = "EXPECTING_NEWLINE_1" /\ on[n] = {"\n"} /\ To(n) = "HEADER_LINE_START"
      BY <2>10 DEF VersionState
    <3> QED BY <3>1 DEF VersionPaths
  <2> QED BY <1>1, <2>1, <2>2, <2>3, <2>4, <2>5, <2>6, <2>7, <2>8, <2>9, <2>10
<1>5. q \in Paths /\ q.from = VersionState[n] /\ q.on = on[n] /\ q.to = To(n)
  BY <1>4 DEF Paths, Path
<1> HIDE DEF q, on
<1> QED BY <1>2, <1>3, <1>5

\* ... the version, ...
LEMMA FromVersion ==
  ASSUME TypeOK, ConsumeHeader, NEW r \in Requests, NEW n \in 1 .. 10, InVersion(r, n)
  PROVE  /\ IF n = 10 THEN AtFirstLine(r)' ELSE InVersion(r, n + 1)'
         /\ phase' = "header" /\ body' = body /\ method' = method
<1> DEFINE a == AfterHeaders(r, 0)
           c == Version[n + 1]
           t == Rest(Version, n + 1) \o a
<1>1. /\ state = VersionState[n] /\ uri = UrlDecode(r.uri) /\ NoHeaders
      /\ toCome = Rest(Version, n) \o a
  BY DEF InVersion
<1>2. PICK q \in Paths : /\ q.from = VersionState[n] /\ c \in q.on
                         /\ q.to = IF n = 10 THEN "HEADER_LINE_START" ELSE VersionState[n + 1]
  BY VersionPath
<1>3. VersionState[n] \in VersionFrom
  BY VersionPath
<1>4. state \notin {"METHOD_START", "METHOD", "URI", "HEADER_LINE_START", "HEADER_NAME", "HEADER_LWS",
                    "HEADER_VALUE", "EXPECTING_NEWLINE_3"}
  BY <1>1, <1>3 DEF VersionFrom
<1>5. Version \in Seq(Sym) /\ a \in Seq(Sym) /\ Len(Version) = 11
  <2>1. 0 \in 0 .. Len(r.headers)
    BY RequestTypes
  <2>2. a \in Seq(Sym)
    BY <2>1, ToComeTypes
  <2>3. Version \in Seq(Sym)
    BY Encoded
  <2>4. Len(Version) = 11
    BY DEF Version
  <2> QED BY <2>2, <2>3, <2>4
<1>6. n \in 0 .. Len(Version) - 1
  BY <1>5
<1> HIDE DEF a
<1>7. toCome = <<c>> \o t /\ c \in Sym /\ t \in Seq(Sym)
  <2>1. /\ Rest(Version, n) \o a = <<c>> \o t
        /\ Rest(Version, n + 1) \in Seq(Sym) /\ c \in Sym
    BY <1>5, <1>6, RestNext
  <2> QED BY <1>1, <1>5, <2>1, Joined
<1> HIDE DEF t, c
<1>8. q.to # "HTTP_VERSION_H"
  <2>1. n # 10 => n + 1 \in {2, 3, 4, 5, 6, 7, 8, 9, 10}
    OBVIOUS
  <2> QED BY <1>2, <2>1 DEF VersionState
<1>9. q.from = state /\ q.from # "HEADER_LINE_START"
  BY <1>1, <1>2, <1>4
<1>10. /\ toCome' = t /\ state' = q.to /\ Collect(c)
       /\ phase' = IF state = "EXPECTING_NEWLINE_3" THEN "payload" ELSE "header"
       /\ method' = IF state = "METHOD" /\ c = Space THEN MethodType(method_) ELSE method
       /\ uri' = CASE state = "URI" /\ c = Space -> UrlDecode(uri)
                   [] state = "URI" /\ c \in Visible -> Append(uri, c)
                   [] OTHER -> uri
       /\ headers' = IF Stores(c) THEN Insert(headers, header_key_, header_val_) ELSE headers
       /\ body' = body
  BY <1>2, <1>7, <1>8, <1>9, Effect
<1>11. /\ phase' = "header" /\ method' = method /\ uri' = uri /\ headers' = headers
       /\ header_key_' = header_key_
  BY <1>4, <1>10 DEF Stores, Collect
<1>12. CASE n = 10
  <2>1. Rest(Version, 11) = <<>> /\ n + 1 = 11
    <3>1. Rest(Version, Len(Version)) = <<>>
      BY <1>5, RestIs
    <3> QED BY <1>5, <1>12, <3>1
  <2>2. toCome' = a
    BY <1>5, <1>10, <2>1, Joined DEF t
  <2> QED BY <1>1, <1>2, <1>10, <1>11, <1>12, <2>2 DEF AtFirstLine, NoHeaders, a
<1>13. CASE n # 10
  <2>1. n + 1 \in 1 .. 10
    BY <1>13
  <2> QED BY <1>1, <1>2, <1>10, <1>11, <1>13, <2>1 DEF InVersion, NoHeaders, t, a
<1> QED BY <1>10, <1>11, <1>12, <1>13

\* A header is stored under its name in lower case.
LEMMA Key ==
  ASSUME NEW r \in Requests, NEW i \in 1 .. Len(r.headers)
  PROVE  Name(r, i) = <<ToLower(r.headers[i].name)>> /\ Name(r, i) # <<>>
  BY DEF Name

\* The name of a header is read, and the header before it is stored.
LEMMA StartsHeader ==
  ASSUME TypeOK, ConsumeHeader, NEW r \in Requests, NEW i \in 1 .. Len(r.headers),
         state = "HEADER_LINE_START", uri = UrlDecode(r.uri), toCome = AfterHeaders(r, i - 1),
         IF i = 1 THEN NoHeaders ELSE Holds(r, i - 1, Value(r.headers[i - 1].lines))
  PROVE  AfterName(r, i)' /\ phase' = "header" /\ body' = body /\ method' = method
<1> DEFINE q == Path("HEADER_LINE_START", Token, "HEADER_NAME")
           c == r.headers[i].name
           t == <<":">> \o AfterLine(r, i, 0)
<1>1. q \in Paths /\ q.from = "HEADER_LINE_START" /\ q.on = Token /\ q.to = "HEADER_NAME"
  BY DEF Paths, HeaderPaths, Path
<1>2. c \in Token /\ c \in Sym
  BY RequestTypes
<1>3. t \in Seq(Sym)
  <2>1. 0 \in 0 .. Len(r.headers[i].lines)
    BY LineTypes
  <2>2. AfterLine(r, i, 0) \in Seq(Sym)
    BY <2>1, ToComeTypes
  <2> QED BY <2>2, LineEnds, Joined
<1>4. toCome = <<c>> \o t
  BY NextHeader
<1>5. Name(r, i) = <<ToLower(c)>>
  BY Key
<1>6. i \in Nat /\ i >= 1 /\ Len(r.headers) \in Nat
  BY RequestTypes
<1> HIDE DEF q, c, t
<1>7. /\ toCome' = t /\ state' = "HEADER_NAME" /\ Collect(c) /\ phase' = "header"
      /\ method' = method /\ uri' = uri /\ body' = body
      /\ headers' = IF Stores(c) THEN Insert(headers, header_key_, header_val_) ELSE headers
  BY <1>1, <1>2, <1>3, <1>4, Effect
<1>8. header_key_' = Name(r, i) /\ header_val_' = <<>>
  BY <1>2, <1>5, <1>7 DEF Collect
<1>9. headers' = Stored(r, i - 1)
  <2>1. CASE i = 1
    <3>1. ~Stores(c) /\ headers = <<>>
      BY <2>1 DEF Stores, NoHeaders
    <3>2. i - 1 = 0
      BY <2>1
    <3> QED BY <1>7, <3>1, <3>2, StoredIs
  <2>2. CASE i # 1
    <3>1. i - 1 \in 1 .. Len(r.headers)
      BY <1>6, <2>2
    <3>2. /\ headers = Stored(r, i - 1 - 1) /\ header_key_ = Name(r, i - 1)
          /\ header_val_ = Value(r.headers[i - 1].lines)
      BY <2>2 DEF Holds
    <3>3. Stores(c)
      BY <1>2, <3>1, <3>2, Key DEF Stores
    <3>4. headers' = Insert(headers, header_key_, header_val_)
      BY <1>7, <3>3
    <3> DEFINE j == i - 1
    <3>5. /\ j \in 1 .. Len(r.headers)
          /\ headers' = Insert(Stored(r, j - 1), Name(r, j), Value(r.headers[j].lines))
      BY <3>1, <3>2, <3>4
    <3> HIDE DEF j
    <3>6. headers' = Stored(r, j)
      BY <3>5, StoresIt
    <3> QED BY <3>6 DEF j
  <2> QED BY <2>1, <2>2
<1> QED BY <1>7, <1>8, <1>9 DEF AfterName, Holds, t

\* The blank line after the last header is read.
LEMMA EndsHeaders ==
  ASSUME TypeOK, ConsumeHeader, NEW r \in Requests,
         state = "HEADER_LINE_START", uri = UrlDecode(r.uri),
         toCome = AfterHeaders(r, Len(r.headers)),
         IF Len(r.headers) = 0 THEN NoHeaders
           ELSE Holds(r, Len(r.headers), Value(r.headers[Len(r.headers)].lines))
  PROVE  AtEnd(r)' /\ phase' = "header" /\ body' = body /\ method' = method
<1> DEFINE q == Path("HEADER_LINE_START", {"\r"}, "EXPECTING_NEWLINE_3")
           t == <<"\n">> \o r.body
<1>1. q \in Paths /\ q.from = "HEADER_LINE_START" /\ q.on = {"\r"} /\ q.to = "EXPECTING_NEWLINE_3"
  BY DEF Paths, HeaderPaths, Path
<1>2. "\r" \in Sym /\ t \in Seq(Sym) /\ toCome = <<"\r">> \o t
  <2>1. r.body \in Seq(Sym)
    BY RequestTypes
  <2> QED BY <2>1, LineEnds, Joined, Symbols, NoMoreHeaders
<1>3. ~Stores("\r")
  BY Symbols DEF Stores
<1> HIDE DEF q, t
<1>4. /\ toCome' = t /\ state' = "EXPECTING_NEWLINE_3" /\ Collect("\r") /\ phase' = "header"
      /\ method' = method /\ uri' = uri /\ body' = body /\ headers' = headers
  BY <1>1, <1>2, <1>3, Effect
<1>5. header_key_' = header_key_ /\ header_val_' = header_val_
  BY <1>4, Symbols DEF Collect
<1> QED BY <1>4, <1>5 DEF AtEnd, Holds, NoHeaders, t

\* ... the first name or the blank line, ...
LEMMA FromFirstLine ==
  ASSUME TypeOK, ConsumeHeader, NEW r \in Requests, AtFirstLine(r)
  PROVE  /\ AtEnd(r)' \/ (1 \in 1 .. Len(r.headers) /\ AfterName(r, 1)')
         /\ phase' = "header" /\ body' = body /\ method' = method
<1>1. /\ state = "HEADER_LINE_START" /\ uri = UrlDecode(r.uri) /\ NoHeaders
      /\ toCome = AfterHeaders(r, 0) /\ Len(r.headers) \in Nat
  BY RequestTypes DEF AtFirstLine
<1>2. CASE Len(r.headers) = 0
  <2>1. toCome = AfterHeaders(r, Len(r.headers))
    BY <1>1, <1>2
  <2> QED BY <1>1, <1>2, <2>1, EndsHeaders
<1>3. CASE Len(r.headers) # 0
  <2>1. 1 \in 1 .. Len(r.headers) /\ toCome = AfterHeaders(r, 1 - 1)
    BY <1>1, <1>3
  <2> QED BY <1>1, <2>1, StartsHeader
<1> QED BY <1>2, <1>3
-----------------------------------------------------------------------------
\* ... the colon after a name, ...
LEMMA FromName ==
  ASSUME TypeOK, ConsumeHeader, NEW r \in Requests, NEW i \in 1 .. Len(r.headers), AfterName(r, i)
  PROVE  AfterColon(r, i)' /\ phase' = "header" /\ body' = body /\ method' = method
<1> DEFINE q == Path("HEADER_NAME", {":"}, "SPACE_BEFORE_HEADER_VALUE")
           t == AfterLine(r, i, 0)
<1>1. q \in Paths /\ q.from = "HEADER_NAME" /\ q.on = {":"} /\ q.to = "SPACE_BEFORE_HEADER_VALUE"
  BY DEF Paths, HeaderPaths, Path
<1>2. ":" \in Sym /\ t \in Seq(Sym)
  <2>1. 0 \in 0 .. Len(r.headers[i].lines)
    BY LineTypes
  <2> QED BY <2>1, ToComeTypes, Symbols
<1>3. toCome = <<":">> \o t /\ state = "HEADER_NAME" /\ Holds(r, i, <<>>)
  BY DEF AfterName
<1>4. ~Stores(":")
  BY <1>3 DEF Stores
<1> HIDE DEF q, t
<1>5. /\ toCome' = t /\ state' = "SPACE_BEFORE_HEADER_VALUE" /\ Collect(":") /\ phase' = "header"
      /\ method' = method /\ uri' = uri /\ body' = body /\ headers' = headers
  BY <1>1, <1>2, <1>3, <1>4, Effect
<1>6. header_key_' = header_key_ /\ header_val_' = header_val_
  BY <1>3, <1>5, Symbols DEF Collect
<1> QED BY <1>3, <1>5, <1>6 DEF AfterColon, Holds, t

\* What is to come of a line and after it.
LEMMA InLineTypes ==
  ASSUME NEW r \in Requests, NEW i \in 1 .. Len(r.headers), NEW l \in 1 .. Len(r.headers[i].lines)
  PROVE  /\ AfterLine(r, i, l) \in Seq(Sym) /\ CrLf \o AfterLine(r, i, l) \in Seq(Sym)
         /\ r.headers[i].lines[l] \o (CrLf \o AfterLine(r, i, l)) \in Seq(Sym)
         /\ CrLf \o AfterLine(r, i, l) = <<"\r">> \o (<<"\n">> \o AfterLine(r, i, l))
         /\ <<"\n">> \o AfterLine(r, i, l) \in Seq(Sym)
<1> DEFINE a == AfterLine(r, i, l)
           s == r.headers[i].lines[l]
           cr == <<"\r">>
           lf == <<"\n">>
<1>1. a \in Seq(Sym)
  <2>1. l \in 0 .. Len(r.headers[i].lines)
    BY LineTypes
  <2> QED BY <2>1, ToComeTypes
<1>2. s \in Seq(Sym)
  BY LineTypes
<1>3. CrLf \in Seq(Sym) /\ cr \in Seq(Sym) /\ lf \in Seq(Sym) /\ CrLf = cr \o lf
  BY LineEnds
<1> HIDE DEF a, s, cr, lf
<1>4. CrLf \o a \in Seq(Sym) /\ lf \o a \in Seq(Sym)
  BY Zenon, <1>1, <1>3, Joined
<1>5. s \o (CrLf \o a) \in Seq(Sym)
  BY Zenon, <1>2, <1>4, Joined
<1>6. (cr \o lf) \o a = cr \o (lf \o a)
  BY ZenonT(30), <1>1, <1>3, Associative
<1> QED BY Zenon, <1>1, <1>3, <1>4, <1>5, <1>6 DEF a, s, cr, lf

\* ... the space that begins a value, ...
LEMMA FromColon ==
  ASSUME TypeOK, ConsumeHeader, NEW r \in Requests, NEW i \in 1 .. Len(r.headers), AfterColon(r, i)
  PROVE  /\ 1 \in 1 .. Len(r.headers[i].lines) /\ 0 \in 0 .. Len(r.headers[i].lines[1])
         /\ InLine(r, i, 1, 0)' /\ phase' = "header" /\ body' = body /\ method' = method
<1> DEFINE q == Path("SPACE_BEFORE_HEADER_VALUE", {Space}, "HEADER_VALUE")
           s == r.headers[i].lines[1]
           t == s \o (CrLf \o AfterLine(r, i, 1))
<1>1. q \in Paths /\ q.from = "SPACE_BEFORE_HEADER_VALUE" /\ q.on = {Space} /\ q.to = "HEADER_VALUE"
  BY DEF Paths, HeaderPaths, Path
<1>2. 1 \in 1 .. Len(r.headers[i].lines) /\ s \in Seq(Sym)
  BY LineTypes
<1>3. Space \in Sym /\ t \in Seq(Sym)
  BY <1>2, InLineTypes, Symbols
<1>4. state = "SPACE_BEFORE_HEADER_VALUE" /\ Holds(r, i, <<>>)
  BY DEF AfterColon
<1>5. toCome = <<Space>> \o t
  <2>1. toCome = AfterLine(r, i, 1 - 1)
    BY DEF AfterColon
  <2> QED BY <1>2, <2>1, NextLine
<1>6. ~Stores(Space)
  BY <1>4 DEF Stores
<1> HIDE DEF q, t
<1>7. /\ toCome' = t /\ state' = "HEADER_VALUE" /\ Collect(Space) /\ phase' = "header"
      /\ method' = method /\ uri' = uri /\ body' = body /\ headers' = headers
  BY <1>1, <1>3, <1>4, <1>5, <1>6, Effect
<1>8. header_key_' = header_key_ /\ header_val_' = header_val_
  BY <1>4, <1>7, Symbols DEF Collect
<1>9. Len(s) \in Nat /\ 0 \in 0 .. Len(s) /\ Rest(s, 0) = s
  BY <1>2, RestIs
<1>10. ValueSoFar(r.headers[i].lines, 1, 0) = <<>>
  <2>1. r.headers[i].lines \in Seq(Seq(Sym)) /\ Len(r.headers[i].lines) >= 1
    BY LineTypes
  <2>2. ValueSoFar(r.headers[i].lines, 1, 0) = ValueUpTo(r.headers[i].lines, 1 - 1)
    <3>1. 0 <= Skipped(r.headers[i].lines, 1)
      BY DEF Skipped
    <3> QED BY <1>2, <1>9, <2>1, <3>1, ValueGrows
  <2> QED BY <2>1, <2>2, ValueAll
<1> QED BY <1>2, <1>4, <1>7, <1>8, <1>9, <1>10 DEF InLine, Holds, t

\* ... a line of a value, whose spaces are skipped if it continues it, ...
LEMMA FromInLine ==
  ASSUME TypeOK, ConsumeHeader, NEW r \in Requests, NEW i \in 1 .. Len(r.headers),
         NEW l \in 1 .. Len(r.headers[i].lines), NEW n \in 0 .. Len(r.headers[i].lines[l]),
         InLine(r, i, l, n)
  PROVE  /\ AfterReturn(r, i, l)' \/ (n + 1 \in 0 .. Len(r.headers[i].lines[l]) /\ InLine(r, i, l, n + 1)')
         /\ phase' = "header" /\ body' = body /\ method' = method
<1> DEFINE lines == r.headers[i].lines
           s == lines[l]
           k == Skipped(lines, l)
           e == CrLf \o AfterLine(r, i, l)
           from == IF l # 1 /\ n <= k THEN "HEADER_LWS" ELSE "HEADER_VALUE"
<1>1. /\ lines \in Seq(Seq(Sym)) /\ s \in Seq(Sym) /\ s \in Seq(Plain) /\ l \in 1 .. Len(lines)
      /\ n \in 0 .. Len(s) /\ Len(s) \in Nat
  <2>1. lines \in Seq(Seq(Sym)) /\ s \in Seq(Sym) /\ s \in Seq(Plain)
    BY LineTypes
  <2>2. l \in 1 .. Len(lines) /\ n \in 0 .. Len(s)
    OBVIOUS
  <2>3. Len(s) \in Nat
    BY <2>1, LenProperties
  <2> QED BY <2>1, <2>2, <2>3
<1>2. /\ state = from /\ Holds(r, i, ValueSoFar(lines, l, n)) /\ toCome = Rest(s, n) \o e
  BY DEF InLine
<1>3. e \in Seq(Sym) /\ e = <<"\r">> \o (<<"\n">> \o AfterLine(r, i, l))
      /\ <<"\n">> \o AfterLine(r, i, l) \in Seq(Sym)
  BY InLineTypes
<1>4. k \in 0 .. Len(s)
  <2> HIDE DEF lines
  <2> QED BY <1>1, ValueLine
<1>5. /\ n <= k => ValueSoFar(lines, l, n) = ValueUpTo(lines, l - 1)
      /\ n = Len(s) => ValueSoFar(lines, l, n) = ValueUpTo(lines, l)
      /\ n < Len(s) /\ n >= k => ValueSoFar(lines, l, n + 1) = Append(ValueSoFar(lines, l, n), s[n + 1])
  <2> HIDE DEF lines
  <2> QED BY <1>1, ValueGrows
<1>6. state \in {"HEADER_LWS", "HEADER_VALUE"}
  BY <1>2
<1>7. \A c : ~Stores(c)
  BY <1>6 DEF Stores
<1>8. CASE n = Len(s)
  <2> DEFINE q == Path(from, {"\r"}, "EXPECTING_NEWLINE_2")
             t == <<"\n">> \o AfterLine(r, i, l)
  <2>1. q \in Paths /\ q.from = from /\ q.on = {"\r"} /\ q.to = "EXPECTING_NEWLINE_2"
    BY DEF Paths, HeaderPaths, Path
  <2>2. toCome = <<"\r">> \o t /\ t \in Seq(Sym) /\ "\r" \in Sym
    <3>1. Rest(s, n) = <<>>
      BY <1>1, <1>8, RestIs
    <3>2. <<>> \o e = e
      BY <1>3, Joined
    <3> QED BY <1>2, <1>3, <3>1, <3>2, Symbols
  <2> HIDE DEF q, t, from, e, s, lines, k
  <2>3. /\ toCome' = t /\ state' = "EXPECTING_NEWLINE_2" /\ Collect("\r") /\ phase' = "header"
        /\ method' = method /\ uri' = uri /\ body' = body /\ headers' = headers
    BY <1>2, <1>6, <1>7, <2>1, <2>2, Effect
  <2>4. header_key_' = header_key_ /\ header_val_' = header_val_
    BY <1>6, <2>3, Symbols DEF Collect
  <2>5. Holds(r, i, ValueUpTo(lines, l))'
    BY <1>2, <1>5, <1>8, <2>3, <2>4 DEF Holds
  <2> QED BY <2>3, <2>5 DEF AfterReturn, t, lines
<1>9. CASE n # Len(s)
  <2> DEFINE c == s[n + 1]
             t == Rest(s, n + 1) \o e
             to == IF l # 1 /\ n < k THEN "HEADER_LWS" ELSE "HEADER_VALUE"
             on == IF from = "HEADER_VALUE" THEN Plain ELSE IF n < k THEN Blank ELSE Visible
             q == Path(from, on, to)
  <2>1. n \in 0 .. Len(s) - 1 /\ n + 1 \in 1 .. Len(s) /\ c \in Plain /\ k \in Nat /\ n \in Nat
    <3> HIDE DEF s, k
    <3>1. n \in 0 .. Len(s) - 1 /\ n + 1 \in 1 .. Len(s) /\ k \in Nat /\ n \in Nat
      BY <1>1, <1>4, <1>9
    <3>2. c \in Plain
      BY <1>1, <3>1, ElementOfSeq
    <3> QED BY <3>1, <3>2
  <2>2. q \in Paths /\ q.from = from /\ q.on = on /\ q.to = to
    <3>1. q \in HeaderPaths
      <4>1. CASE from = "HEADER_VALUE"
        <5>1. to = "HEADER_VALUE"
          BY <2>1, <4>1
        <5> QED BY <4>1, <5>1 DEF HeaderPaths
      <4>2. CASE from = "HEADER_LWS" /\ n < k
        <5>1. to = "HEADER_LWS" /\ on = Blank
          BY <4>2
        <5> QED BY <4>2, <5>1 DEF HeaderPaths
      <4>3. CASE from = "HEADER_LWS" /\ ~(n < k)
        <5>1. to = "HEADER_VALUE" /\ on = Visible
          BY <4>3
        <5> QED BY <4>3, <5>1 DEF HeaderPaths
      <4> QED BY <4>1, <4>2, <4>3
    <3> QED BY <3>1 DEF Paths, Path
  <2>3. toCome = <<c>> \o t /\ c \in Sym /\ t \in Seq(Sym)
    <3> HIDE DEF e, s
    <3>1. /\ Rest(s, n) \o e = <<c>> \o t
          /\ Rest(s, n + 1) \in Seq(Sym) /\ c \in Sym
      BY <1>1, <1>3, <2>1, RestNext
    <3> QED BY <1>2, <1>3, <3>1, Joined
  <2>4. l # 1 => (n < k => c = Space) /\ (n = k => c # Space)
    <3> SUFFICES ASSUME l # 1 PROVE (n < k => c = Space) /\ (n = k => c # Space)
      OBVIOUS
    <3>1. k = Span(s, {Space})
      BY DEF Skipped
    <3> HIDE DEF k, s
    <3>2. (\A j \in 1 .. k : s[j] \in {Space}) /\ (k < Len(s) => s[k + 1] \notin {Space})
      BY <1>1, <3>1, Spanned
    <3>3. n < k => n + 1 \in 1 .. k
      BY <2>1
    <3> QED BY <2>1, <3>2, <3>3
  <2>5. c \in on
    BY SMTT(30), <2>1, <2>4, Symbols DEF Blank
  <2> HIDE DEF c, t, q, e, s, lines, k, on
  <2>6. to # "HTTP_VERSION_H" /\ q.from = state /\ q.from # "HEADER_LINE_START"
    BY <1>2, <2>2
  <2>7. /\ toCome' = t /\ state' = to /\ Collect(c) /\ phase' = "header"
        /\ method' = method /\ uri' = uri /\ body' = body /\ headers' = headers
    BY <1>6, <1>7, <2>2, <2>3, <2>5, <2>6, Effect
  <2>8. header_key_' = header_key_
    BY <1>6, <2>7 DEF Collect
  <2>9. header_val_' = ValueSoFar(lines, l, n + 1)
    <3>1. header_val_ = ValueSoFar(lines, l, n)
      BY <1>2 DEF Holds
    <3>2. CASE from = "HEADER_VALUE"
      <4>1. header_val_' = Append(header_val_, c)
        BY <1>2, <2>1, <2>7, <3>2 DEF Collect
      <4>2. n >= k /\ n < Len(s)
        <5>1. l = 1 => k = 0
          BY DEF k, Skipped
        <5> QED BY <1>1, <2>1, <3>2, <5>1
      <4> QED BY <1>5, <3>1, <4>1, <4>2 DEF c
    <3>3. CASE from = "HEADER_LWS" /\ n < k
      <4>1. c = Space /\ state = "HEADER_LWS"
        BY <1>2, <2>4, <3>3
      <4>2. header_val_' = header_val_
        BY <2>7, <4>1, Symbols DEF Collect
      <4>3. ValueSoFar(lines, l, n) = ValueUpTo(lines, l - 1)
        BY <1>5, <2>1, <3>3
      <4>4. ValueSoFar(lines, l, n + 1) = ValueUpTo(lines, l - 1)
        <5> DEFINE m == n + 1
        <5>1. m \in 0 .. Len(s) /\ m <= k
          BY <1>1, <2>1, <3>3
        <5> HIDE DEF m
        <5>2. ValueSoFar(lines, l, m) = ValueUpTo(lines, l - 1)
          BY <1>1, <5>1, ValueGrows DEF s, k
        <5> QED BY <5>2 DEF m
      <4> QED BY <3>1, <4>2, <4>3, <4>4
    <3>4. CASE from = "HEADER_LWS" /\ ~(n < k)
      <4>1. n = k /\ l # 1 /\ state = "HEADER_LWS"
        BY <1>2, <2>1, <3>4
      <4>2. c \in Visible
        BY <2>1, <2>4, <4>1, Symbols
      <4>3. header_val_' = Append(header_val_, c)
        BY <2>7, <4>1, <4>2 DEF Collect
      <4>4. n >= k /\ n < Len(s)
        BY <1>1, <2>1, <4>1
      <4> QED BY <1>5, <3>1, <4>3, <4>4 DEF c
    <3> QED BY <3>2, <3>3, <3>4
  <2>10. Holds(r, i, ValueSoFar(lines, l, n + 1))'
    BY <1>2, <2>7, <2>8, <2>9 DEF Holds
  <2>11. to = IF l # 1 /\ n + 1 <= k THEN "HEADER_LWS" ELSE "HEADER_VALUE"
    BY <2>1
  <2>12. n + 1 \in 0 .. Len(s)
    BY <1>1, <2>1
  <2> HIDE DEF to
  <2>13. InLine(r, i, l, n + 1)'
    BY <2>7, <2>10, <2>11, <2>12 DEF InLine, t, e, s, lines, k
  <2> QED BY <2>7, <2>12, <2>13 DEF s, lines
<1> QED BY <1>8, <1>9
-----------------------------------------------------------------------------
\* ... the end of the line, ...
LEMMA FromReturn ==
  ASSUME TypeOK, ConsumeHeader, NEW r \in Requests, NEW i \in 1 .. Len(r.headers),
         NEW l \in 1 .. Len(r.headers[i].lines), AfterReturn(r, i, l)
  PROVE  AtLine(r, i, l)' /\ phase' = "header" /\ body' = body /\ method' = method
<1> DEFINE q == Path("EXPECTING_NEWLINE_2", {"\n"}, "HEADER_LINE_START")
           t == AfterLine(r, i, l)
           v == ValueUpTo(r.headers[i].lines, l)
<1>1. q \in Paths /\ q.from = "EXPECTING_NEWLINE_2" /\ q.on = {"\n"} /\ q.to = "HEADER_LINE_START"
  BY DEF Paths, HeaderPaths, Path
<1>2. "\n" \in Sym /\ t \in Seq(Sym)
  BY InLineTypes, Symbols
<1>3. toCome = <<"\n">> \o t /\ state = "EXPECTING_NEWLINE_2" /\ Holds(r, i, v)
  BY DEF AfterReturn
<1>4. ~Stores("\n")
  BY <1>3 DEF Stores
<1> HIDE DEF q, t, v
<1>5. /\ toCome' = t /\ state' = "HEADER_LINE_START" /\ Collect("\n") /\ phase' = "header"
      /\ method' = method /\ uri' = uri /\ body' = body /\ headers' = headers
  BY <1>1, <1>2, <1>3, <1>4, Effect
<1>6. header_key_' = header_key_ /\ header_val_' = header_val_
  BY <1>3, <1>5, Symbols DEF Collect
<1>7. Holds(r, i, v)'
  BY <1>3, <1>5, <1>6 DEF Holds
<1> QED BY <1>5, <1>7 DEF AtLine, t, v

\* A value is continued, which takes a header that is stored.
LEMMA ContinuesLine ==
  ASSUME TypeOK, ConsumeHeader, NEW r \in Requests, Readable(r), NEW i \in 1 .. Len(r.headers),
         NEW l \in 1 .. Len(r.headers[i].lines), AtLine(r, i, l), l # Len(r.headers[i].lines)
  PROVE  /\ l + 1 \in 1 .. Len(r.headers[i].lines) /\ 0 \in 0 .. Len(r.headers[i].lines[l + 1])
         /\ InLine(r, i, l + 1, 0)' /\ phase' = "header" /\ body' = body /\ method' = method
<1> DEFINE q == Path("HEADER_LINE_START", Blank, "HEADER_LWS")
           lines == r.headers[i].lines
           m == l + 1
           s == lines[m]
           t == s \o (CrLf \o AfterLine(r, i, m))
           v == ValueUpTo(lines, l)
<1>1. q \in Paths /\ q.from = "HEADER_LINE_START" /\ q.on = Blank /\ q.to = "HEADER_LWS"
  BY DEF Paths, HeaderPaths, Path
<1>2. Len(lines) \in Nat /\ lines \in Seq(Seq(Sym))
  BY LineTypes
<1>3. m \in 1 .. Len(lines) /\ m - 1 = l /\ m # 1
  <2> HIDE DEF lines
  <2>1. l \in 1 .. Len(lines) /\ l # Len(lines)
    BY DEF lines
  <2> QED BY <1>2, <2>1
<1>4. s \in Seq(Sym) /\ Len(s) \in Nat
  <2> HIDE DEF lines, m
  <2>1. s \in Seq(Sym)
    BY <1>2, <1>3
  <2> HIDE DEF s
  <2> QED BY <2>1
<1>5. t \in Seq(Sym) /\ AfterLine(r, i, m - 1) = <<Space>> \o t
  <2> HIDE DEF m
  <2> QED BY <1>3, InLineTypes, NextLine
<1>6. toCome = <<Space>> \o t /\ state = "HEADER_LINE_START" /\ Holds(r, i, v)
  BY <1>3, <1>5 DEF AtLine
<1>7. Space \in Sym /\ Space \in Blank /\ Space \notin Token
  BY Symbols DEF Blank
<1>8. ~Stores(Space)
  BY <1>6, <1>7 DEF Stores
<1>9. DOMAIN headers # {}
  <2>1. i # 1
    <3>1. Len(lines) # 1
      <4> HIDE DEF lines, m
      <4> SUFFICES ASSUME Len(lines) = 1 PROVE FALSE
        OBVIOUS
      <4>1. m \in 1 .. 1
        BY <1>3
      <4> QED BY <1>3, <4>1
    <3>2. r.headers # <<>>
      OBVIOUS
    <3> QED BY <3>1, <3>2 DEF Readable
  <2> DEFINE j == i - 1
  <2>2. j \in 1 .. Len(r.headers) /\ headers = Stored(r, j)
    <3>1. Len(r.headers) \in Nat
      BY RequestTypes
    <3>2. headers = Stored(r, i - 1)
      BY <1>6 DEF Holds
    <3> QED BY <2>1, <3>1, <3>2
  <2> HIDE DEF j
  <2> QED BY <2>2, StoredIs
<1>10. ValueSoFar(lines, m, 0) = v
  <2> HIDE DEF lines, m, s
  <2>1. Skipped(lines, m) \in 0 .. Len(lines[m]) /\ 0 \in 0 .. Len(lines[m])
    BY <1>2, <1>3, <1>4, ValueLine DEF s
  <2>2. 0 <= Skipped(lines, m)
    BY <1>4, <2>1 DEF s
  <2>3. ValueSoFar(lines, m, 0) = ValueUpTo(lines, m - 1)
    BY <1>2, <1>3, <2>1, <2>2, ValueGrows
  <2> QED BY <1>3, <2>3
<1>11. 0 <= Skipped(lines, m) /\ 0 \in 0 .. Len(s)
  <2> HIDE DEF lines, m
  <2>1. Skipped(lines, m) \in 0 .. Len(lines[m])
    BY <1>2, <1>3, ValueLine
  <2> QED BY <1>4, <2>1
<1> HIDE DEF q, t, v, lines, s, m
<1>12. /\ toCome' = t /\ state' = "HEADER_LWS" /\ Collect(Space) /\ phase' = "header"
       /\ method' = method /\ uri' = uri /\ body' = body /\ headers' = headers
  BY <1>1, <1>5, <1>6, <1>7, <1>8, <1>9, Effect
<1>13. header_key_' = header_key_ /\ header_val_' = header_val_
  BY <1>6, <1>7, <1>12, Symbols DEF Collect
<1>14. Holds(r, i, ValueSoFar(lines, m, 0))'
  BY <1>6, <1>10, <1>12, <1>13 DEF Holds
<1>15. toCome' = Rest(s, 0) \o (CrLf \o AfterLine(r, i, m))
  BY <1>4, <1>12, RestIs DEF t
<1>16. InLine(r, i, m, 0)'
  BY <1>3, <1>11, <1>12, <1>14, <1>15 DEF InLine, lines, s
<1> QED BY <1>3, <1>11, <1>12, <1>16 DEF m, lines, s

\* ... and then the next line, the next header or the blank line.
LEMMA FromLine ==
  ASSUME TypeOK, ConsumeHeader, NEW r \in Requests, Readable(r), NEW i \in 1 .. Len(r.headers),
         NEW l \in 1 .. Len(r.headers[i].lines), AtLine(r, i, l)
  PROVE  /\ \/ AtEnd(r)'
            \/ i + 1 \in 1 .. Len(r.headers) /\ AfterName(r, i + 1)'
            \/ /\ l + 1 \in 1 .. Len(r.headers[i].lines) /\ 0 \in 0 .. Len(r.headers[i].lines[l + 1])
               /\ InLine(r, i, l + 1, 0)'
         /\ phase' = "header" /\ body' = body /\ method' = method
<1>1. CASE l # Len(r.headers[i].lines)
  BY <1>1, ContinuesLine
<1>2. CASE l = Len(r.headers[i].lines)
  <2>1. ValueUpTo(r.headers[i].lines, l) = Value(r.headers[i].lines)
    <3>1. r.headers[i].lines \in Seq(Seq(Sym)) /\ Len(r.headers[i].lines) >= 1
      BY LineTypes
    <3> QED BY <1>2, <3>1, ValueAll
  <2>2. /\ state = "HEADER_LINE_START" /\ uri = UrlDecode(r.uri)
        /\ Holds(r, i, Value(r.headers[i].lines)) /\ toCome = AfterHeaders(r, i)
    BY <1>2, <2>1, NoMoreLines DEF AtLine, Holds
  <2>3. i \in Nat /\ i >= 1 /\ Len(r.headers) \in Nat
    BY RequestTypes
  <2>4. CASE i = Len(r.headers)
    <3>1. Len(r.headers) # 0 /\ toCome = AfterHeaders(r, Len(r.headers))
          /\ Holds(r, Len(r.headers), Value(r.headers[Len(r.headers)].lines))
      BY <2>2, <2>3, <2>4
    <3> QED BY <2>2, <3>1, EndsHeaders
  <2>5. CASE i # Len(r.headers)
    <3> DEFINE j == i + 1
    <3>1. j \in 1 .. Len(r.headers) /\ j - 1 = i /\ j # 1
      BY <2>3, <2>5
    <3> HIDE DEF j
    <3>2. AfterName(r, j)' /\ phase' = "header" /\ body' = body /\ method' = method
      BY <2>2, <3>1, StartsHeader
    <3> QED BY <3>1, <3>2 DEF j
  <2> QED BY <2>4, <2>5
<1> QED BY <1>1, <1>2

\* With the last symbol of the header its last line is stored, and the body follows.
LEMMA FromEnd ==
  ASSUME TypeOK, ConsumeHeader, NEW r \in Requests, AtEnd(r)
  PROVE  /\ state' = "CONTENT_BODY" /\ uri' = UrlDecode(r.uri) /\ headers' = Meant(r)
         /\ toCome' = r.body /\ phase' = "payload" /\ body' = body /\ method' = method
<1> DEFINE q == Path("EXPECTING_NEWLINE_3", Sym, "CONTENT_BODY")
           i == Len(r.headers)
           t == r.body
<1>1. q \in Paths /\ q.from = "EXPECTING_NEWLINE_3" /\ q.on = Sym /\ q.to = "CONTENT_BODY"
  BY DEF Paths, HeaderPaths, Path
<1>2. "\n" \in Sym /\ t \in Seq(Sym) /\ i \in Nat
  BY RequestTypes, Symbols
<1>3. /\ toCome = <<"\n">> \o t /\ state = "EXPECTING_NEWLINE_3"
      /\ IF i = 0 THEN uri = UrlDecode(r.uri) /\ NoHeaders
                  ELSE Holds(r, i, Value(r.headers[i].lines))
  BY DEF AtEnd
<1> HIDE DEF q, t, i
<1>4. /\ toCome' = t /\ state' = "CONTENT_BODY" /\ Collect("\n") /\ phase' = "payload"
      /\ method' = method /\ uri' = uri /\ body' = body
      /\ headers' = IF Stores("\n") THEN Insert(headers, header_key_, header_val_) ELSE headers
  BY <1>1, <1>2, <1>3, Effect
<1>5. uri = UrlDecode(r.uri)
  BY <1>3 DEF Holds
<1>6. headers' = Meant(r)
  <2>1. CASE i = 0
    <3>1. ~Stores("\n") /\ headers = <<>>
      BY <1>3, <2>1 DEF Stores, NoHeaders
    <3>2. Stored(r, 0) = <<>> /\ Stored(r, 0) = Meant(r)
      BY <2>1, StoredIs DEF i
    <3> QED BY <1>4, <3>1, <3>2
  <2>2. CASE i # 0
    <3>1. i \in 1 .. Len(r.headers)
      BY <1>2, <2>2 DEF i
    <3>2. headers = Stored(r, i - 1) /\ header_key_ = Name(r, i) /\ header_val_ = Value(r.headers[i].lines)
      BY <1>3, <2>2 DEF Holds
    <3>3. Stores("\n")
      BY <1>3, <3>1, <3>2, Key DEF Stores
    <3>4. headers' = Stored(r, i)
      BY <1>4, <3>1, <3>2, <3>3, StoresIt
    <3> QED BY <3>4, StoredIs DEF i
  <2> QED BY <2>1, <2>2
<1> QED BY <1>4, <1>5, <1>6 DEF t
-----------------------------------------------------------------------------
\* The C string of a part of a text without NUL is that part.
LEMMA PartOfText ==
  ASSUME NEW a \in Seq(Sym), NEW b \in Seq(Sym), NEW w \in Seq(Sym),
         CString(a \o (b \o w)) = a \o (b \o w)
  PROVE  CString(b) = b
<1> DEFINE s == a \o (b \o w)
           S == Sym \ {"NUL"}
           x == b \o w
<1>1. x \in Seq(Sym) /\ Len(x) = Len(b) + Len(w) /\ Len(b) \in Nat /\ Len(w) \in Nat
      /\ \A i \in 1 .. Len(b) + Len(w) : x[i] = IF i <= Len(b) THEN b[i] ELSE w[i - Len(b)]
  BY ConcatProperties
<1> HIDE DEF x
<1>2. s \in Seq(Sym) /\ Len(s) = Len(a) + Len(x) /\ Len(a) \in Nat
      /\ \A i \in 1 .. Len(a) + Len(x) : s[i] = IF i <= Len(a) THEN a[i] ELSE x[i - Len(a)]
  BY SMTT(30), <1>1, ConcatProperties DEF x
<1> HIDE DEF s
<1>3. Span(s, S) = Len(s)
  <2>1. Span(s, S) \in 0 .. Len(s) /\ Len(s) \in Nat
    BY <1>2, Spanned
  <2>2. s = SubSeq(s, 1, Span(s, S))
    BY DEF CString, s, x
  <2> DEFINE k == Span(s, S)
  <2> HIDE DEF k
  <2>3. k \in Int /\ \A i \in 1 .. k : s[i] \in Sym
    <3>1. k \in 0 .. Len(s) /\ Len(s) \in Nat
      BY <2>1 DEF k
    <3> QED BY <1>2, <3>1
  <2>4. Len(SubSeq(s, 1, k)) = IF 1 <= k THEN k - 1 + 1 ELSE 0
    BY <1>2, <2>3, SubSeqProperties
  <2> QED BY <2>1, <2>2, <2>4 DEF k
<1>4. \A i \in 1 .. Len(s) : s[i] \in S
  BY <1>2, <1>3, Spanned
<1>5. ASSUME NEW i \in 1 .. Len(b) PROVE b[i] \in S
  <2> DEFINE j == Len(a) + i
  <2>1. j \in 1 .. Len(a) + Len(x) /\ ~(j <= Len(a)) /\ j - Len(a) = i /\ i \in 1 .. Len(b) + Len(w)
        /\ i <= Len(b) /\ j \in 1 .. Len(s)
    BY <1>1, <1>2
  <2> HIDE DEF j
  <2>2. s[j] = x[i] /\ x[i] = b[i]
    BY <1>1, <1>2, <2>1
  <2> QED BY <1>4, <2>1, <2>2
<1>6. Span(b, S) = Len(b)
  <2>1. Len(b) \in 0 .. Len(b) /\ ~(Len(b) < Len(b))
    BY <1>1
  <2> HIDE DEF S
  <2> QED BY <1>5, <2>1, SpanIs
<1>7. SubSeq(b, 1, Len(b)) = b
  BY SubSeqFull
<1> QED BY <1>6, <1>7 DEF CString

\* A C string is no longer than its text.
LEMMA CStringLength ==
  ASSUME NEW b \in Seq(Sym)
  PROVE  CString(b) \in Seq(Sym) /\ Len(CString(b)) \in Nat /\ Len(CString(b)) <= Len(b)
<1> DEFINE k == Span(b, Sym \ {"NUL"})
<1>1. k \in 0 .. Len(b) /\ Len(b) \in Nat
  BY Spanned
<1> HIDE DEF k
<1>2. k \in Int /\ \A i \in 1 .. k : b[i] \in Sym
  BY <1>1
<1>3. Len(SubSeq(b, 1, k)) = IF 1 <= k THEN k - 1 + 1 ELSE 0
  BY <1>2, SubSeqProperties
<1>4. Len(CString(b)) = k
  BY <1>1, <1>3 DEF CString, k
<1> QED BY <1>1, <1>4, CStringType

\* Symbols that follow a text do not make its C string shorter.
LEMMA CStringGoesOn ==
  ASSUME NEW b \in Seq(Sym), NEW w \in Seq(Sym), CString(b) = b
  PROVE  Len(b) <= Len(CString(b \o w))
<1> DEFINE s == b \o w
           S == Sym \ {"NUL"}
           k == Span(b, S)
           n == Span(s, S)
<1>1. k \in 0 .. Len(b) /\ Len(b) \in Nat /\ \A i \in 1 .. k : b[i] \in S
  BY Spanned
<1>2. s \in Seq(Sym) /\ Len(s) = Len(b) + Len(w) /\ Len(w) \in Nat
      /\ \A i \in 1 .. Len(b) + Len(w) : s[i] = IF i <= Len(b) THEN b[i] ELSE w[i - Len(b)]
  BY ConcatProperties
<1>3. Len(s) \in Nat
  BY <1>2
<1> HIDE DEF s
<1>4. n \in 0 .. Len(s) /\ (n < Len(s) => s[n + 1] \notin S)
  BY <1>2, Spanned
<1> HIDE DEF S
<1>5. b = SubSeq(b, 1, k) /\ CString(s) = SubSeq(s, 1, n)
  BY DEF CString, S
<1> HIDE DEF k, n
<1>6. Len(SubSeq(b, 1, k)) = k /\ Len(SubSeq(s, 1, n)) = n
  <2>1. k \in Int /\ \A i \in 1 .. k : b[i] \in Sym
    BY <1>1
  <2>2. n \in Int /\ \A i \in 1 .. n : s[i] \in Sym
    BY <1>2, <1>3, <1>4
  <2>3. Len(SubSeq(b, 1, k)) = IF 1 <= k THEN k - 1 + 1 ELSE 0
    BY <2>1, SubSeqProperties
  <2>4. Len(SubSeq(s, 1, n)) = IF 1 <= n THEN n - 1 + 1 ELSE 0
    BY <1>2, <2>2, SubSeqProperties
  <2> QED BY <1>1, <1>3, <1>4, <2>3, <2>4
<1>7. Len(b) = k
  BY <1>5, <1>6
<1>8. ASSUME n < k PROVE FALSE
  <2> DEFINE j == n + 1
  <2>1. j \in 1 .. Len(b) + Len(w) /\ j <= Len(b) /\ j \in 1 .. k /\ n < Len(s)
    BY <1>1, <1>2, <1>3, <1>4, <1>7, <1>8
  <2> HIDE DEF j
  <2>2. s[j] = b[j] /\ b[j] \in S
    BY <1>1, <1>2, <2>1
  <2>3. s[j] \notin S
    BY <1>4, <2>1 DEF j
  <2> QED BY <2>2, <2>3
<1>9. k <= n
  BY <1>1, <1>3, <1>4, <1>8
<1> QED BY <1>5, <1>6, <1>7, <1>9 DEF s

\* Both parts of a text without NUL are such texts.
LEMMA PartsOfText ==
  ASSUME NEW b \in Seq(Sym), NEW w \in Seq(Sym), CString(b \o w) = b \o w
  PROVE  CString(b) = b /\ CString(w) = w
<1>1. <<>> \in Seq(Sym) /\ b \o w \in Seq(Sym) /\ <<>> \o (b \o w) = b \o w /\ w \o <<>> = w
  BY Joined
<1>2. CString(b) = b
  BY <1>1, PartOfText
<1>3. CString(w) = w
  <2>1. CString(b \o (w \o <<>>)) = b \o (w \o <<>>)
    BY <1>1
  <2> QED BY <1>1, <2>1, PartOfText
<1> QED BY <1>2, <1>3

\* The values of Meant are sequences of symbols.
LEMMA MeantType ==
  ASSUME NEW r \in Requests
  PROVE  \A k \in DOMAIN Meant(r) : Meant(r)[k] \in Seq(Sym)
<1> SUFFICES ASSUME NEW k \in DOMAIN Meant(r) PROVE Meant(r)[k] \in Seq(Sym)
  OBVIOUS
<1>1. PICK i \in 1 .. Len(r.headers) : Name(r, i) = k
  BY DEF Meant
<1> DEFINE f == FirstNamed(r, k)
           First(m) == Name(r, m) = k /\ \A j \in 1 .. m - 1 : Name(r, j) # k
<1>2. f \in 1 .. Len(r.headers)
  <2> DEFINE S == {j \in 1 .. Len(r.headers) : Name(r, j) = k}
  <2>1. S \subseteq Nat /\ S # {}
    BY <1>1, RequestTypes
  <2>2. PICK m \in S : \A n \in S : m <= n
    <3> HIDE DEF S
    <3> QED BY <2>1, Least
  <2>3. m \in 1 .. Len(r.headers) /\ First(m)
    <3>1. ASSUME NEW j \in 1 .. m - 1 PROVE Name(r, j) # k
      <4>1. j \in 1 .. Len(r.headers) /\ ~(m <= j)
        BY RequestTypes
      <4>2. j \notin S
        BY <2>2, <4>1
      <4> QED BY <4>1, <4>2
    <3> QED BY <3>1
  <2>4. f = CHOOSE m_1 \in 1 .. Len(r.headers) : First(m_1)
    BY DEF FirstNamed
  <2> HIDE DEF First
  <2> QED BY <2>3, <2>4
<1>3. Meant(r)[k] = Value(r.headers[f].lines)
  BY DEF Meant
<1> HIDE DEF f
<1>4. Value(r.headers[f].lines) \in Seq(Sym)
  <2> DEFINE lines == r.headers[f].lines
  <2>1. lines \in Seq(Seq(Sym)) /\ Len(lines) >= 1 /\ Len(lines) \in Nat
    BY <1>2, LineTypes
  <2> HIDE DEF lines
  <2>2. Len(lines) \in 1 .. Len(lines)
    BY <2>1
  <2>3. ValueUpTo(lines, Len(lines)) \in Seq(Sym)
    BY <2>1, <2>2, ValueLine
  <2>4. Value(lines) \in Seq(Sym)
    BY <2>1, <2>3, ValueAll
  <2> QED BY <2>4 DEF lines
<1> QED BY <1>3, <1>4

\* The announced length is a size_t, and for a proper request that of its body.
LEMMA LengthType ==
  ASSUME NEW r \in Requests, Announces(r)
  PROVE  Length(r) \in Nat /\ (Proper(r) => Length(r) = Len(r.body))
<1> DEFINE v == Meant(r)[ContentLength]
<1>1. v \in Seq(Sym)
  BY MeantType DEF Announces
<1>2. Len(r.body) \in Nat /\ Len(r.body) < Word
  BY RequestTypes
<1>3. Proper(r) => Number(v) = Len(r.body)
  BY DEF Proper
<1> HIDE DEF v
<1>4. Announced(v) \in Nat /\ (Number(v) = Len(r.body) => Announced(v) = Len(r.body))
  BY <1>1, <1>2, AnnouncedType
<1> QED BY <1>3, <1>4 DEF Length, v
-----------------------------------------------------------------------------
\* The states before the method is known.
First == {"METHOD_START", "METHOD"}

\* Past the method it is kept as long as it is not read over.
LEMMA Kept ==
  ASSUME NEW r \in Requests, MethodKept(r), state \notin First, state' \notin First,
         UNCHANGED <<message, method>>
  PROVE  MethodKept(r)'
  BY DEF MethodKept, First

\* A symbol of the header leads from stage to stage, and the last to the body.
LEMMA HeaderStep ==
  ASSUME TypeOK, ConsumeHeader, NEW r \in Requests, Readable(r), MethodKept(r), Stage(r)
  PROVE  /\ MethodKept(r)' /\ body' = body
         /\ \/ Stage(r)' /\ phase' = "header"
            \/ /\ state' = "CONTENT_BODY" /\ uri' = UrlDecode(r.uri) /\ headers' = Meant(r)
               /\ toCome' = r.body /\ phase' = "payload"
<1>1. UNCHANGED message
  BY DEF ConsumeHeader
<1>2. CASE AtStart(r)
  <2>1. AfterMethod(r)' /\ phase' = "header" /\ body' = body /\ method' = method
    BY <1>2, FromStart
  <2>2. MethodKept(r)'
    BY <1>2, <2>1 DEF MethodKept, AtStart, AfterMethod
  <2> QED BY <2>1, <2>2 DEF Stage
<1>3. CASE AfterMethod(r)
  <2>1. InUri(r, 0)' /\ phase' = "header" /\ body' = body /\ method' = MethodType(<<r.method>>)
    BY <1>3, FromMethod
  <2>2. MethodKept(r)' /\ 0 \in 0 .. Len(r.uri)
    BY <2>1 DEF MethodKept, InUri
  <2> QED BY <2>1, <2>2 DEF Stage
<1>4. CASE AtFirstLine(r)
  <2>1. /\ AtEnd(r)' \/ (1 \in 1 .. Len(r.headers) /\ AfterName(r, 1)')
        /\ phase' = "header" /\ body' = body /\ method' = method
    BY <1>4, FromFirstLine
  <2>2. state \notin First /\ state' \notin First
    BY <1>4, <2>1 DEF First, AtFirstLine, AtEnd, AfterName
  <2>3. MethodKept(r)'
    BY <1>1, <2>1, <2>2, Kept
  <2> QED BY <2>1, <2>3 DEF Stage
<1>5. CASE AtEnd(r)
  <2>1. /\ state' = "CONTENT_BODY" /\ uri' = UrlDecode(r.uri) /\ headers' = Meant(r)
        /\ toCome' = r.body /\ phase' = "payload" /\ body' = body /\ method' = method
    BY <1>5, FromEnd
  <2>2. state \notin First /\ state' \notin First
    BY <1>5, <2>1 DEF First, AtEnd
  <2>3. MethodKept(r)'
    BY <1>1, <2>1, <2>2, Kept
  <2> QED BY <2>1, <2>3
<1>6. CASE \E n \in 0 .. Len(r.uri) : InUri(r, n)
  <2>1. PICK n \in 0 .. Len(r.uri) : InUri(r, n)
    BY <1>6
  <2>2. /\ InVersion(r, 1)' \/ (n + 1 \in 0 .. Len(r.uri) /\ InUri(r, n + 1)')
        /\ phase' = "header" /\ body' = body /\ method' = method
    BY <2>1, FromUri
  <2>3. state \notin First /\ state' \notin First
    BY <2>1, <2>2 DEF First, InUri, InVersion, VersionState
  <2>4. MethodKept(r)'
    BY <1>1, <2>2, <2>3, Kept
  <2>5. Stage(r)'
    <3>1. CASE InVersion(r, 1)'
      <4>1. 1 \in 1 .. 10
        OBVIOUS
      <4> QED BY <3>1, <4>1 DEF Stage
    <3>2. CASE n + 1 \in 0 .. Len(r.uri) /\ InUri(r, n + 1)'
      BY <3>2 DEF Stage
    <3> QED BY <2>2, <3>1, <3>2
  <2> QED BY <2>2, <2>4, <2>5
<1>7. CASE \E n \in 1 .. 10 : InVersion(r, n)
  <2>1. PICK n \in 1 .. 10 : InVersion(r, n)
    BY <1>7
  <2>2. /\ IF n = 10 THEN AtFirstLine(r)' ELSE InVersion(r, n + 1)'
        /\ phase' = "header" /\ body' = body /\ method' = method
    BY <2>1, FromVersion
  <2>3. \A m \in 1 .. 10 : VersionState[m] \notin First
    BY VersionPath DEF First, VersionFrom
  <2>4. state \notin First
    BY <2>1, <2>3 DEF InVersion
  <2>5. Stage(r)' /\ state' \notin First
    <3>1. CASE n = 10
      BY <2>2, <3>1 DEF Stage, AtFirstLine, First
    <3>2. CASE n # 10
      <4>1. n + 1 \in 1 .. 10
        BY <3>2
      <4> QED BY <2>2, <2>3, <3>2, <4>1 DEF Stage, InVersion
    <3> QED BY <3>1, <3>2
  <2>6. MethodKept(r)'
    BY <1>1, <2>2, <2>4, <2>5, Kept
  <2> QED BY <2>2, <2>5, <2>6
<1>8. ASSUME NEW i \in 1 .. Len(r.headers), AfterName(r, i) \/ AfterColon(r, i)
      PROVE  MethodKept(r)' /\ body' = body /\ Stage(r)' /\ phase' = "header"
  <2>1. CASE AfterName(r, i)
    <3>1. AfterColon(r, i)' /\ phase' = "header" /\ body' = body /\ method' = method
      BY <2>1, FromName
    <3>2. state \notin First /\ state' \notin First
      BY <2>1, <3>1 DEF First, AfterName, AfterColon
    <3>3. MethodKept(r)'
      BY <1>1, <3>1, <3>2, Kept
    <3> QED BY <3>1, <3>3 DEF Stage
  <2>2. CASE AfterColon(r, i)
    <3>1. /\ 1 \in 1 .. Len(r.headers[i].lines) /\ 0 \in 0 .. Len(r.headers[i].lines[1])
          /\ InLine(r, i, 1, 0)' /\ phase' = "header" /\ body' = body /\ method' = method
      BY <2>2, FromColon
    <3>2. state \notin First /\ state' \notin First
      BY <2>2, <3>1 DEF First, InLine, AfterColon
    <3>3. MethodKept(r)'
      BY <1>1, <3>1, <3>2, Kept
    <3> QED BY <3>1, <3>3 DEF Stage
  <2> QED BY <1>8, <2>1, <2>2
<1>9. ASSUME NEW i \in 1 .. Len(r.headers), NEW l \in 1 .. Len(r.headers[i].lines),
             AtLine(r, i, l) \/ AfterReturn(r, i, l)
      PROVE  MethodKept(r)' /\ body' = body /\ Stage(r)' /\ phase' = "header"
  <2>1. CASE AtLine(r, i, l)
    <3>1. /\ \/ AtEnd(r)'
             \/ i + 1 \in 1 .. Len(r.headers) /\ AfterName(r, i + 1)'
             \/ /\ l + 1 \in 1 .. Len(r.headers[i].lines) /\ 0 \in 0 .. Len(r.headers[i].lines[l + 1])
                /\ InLine(r, i, l + 1, 0)'
          /\ phase' = "header" /\ body' = body /\ method' = method
      BY <2>1, FromLine
    <3>2. state \notin First /\ state' \notin First
      BY <2>1, <3>1 DEF First, AtLine, AtEnd, AfterName, InLine
    <3>3. MethodKept(r)'
      BY <1>1, <3>1, <3>2, Kept
    <3>4. Stage(r)'
      BY <3>1 DEF Stage
    <3> QED BY <3>1, <3>3, <3>4
  <2>2. CASE AfterReturn(r, i, l)
    <3>1. AtLine(r, i, l)' /\ phase' = "header" /\ body' = body /\ method' = method
      BY <2>2, FromReturn
    <3>2. state \notin First /\ state' \notin First
      BY <2>2, <3>1 DEF First, AtLine, AfterReturn
    <3>3. MethodKept(r)'
      BY <1>1, <3>1, <3>2, Kept
    <3> QED BY <3>1, <3>3 DEF Stage
  <2> QED BY <1>9, <2>1, <2>2
<1>10. ASSUME NEW i \in 1 .. Len(r.headers), NEW l \in 1 .. Len(r.headers[i].lines),
              NEW n \in 0 .. Len(r.headers[i].lines[l]), InLine(r, i, l, n)
       PROVE  MethodKept(r)' /\ body' = body /\ Stage(r)' /\ phase' = "header"
  <2>1. /\ AfterReturn(r, i, l)' \/ (n + 1 \in 0 .. Len(r.headers[i].lines[l]) /\ InLine(r, i, l, n + 1)')
        /\ phase' = "header" /\ body' = body /\ method' = method
    BY <1>10, FromInLine
  <2>2. state \notin First /\ state' \notin First
    BY <1>10, <2>1 DEF First, AfterReturn, InLine
  <2>3. MethodKept(r)'
    BY <1>1, <2>1, <2>2, Kept
  <2>4. Stage(r)'
    BY <2>1 DEF Stage
  <2> QED BY <2>1, <2>3, <2>4
<1> QED
  BY <1>2, <1>3, <1>4, <1>5, <1>6, <1>7, <1>8, <1>9, <1>10 DEF Stage
-----------------------------------------------------------------------------
\* Every stage is one of the header, and something is to come in it.
LEMMA StageState ==
  ASSUME NEW r \in Requests, Stage(r)
  PROVE  state # "CONTENT_BODY"
<1>1. \A n \in 1 .. 10 : VersionState[n] # "CONTENT_BODY"
  BY VersionPath DEF VersionFrom
<1> QED
  BY <1>1 DEF Stage, AtStart, AfterMethod, AtFirstLine, AtEnd, InUri, InVersion, AfterName, AfterColon,
              AtLine, AfterReturn, InLine

\* What begins with something is something.
LEMMA LongerThan ==
  /\ \A c \in Sym, t \in Seq(Sym) : <<c>> \o t # <<>>
  /\ \A s, t \in Seq(Sym) : s # <<>> \/ t # <<>> => s \o t # <<>>
<1>1. ASSUME NEW s \in Seq(Sym), NEW t \in Seq(Sym), t # <<>> \/ s # <<>> PROVE s \o t # <<>>
  <2>1. Len(s \o t) = Len(s) + Len(t) /\ Len(s) \in Nat /\ Len(t) \in Nat
    BY ConcatProperties
  <2>2. Len(s) + Len(t) # 0
    BY <1>1, <2>1
  <2> QED BY <2>1, <2>2
<1>2. ASSUME NEW c \in Sym, NEW t \in Seq(Sym) PROVE <<c>> \o t # <<>>
  <2> DEFINE e == <<c>>
  <2>1. e \in Seq(Sym) /\ e # <<>>
    OBVIOUS
  <2> HIDE DEF e
  <2>2. e \o t # <<>>
    BY <1>1, <2>1
  <2> QED BY <2>2 DEF e
<1> QED BY <1>1, <1>2

\* After every header and every line of it something is to come, ...
LEMMA NotAtEnd ==
  ASSUME NEW r \in Requests
  PROVE  /\ \A i \in 0 .. Len(r.headers) : AfterHeaders(r, i) # <<>>
         /\ \A i \in 1 .. Len(r.headers) : \A l \in 0 .. Len(r.headers[i].lines) :
              AfterLine(r, i, l) # <<>>
<1>1. CrLf \o r.body \in Seq(Sym) /\ CrLf \o r.body # <<>>
  <2>1. CrLf \in Seq(Sym) /\ CrLf # <<>>
    BY LineEnds DEF CrLf
  <2> QED BY <2>1, RequestTypes, ToComeTypes, LongerThan
<1>2. ASSUME NEW i \in 0 .. Len(r.headers) PROVE AfterHeaders(r, i) # <<>>
  <2>1. After(Heads(r), i) \in Seq(Sym)
    BY HeadsType, AfterIs
  <2> QED BY <1>1, <2>1, LongerThan DEF AfterHeaders
<1>3. ASSUME NEW i \in 1 .. Len(r.headers), NEW l \in 0 .. Len(r.headers[i].lines)
      PROVE  AfterLine(r, i, l) # <<>>
  <2>1. After(Lines(r.headers[i]), l) \in Seq(Sym)
    BY LinesType, AfterIs
  <2>2. i \in 0 .. Len(r.headers)
    BY RequestTypes
  <2>3. AfterHeaders(r, i) \in Seq(Sym) /\ AfterHeaders(r, i) # <<>>
    BY <1>2, <2>2, ToComeTypes
  <2> QED BY <2>1, <2>3, LongerThan DEF AfterLine
<1> QED BY <1>2, <1>3

\* ... so that in no stage of the header the message is at its end.
LEMMA StageGoesOn ==
  ASSUME NEW r \in Requests, Stage(r)
  PROVE  toCome # <<>>
<1>1. /\ AfterHeaders(r, 0) \in Seq(Sym) /\ AfterHeaders(r, 0) # <<>>
      /\ Version \o AfterHeaders(r, 0) \in Seq(Sym) /\ Version \o AfterHeaders(r, 0) # <<>>
  <2>1. 0 \in 0 .. Len(r.headers)
    BY RequestTypes
  <2>2. AfterHeaders(r, 0) \in Seq(Sym) /\ AfterHeaders(r, 0) # <<>>
    BY <2>1, ToComeTypes, NotAtEnd
  <2>3. Version \in Seq(Sym) /\ Version \o AfterHeaders(r, 0) \in Seq(Sym)
    BY Encoded
  <2>4. Version \o AfterHeaders(r, 0) # <<>>
    BY <2>2, <2>3, LongerThan
  <2> QED BY <2>2, <2>3, <2>4
<1>2. <<Space>> \o (r.uri \o (Version \o AfterHeaders(r, 0))) # <<>>
      /\ <<r.method>> \o (<<Space>> \o (r.uri \o (Version \o AfterHeaders(r, 0)))) # <<>>
  <2>1. r.uri \o (Version \o AfterHeaders(r, 0)) \in Seq(Sym) /\ Space \in Sym /\ r.method \in Sym
    BY <1>1, RequestTypes, Joined, Symbols
  <2>2. <<Space>> \o (r.uri \o (Version \o AfterHeaders(r, 0))) \in Seq(Sym)
    BY <2>1, LineEnds, Joined
  <2> QED BY <2>1, <2>2, LongerThan
<1>3. CASE AtStart(r) \/ AfterMethod(r) \/ AtFirstLine(r) \/ AtEnd(r)
  <2>1. <<"\n">> \o r.body # <<>>
    BY RequestTypes, Symbols, LongerThan
  <2> QED BY <1>1, <1>2, <1>3, <2>1, Encoded DEF AtStart, AfterMethod, AtFirstLine, AtEnd
<1>4. ASSUME NEW n \in 0 .. Len(r.uri), InUri(r, n) PROVE toCome # <<>>
  <2>1. Rest(r.uri, n) \in Seq(Sym)
    BY RequestTypes, RestType
  <2> QED BY <1>1, <1>4, <2>1, LongerThan DEF InUri
<1>5. ASSUME NEW n \in 1 .. 10, InVersion(r, n) PROVE toCome # <<>>
  <2>1. Version \in Seq(Sym) /\ Len(Version) = 11
    BY Encoded DEF Version
  <2>2. n \in 0 .. Len(Version)
    BY <2>1
  <2>3. Rest(Version, n) \in Seq(Sym)
    BY <2>1, <2>2, RestType
  <2> QED BY <1>1, <1>5, <2>3, LongerThan DEF InVersion
<1>6. ASSUME NEW i \in 1 .. Len(r.headers), AfterName(r, i) \/ AfterColon(r, i) PROVE toCome # <<>>
  <2>1. 0 \in 0 .. Len(r.headers[i].lines)
    BY LineTypes
  <2>2. AfterLine(r, i, 0) \in Seq(Sym) /\ AfterLine(r, i, 0) # <<>>
    BY <2>1, ToComeTypes, NotAtEnd
  <2>3. <<":">> \o AfterLine(r, i, 0) # <<>>
    BY <2>2, Symbols, LongerThan
  <2> QED BY <1>6, <2>2, <2>3 DEF AfterName, AfterColon
<1>7. ASSUME NEW i \in 1 .. Len(r.headers), NEW l \in 1 .. Len(r.headers[i].lines)
      PROVE  /\ AtLine(r, i, l) \/ AfterReturn(r, i, l) => toCome # <<>>
             /\ \A n \in 0 .. Len(r.headers[i].lines[l]) : InLine(r, i, l, n) => toCome # <<>>
  <2>1. l \in 0 .. Len(r.headers[i].lines)
    BY LineTypes
  <2>2. AfterLine(r, i, l) \in Seq(Sym) /\ AfterLine(r, i, l) # <<>>
    BY <2>1, ToComeTypes, NotAtEnd
  <2>3. <<"\n">> \o AfterLine(r, i, l) # <<>>
    BY <2>2, Symbols, LongerThan
  <2>4. CrLf \o AfterLine(r, i, l) \in Seq(Sym) /\ CrLf \o AfterLine(r, i, l) # <<>>
    BY <2>2, LineEnds, Joined, LongerThan
  <2>5. ASSUME NEW n \in 0 .. Len(r.headers[i].lines[l]), InLine(r, i, l, n) PROVE toCome # <<>>
    <3>1. Rest(r.headers[i].lines[l], n) \in Seq(Sym)
      BY LineTypes, RestType
    <3> QED BY <2>4, <2>5, <3>1, LongerThan DEF InLine
  <2> QED BY <2>2, <2>3, <2>5 DEF AtLine, AfterReturn
<1> QED BY <1>3, <1>4, <1>5, <1>6, <1>7 DEF Stage
-----------------------------------------------------------------------------
\* A client whose message is not read yet is at its start.
LEMMA OnTrackInit == ClientInit => OnTrack
<1> SUFFICES ASSUME ClientInit, message = Encode(sent), Readable(sent)
             PROVE  sent \in Requests /\ OnTrackOf(sent)
  BY DEF ClientInit, OnTrack
<1>1. sent \in Requests /\ message \in Seq(Sym) /\ Init
  BY MessagesAssumption DEF ClientInit, Init
<1>2. toCome = message
  <2>1. <<>> \o message = message
    BY <1>1, Joined
  <2> QED BY <1>1, <2>1 DEF Init, toCome
<1>3. AtStart(sent)
  BY <1>1, <1>2 DEF Init, AtStart, NoHeaders
<1>4. InHeader(sent) /\ MethodKept(sent)
  BY <1>1, <1>3 DEF InHeader, Stage, Init, MethodKept
<1>5. Consumed /\ Filled
  BY <1>1 DEF Init, Consumed, Filled
<1> QED BY <1>1, <1>4, <1>5 DEF OnTrackOf

\* A step that leaves the parser and what is to come alone leaves it where it is.
LEMMA StageStays ==
  ASSUME NEW r \in Requests, Stage(r), UNCHANGED <<parserVars, uri, headers>>, toCome' = toCome
  PROVE  Stage(r)'
<1>1. /\ state' = state /\ method_' = method_ /\ header_key_' = header_key_ /\ header_val_' = header_val_
      /\ uri' = uri /\ headers' = headers /\ toCome' = toCome
  BY DEF parserVars
<1>2. NoHeaders' = NoHeaders /\ \A i, v : Holds(r, i, v)' = Holds(r, i, v)
  BY <1>1 DEF NoHeaders, Holds
<1>3. /\ AtStart(r) => AtStart(r)'
      /\ AfterMethod(r) => AfterMethod(r)'
      /\ AtFirstLine(r) => AtFirstLine(r)'
      /\ AtEnd(r) => AtEnd(r)'
      /\ \A n : InUri(r, n) => InUri(r, n)'
      /\ \A n : InVersion(r, n) => InVersion(r, n)'
  BY <1>1 DEF NoHeaders, Holds, AtStart, AfterMethod, AtFirstLine, AtEnd, InUri, InVersion
<1>4. /\ \A i : AfterName(r, i) => AfterName(r, i)'
      /\ \A i : AfterColon(r, i) => AfterColon(r, i)'
      /\ \A i, l : AtLine(r, i, l) => AtLine(r, i, l)'
      /\ \A i, l : AfterReturn(r, i, l) => AfterReturn(r, i, l)'
      /\ \A i, l, n : InLine(r, i, l, n) => InLine(r, i, l, n)'
  <2>1. /\ \A i : AfterName(r, i) => AfterName(r, i)'
        /\ \A i : AfterColon(r, i) => AfterColon(r, i)'
    BY <1>1 DEF Holds, AfterName, AfterColon
  <2>2. /\ \A i, l : AtLine(r, i, l) => AtLine(r, i, l)'
        /\ \A i, l : AfterReturn(r, i, l) => AfterReturn(r, i, l)'
    BY <1>1 DEF Holds, AtLine, AfterReturn
  <2>3. \A i, l, n : InLine(r, i, l, n) => InLine(r, i, l, n)'
    <3> SUFFICES ASSUME NEW i, NEW l, NEW n, InLine(r, i, l, n) PROVE InLine(r, i, l, n)'
      OBVIOUS
    <3> DEFINE v == ValueSoFar(r.headers[i].lines, l, n)
    <3>1. Holds(r, i, v)
      BY DEF InLine
    <3>2. Holds(r, i, v)'
      BY <1>1, <3>1 DEF Holds
    <3> QED BY Zenon, <1>1, <3>2 DEF InLine
  <2> QED BY <2>1, <2>2, <2>3
<1> QED BY <1>3, <1>4 DEF Stage

\* Until the method is known at most its one symbol was consumed.
LEMMA MethodFirst ==
  ASSUME NEW r \in Requests, message = Encode(r), Stage(r), state \in First
  PROVE  Len(message) <= Len(toCome) + 1
<1>1. AtStart(r) \/ AfterMethod(r)
  <2>1. \A n \in 1 .. 10 : VersionState[n] \notin First
    BY VersionPath DEF VersionFrom, First
  <2> QED BY <2>1 DEF Stage, First, AtFirstLine, AtEnd, InUri, InVersion, AfterName, AfterColon,
                      AtLine, AfterReturn, InLine
<1> DEFINE c == r.method
           t == <<Space>> \o (r.uri \o (Version \o AfterHeaders(r, 0)))
<1>2. c \in Sym /\ t \in Seq(Sym) /\ Encode(r) = <<c>> \o t
  BY RequestTypes, Encoded, LineEnds, Joined
<1> HIDE DEF c, t
<1>3. <<c>> \in Seq(Sym) /\ Len(<<c>>) = 1 /\ Len(t) \in Nat
  BY <1>2
<1>4. Len(Encode(r)) = 1 + Len(t)
  BY <1>2, <1>3, ConcatProperties
<1>5. toCome = Encode(r) \/ toCome = t
  BY <1>1 DEF AtStart, AfterMethod, t
<1> QED BY <1>3, <1>4, <1>5

\* A read moves symbols from the wire to the buffer; what is to come stays.
LEMMA ReadSomeOnTrack ==
  ASSUME TypeOK, NEW r \in Requests, message = Encode(r), OnTrackOf(r),
         NEW n \in 1 .. BufSize, ReadSome(n)
  PROVE  OnTrackOf(r)'
<1>1. /\ wire \in Seq(Sym) /\ Len(wire) \in Nat /\ n \in 1 .. Len(wire) /\ n \in Nat
      /\ phase = "reading" /\ buffer = <<>>
  BY SizeAssumption, Typed DEF ReadSome, OnTrackOf, InHeader, InBody
<1>2. buffer' \o wire' = wire /\ Len(buffer') + Len(wire') = Len(wire)
  <2>1. \A i \in 1 .. Len(wire) : wire[i] \in Sym
    BY <1>1
  <2>2. SubSeq(wire, 1, n) \o SubSeq(wire, n + 1, Len(wire)) = SubSeq(wire, 1, Len(wire))
    <3>1. 1 \in 1 .. Len(wire) + 1 /\ n \in 1 - 1 .. Len(wire) /\ Len(wire) \in n .. Len(wire)
      BY <1>1
    <3> QED BY <1>1, <3>1, ConcatAdjacentSubSeq
  <2>3. SubSeq(wire, 1, Len(wire)) = wire
    BY <1>1, SubSeqFull
  <2>4. Len(SubSeq(wire, 1, n)) = n /\ Len(SubSeq(wire, n + 1, Len(wire))) = Len(wire) - n
    BY <1>1, <2>1, SubSeqProperties
  <2> DEFINE b == SubSeq(wire, 1, n)
             w == SubSeq(wire, n + 1, Len(wire))
  <2>5. buffer' = b /\ wire' = w
    BY DEF ReadSome
  <2>6. b \o w = wire /\ Len(b) + Len(w) = Len(wire)
    <3>1. Len(b) = n /\ Len(w) = Len(wire) - n
      BY <2>4
    <3>2. b \o w = wire
      BY <2>2, <2>3
    <3> HIDE DEF b, w
    <3> QED BY <1>1, <3>1, <3>2
  <2> HIDE DEF b, w
  <2> QED BY <2>5, <2>6
<1>3. toCome' = toCome
  <2>1. <<>> \o wire = wire
    BY <1>1, Joined
  <2> QED BY <1>1, <1>2, <2>1 DEF toCome
<1>4. UNCHANGED <<message, parserVars, uri, headers, body>>
      /\ state' = state /\ body' = body /\ message' = message /\ uri' = uri /\ headers' = headers
  BY DEF ReadSome, parserVars
<1>5. Consumed'
  BY <1>1, <1>2, <1>4 DEF Consumed, OnTrackOf
<1>6. MethodKept(r)'
  <2>1. CASE method' = method
    BY <1>4, <2>1 DEF OnTrackOf, MethodKept
  <2>2. CASE method' # method
    <3>1. method' = "GET" /\ n = BufSize /\ method \in Method
      BY <2>2 DEF ReadSome
    <3>2. state \notin {"METHOD_START", "METHOD"}
      BY <3>1 DEF OnTrackOf, MethodKept, Method
    <3>3. Len(message) > BufSize
      <4>1. 0 + Len(wire) + 1 <= Len(message) /\ Len(wire) >= BufSize
        BY <1>1, <3>1, <3>2 DEF OnTrackOf, Consumed
      <4>2. Len(message) \in Nat
        BY LenProperties DEF TypeOK
      <4> QED BY <1>1, <4>1, <4>2, SizeAssumption
    <3> QED BY <1>4, <3>1, <3>2, <3>3 DEF MethodKept
  <2> QED BY <2>1, <2>2
<1>9. Filled'
  <2> SUFFICES ASSUME n = BufSize
               PROVE  /\ Len(wire') + BufSize <= Len(message)
                      /\ method' # "GET" => Len(message) <= Len(wire') + BufSize + 1
    BY <1>4 DEF Filled, ReadSome
  <2>1. Len(wire) <= Len(message) /\ Len(wire) = Len(wire') + BufSize
        /\ Len(message) \in Nat /\ Len(wire') \in Nat
    <3>1. Len(wire) + (IF state = "METHOD_START" THEN 0 ELSE 1) <= Len(message)
      BY <1>1 DEF OnTrackOf, Consumed
    <3>2. Len(message) \in Nat /\ Len(wire') \in Nat /\ Len(buffer') = n
      <4>1. Len(message) \in Nat /\ Len(wire') \in Nat
        BY ReadSomeTypes, LenProperties DEF TypeOK
      <4>2. \A i \in 1 .. Len(wire) : wire[i] \in Sym
        BY <1>1
      <4> QED BY <1>1, <4>1, <4>2, SubSeqProperties DEF ReadSome
    <3> DEFINE a == Len(wire)
               b == Len(buffer')
               w == Len(wire')
               m == Len(message)
    <3>3. b + w = a /\ b = BufSize /\ a \in Nat /\ w \in Nat /\ m \in Nat /\ BufSize \in Nat
      BY <1>1, <1>2, <3>2, SizeAssumption
    <3>4. a <= m \/ a + 1 <= m
      BY <1>1, <3>1
    <3> HIDE DEF a, b, w, m
    <3>5. a <= m /\ a = w + BufSize
      BY <3>3, <3>4
    <3> QED BY <3>2, <3>5 DEF a, w, m
  <2>2. ASSUME method' # "GET" PROVE Len(message) <= Len(wire) + 1
    <3>1. method \notin Method
      BY <2>2 DEF ReadSome
    <3>2. state \in First
      BY <3>1 DEF OnTrackOf, MethodKept, MethodType, Method, First
    <3>3. Stage(r)
      BY <3>2 DEF OnTrackOf, InHeader, InBody, First
    <3>4. toCome = wire
      BY <1>1, Joined DEF toCome
    <3> QED BY <3>2, <3>3, <3>4, MethodFirst
  <2> QED BY <2>1, <2>2
<1>7. CASE InHeader(r)
  <2>1. Stage(r) /\ body = <<>>
    BY <1>7 DEF InHeader
  <2>2. state # "CONTENT_BODY"
    BY <2>1, StageState
  <2>3. phase' = "header"
    BY <2>2 DEF ReadSome, Resumes
  <2>4. Stage(r)'
    BY <1>3, <1>4, <2>1, StageStays
  <2> QED BY <1>4, <1>5, <1>6, <1>9, <2>1, <2>3, <2>4 DEF OnTrackOf, InHeader
<1>8. CASE InBody(r)
  <2>1. phase' = "payload"
    BY <1>8 DEF ReadSome, Resumes, InBody
  <2>2. Overrun' = <<>>
    <3>1. method \in Method
      BY <1>8 DEF OnTrackOf, InBody, MethodKept, MethodType, Method
    <3>2. full' => method' = "GET"
      BY <3>1 DEF ReadSome
    <3> QED BY <3>2 DEF Overrun
  <2>3. InBody(r)'
    BY <1>3, <1>4, <1>8, <2>1, <2>2 DEF InBody, Pending
  <2> QED BY <1>5, <1>6, <1>9, <2>3 DEF OnTrackOf
<1> QED BY <1>7, <1>8 DEF OnTrackOf

\* A symbol of the header keeps the parser on track, ...
LEMMA ConsumeHeaderOnTrack ==
  ASSUME TypeOK, NEW r \in Requests, message = Encode(r), Readable(r), OnTrackOf(r), ConsumeHeader
  PROVE  OnTrackOf(r)'
<1>1. Stage(r) /\ body = <<>> /\ MethodKept(r)
  BY DEF ConsumeHeader, OnTrackOf, InHeader, InBody
<1>2. Consumed'
  <2>1. Len(buffer') = Len(buffer) - 1 /\ Len(buffer) \in Nat /\ Len(wire) \in Nat
    BY Typed, HeadTailProperties DEF ConsumeHeader
  <2>2. message' = message /\ wire' = wire /\ Len(message) \in Nat
    BY LenProperties DEF ConsumeHeader, TypeOK
  <2> QED BY <2>1, <2>2 DEF OnTrackOf, Consumed
<1>3. /\ MethodKept(r)' /\ body' = body
      /\ \/ Stage(r)' /\ phase' = "header"
         \/ /\ state' = "CONTENT_BODY" /\ uri' = UrlDecode(r.uri) /\ headers' = Meant(r)
            /\ toCome' = r.body /\ phase' = "payload"
  BY <1>1, HeaderStep
<1>6. Filled'
  <2>1. full' = full /\ wire' = wire /\ message' = message
    BY DEF ConsumeHeader
  <2>2. method' # "GET" => method # "GET"
    BY <1>1 DEF ConsumeHeader, MethodKept
  <2> QED BY <2>1, <2>2 DEF OnTrackOf, Filled
<1>4. CASE Stage(r)' /\ phase' = "header"
  BY <1>1, <1>2, <1>3, <1>4, <1>6 DEF OnTrackOf, InHeader
<1>5. CASE /\ state' = "CONTENT_BODY" /\ uri' = UrlDecode(r.uri) /\ headers' = Meant(r)
           /\ toCome' = r.body /\ phase' = "payload"
  <2>1. body' = <<>> /\ r.body \in Seq(Sym)
    BY <1>1, <1>3, RequestTypes
  <2>2. <<>> \o r.body = r.body /\ Len(<<>>) = 0 /\ Len(r.body) \in Nat
    BY <2>1, Joined
  <2>3. Overrun' # <<>> /\ Announces(r) => MayOverrun(r)
    <3> SUFFICES ASSUME Overrun' # <<>>, Announces(r) PROVE MayOverrun(r)
      OBVIOUS
    <3>1. full' /\ method' # "GET"
      BY DEF Overrun
    <3>2. MethodType(<<r.method>>) # "GET"
      BY <1>3, <1>5, <3>1 DEF MethodKept
    <3>3. message' = message /\ wire' = wire
      BY DEF ConsumeHeader
    <3>4. Len(wire) + BufSize <= Len(message) /\ Len(message) <= Len(wire) + BufSize + 1
      BY <1>6, <3>1, <3>3 DEF Filled
    <3>5. Len(r.body) = Len(buffer') + Len(wire') /\ Len(buffer') \in Nat
      <4>1. buffer' \in Seq(Sym) /\ wire' \in Seq(Sym)
        BY ConsumeHeaderTypes DEF TypeOK
      <4>2. buffer' \o wire' = r.body
        BY <1>5 DEF toCome
      <4>3. Len(buffer' \o wire') = Len(buffer') + Len(wire')
        BY <4>1, ConcatProperties
      <4>4. Len(buffer') \in Nat
        BY <4>1, LenProperties
      <4> QED BY <4>2, <4>3, <4>4
    <3>6. Len(message) \in Nat /\ Len(wire) \in Nat /\ BufSize \in Nat
      BY Typed, LenProperties, SizeAssumption DEF TypeOK
    <3>7. BufSize <= Len(message) /\ Len(message) - Len(r.body) <= BufSize + 1
      BY <2>2, <3>3, <3>4, <3>5, <3>6
    <3> QED BY <3>2, <3>7 DEF MayOverrun
  <2>4. Len(body') + Len(toCome') = Len(r.body) /\ body' \o toCome' = r.body
    BY <1>5, <2>1, <2>2
  <2>5. Len(r.body) <= Len(r.body) + Extra(r) /\ Len(r.body) <= Len(r.body)
    <3>1. Extra(r) \in {0, 1}
      BY DEF Extra
    <3> QED BY <2>2, <3>1
  <2>6. Proper(r) /\ Announces(r) => Pending(r)'
    BY <1>5, <2>4, <2>5 DEF Proper, Pending
  <2>7. InBody(r)'
    BY <1>5, <2>3, <2>4, <2>5, <2>6 DEF InBody, OverrunsOnce
  <2> QED BY <1>2, <1>3, <1>6, <2>7 DEF OnTrackOf
<1> QED BY <1>3, <1>4, <1>5

\* ... a header that is not read yet asks for more, ...
LEMMA HeaderIndeterminateOnTrack ==
  ASSUME NEW r \in Requests, OnTrackOf(r), HeaderIndeterminate
  PROVE  OnTrackOf(r)'
<1>1. Stage(r) /\ body = <<>> /\ buffer = <<>> /\ phase' = "reading"
  BY DEF HeaderIndeterminate, OnTrackOf, InHeader, InBody
<1>2. /\ UNCHANGED <<parserVars, uri, headers>> /\ toCome' = toCome /\ body' = body
      /\ buffer' = buffer /\ wire' = wire /\ state' = state /\ message' = message /\ method' = method
      /\ full' = full
  BY DEF HeaderIndeterminate, requestVars, parserVars, toCome
<1>3. Stage(r)'
  BY <1>1, <1>2, StageStays
<1> QED BY <1>1, <1>2, <1>3 DEF OnTrackOf, InHeader, Consumed, MethodKept, Filled

\* ... and the payload adds what was read to the body.
LEMMA ConsumePayloadOnTrack ==
  ASSUME TypeOK, NEW r \in Requests, OnTrackOf(r), ConsumePayload
  PROVE  OnTrackOf(r)'
<1>1. phase = "payload" /\ InBody(r)
  BY DEF ConsumePayload, OnTrackOf, InHeader
<1>2. /\ buffer' = <<>> /\ wire' = wire /\ message' = message /\ state' = state /\ method' = method
      /\ uri' = uri /\ headers' = headers /\ Len(<<>>) = 0
  BY DEF ConsumePayload, parserVars
<1>3. /\ buffer \in Seq(Sym) /\ wire \in Seq(Sym) /\ body \in Seq(Sym) /\ Len(body) \in Nat
      /\ Len(buffer) \in Nat /\ Len(wire) \in Nat /\ Len(toCome) = Len(buffer) + Len(wire)
      /\ Len(message) \in Nat /\ r.body \in Seq(Sym) /\ Len(r.body) \in Nat
  <2>1. Len(body) \in Nat /\ Len(message) \in Nat
    BY LenProperties DEF TypeOK
  <2>2. r.body \in Seq(Sym) /\ Len(r.body) \in Nat
    BY RequestTypes
  <2> QED BY <2>1, <2>2, Typed
<1>4. toCome' = wire
  BY <1>2, <1>3, Joined DEF toCome
<1>5. Consumed' /\ MethodKept(r)' /\ Filled'
  <2>1. Consumed'
    BY <1>2, <1>3 DEF OnTrackOf, Consumed
  <2>2. full' = full
    BY DEF ConsumePayload
  <2> QED BY <1>2, <2>1, <2>2 DEF OnTrackOf, MethodKept, Filled
<1>6. /\ state = "CONTENT_BODY" /\ uri = UrlDecode(r.uri) /\ headers = Meant(r)
      /\ Len(body) + Len(toCome) <= Len(r.body) + Extra(r)
      /\ Overrun # <<>> => OverrunsOnce(r)
      /\ Proper(r) /\ Announces(r) => Pending(r)
      /\ Proper(r) /\ ~MayOverrun(r) => body \o toCome = r.body
  BY <1>1 DEF InBody
<1>10. Extra(r) \in {0, 1}
  BY DEF Extra
<1>7. CASE ~Announces(r)
  <2>1. phase' = "good" /\ body' = body /\ ~MayOverrun(r)
    BY <1>6, <1>7 DEF ConsumePayload, Announces, MayOverrun
  <2>2. Len(body') + Len(toCome') <= Len(r.body) + Extra(r)
    BY <1>3, <1>4, <1>6, <1>10, <2>1
  <2>3. Proper(r) => body' \o toCome' = r.body
    <3> SUFFICES ASSUME Proper(r) PROVE body \o wire = r.body
      BY <1>4, <2>1
    <3>1. r.body = <<>>
      BY <1>7 DEF Proper
    <3>2. Len(r.body) = 0 /\ Extra(r) = 0
      BY <2>1, <3>1 DEF Extra
    <3>3. Len(body) = 0 /\ Len(wire) = 0
      BY <1>3, <1>6, <3>2
    <3>4. body = <<>> /\ wire = <<>>
      BY <1>3, <3>3
    <3>5. <<>> \o <<>> = <<>>
      BY Joined
    <3> QED BY <3>1, <3>4, <3>5
  <2> QED BY <1>2, <1>5, <1>6, <1>7, <2>1, <2>2, <2>3 DEF OnTrackOf, InBody
<1>8. CASE Announces(r)
  <2> DEFINE v == headers[ContentLength]
  <2>1. ContentLength \in DOMAIN headers /\ v = Meant(r)[ContentLength] /\ Announced(v) = Length(r)
    BY <1>6, <1>8 DEF Announces, Length
  <2>2. Length(r) \in Nat /\ (Proper(r) => Length(r) = Len(r.body))
    BY <1>8, LengthType
  <2>3. CASE ~IsNumber(v)
    <3>1. phase' = "threw" /\ body' = body
      BY <2>1, <2>3 DEF ConsumePayload
    <3>2. ~Proper(r)
      BY <1>8, <2>1, <2>3 DEF Proper
    <3>3. Len(body') + Len(toCome') <= Len(r.body) + Extra(r)
      BY <1>3, <1>4, <1>6, <1>10, <3>1
    <3> QED BY <1>2, <1>5, <1>6, <3>1, <3>2, <3>3 DEF OnTrackOf, InBody
  <2>4. CASE IsNumber(v)
    <3> DEFINE s == CString(buffer \o Overrun)
    <3>1. /\ body' = body \o s
          /\ phase' = CASE Len(body') < Announced(v) -> "reading"
                        [] Len(body') > Announced(v) -> "bad"
                        [] OTHER -> "good"
      BY <2>1, <2>4 DEF ConsumePayload
    <3>2. /\ s \in Seq(Sym) /\ Len(s) \in Nat /\ Len(s) <= Len(buffer) + Len(Overrun)
          /\ Len(Overrun) \in {0, 1}
      <4>1. buffer \o Overrun \in Seq(Sym) /\ Len(buffer \o Overrun) = Len(buffer) + Len(Overrun)
        BY <1>3, OverrunType, ConcatProperties
      <4> QED BY <4>1, OverrunType, CStringLength
    <3>3. Overrun = <<>> => s = CString(buffer) /\ Len(Overrun) = 0
      BY <1>3, Joined
    <3>10. Proper(r) => CString(buffer) = buffer /\ CString(wire) = wire /\ Len(buffer) <= Len(s)
      <4> SUFFICES ASSUME Proper(r)
                   PROVE  CString(buffer) = buffer /\ CString(wire) = wire /\ Len(buffer) <= Len(s)
        OBVIOUS
      <4>1. CString(buffer \o wire) = buffer \o wire
        BY <1>6, <1>8 DEF Pending, toCome
      <4>2. CString(buffer) = buffer /\ CString(wire) = wire
        BY <1>3, <4>1, PartsOfText
      <4> QED BY <1>3, <4>2, OverrunType, CStringGoesOn
    <3> HIDE DEF s, v
    <3>4. Len(body') = Len(body) + Len(s) /\ Len(body') \in Nat
      BY <1>3, <3>1, <3>2, ConcatProperties
    <3>5. Len(body') + Len(toCome') <= Len(r.body) + Extra(r)
      <4>1. CASE Overrun = <<>>
        <5> DEFINE x == Extra(r)
                   b == Len(buffer)
                   w == Len(wire)
                   o == Len(body)
                   l == Len(s)
                   m == Len(r.body)
        <5>1. /\ o \in Nat /\ b \in Nat /\ w \in Nat /\ l \in Nat /\ m \in Nat /\ x \in {0, 1}
              /\ l <= b
          BY <1>3, <1>10, <3>2, <3>3, <4>1
        <5>2. o + (b + w) <= m + x
          BY <1>3, <1>6
        <5>3. Len(body') + Len(toCome') = (o + l) + w
          BY <1>4, <3>4
        <5> HIDE DEF x, b, w, o, l, m
        <5>4. (o + l) + w <= m + x
          BY <5>1, <5>2
        <5> QED BY Zenon, <5>3, <5>4 DEF x, m
      <4>2. CASE Overrun # <<>>
        <5>1. Len(body) + Len(toCome) <= Len(r.body) /\ Extra(r) = 1
          BY <1>6, <1>8, <4>2 DEF OverrunsOnce, Extra
        <5> DEFINE x == Extra(r)
                   b == Len(buffer)
                   w == Len(wire)
                   o == Len(body)
                   l == Len(s)
                   m == Len(r.body)
        <5>2. /\ o \in Nat /\ b \in Nat /\ w \in Nat /\ l \in Nat /\ m \in Nat /\ x = 1
              /\ l <= b \/ l <= b + 1
          <6>1. l <= b + Len(Overrun) /\ Len(Overrun) \in {0, 1}
            BY <3>2
          <6>2. o \in Nat /\ b \in Nat /\ w \in Nat /\ l \in Nat /\ m \in Nat /\ x = 1
            BY <1>3, <3>2, <5>1
          <6> DEFINE k == Len(Overrun)
          <6> HIDE DEF x, b, w, o, l, m, k
          <6>3. l <= b + k /\ k \in {0, 1}
            BY <6>1 DEF k
          <6> QED BY <6>2, <6>3
        <5>3. o + (b + w) <= m
          BY <1>3, <5>1
        <5>4. Len(body') + Len(toCome') = (o + l) + w
          BY <1>4, <3>4
        <5> HIDE DEF x, b, w, o, l, m
        <5>5. (o + l) + w <= m + x
          BY <5>2, <5>3
        <5> QED BY Zenon, <5>4, <5>5 DEF x, m
      <4> QED BY <4>1, <4>2
    <3>6. Proper(r) /\ ~MayOverrun(r) => body' \o toCome' = r.body
      <4> SUFFICES ASSUME Proper(r), ~MayOverrun(r) PROVE body' \o toCome' = r.body
        OBVIOUS
      <4>1. (body \o buffer) \o wire = body \o (buffer \o wire)
        BY Zenon, <1>3, Associative
      <4>2. Overrun = <<>>
        BY <1>6, <1>8 DEF OverrunsOnce
      <4>3. s = buffer
        BY <3>3, <3>10, <4>2
      <4> QED BY <1>4, <1>6, <3>1, <4>1, <4>3 DEF toCome
    <3>11. Proper(r) => Pending(r)'
      <4> SUFFICES ASSUME Proper(r) PROVE Pending(r)'
        OBVIOUS
      <4>1. Len(r.body) <= Len(body) + Len(toCome)
        BY <1>6, <1>8 DEF Pending
      <4>2. Len(r.body) <= Len(body') + Len(toCome')
        BY <1>3, <1>4, <3>2, <3>4, <3>10, <4>1
      <4> QED BY <1>4, <3>10, <4>2 DEF Pending
    <3>7. phase' = CASE Len(body') < Length(r) -> "reading"
                     [] Len(body') > Length(r) -> "bad"
                     [] OTHER -> "good"
      BY <2>1, <3>1
    <3>8. Proper(r) /\ ~MayOverrun(r) => phase' # "bad"
      <4>1. Len(toCome') \in Nat
        BY <1>3, <1>4
      <4>2. ~MayOverrun(r) => Extra(r) = 0
        BY DEF Extra
      <4>3. Proper(r) /\ ~MayOverrun(r) => ~(Len(body') > Length(r))
        BY <1>3, <2>2, <3>4, <3>5, <4>1, <4>2
      <4> QED BY <3>7, <4>3
    <3>9. /\ phase' \in {"reading", "bad", "good"}
          /\ phase' = "reading" => Len(body') < Length(r)
          /\ phase' = "good" => Len(body') = Length(r)
          /\ phase' = "bad" => Len(body') > Length(r)
      BY <2>2, <3>4, <3>7
    <3>12. phase' \notin {"payload", "threw"}
      BY <3>9
    <3> QED BY <1>2, <1>5, <1>6, <1>8, <3>5, <3>6, <3>8, <3>9, <3>11, <3>12 DEF OnTrackOf, InBody
  <2> QED BY <2>3, <2>4
<1> QED BY <1>7, <1>8
-----------------------------------------------------------------------------
\* No step leaves the track.
LEMMA OnTrackStep ==
  TypeOK /\ OnTrack /\ [Next /\ UNCHANGED sent]_<<vars, sent>> => OnTrack'
<1> SUFFICES ASSUME TypeOK, OnTrack, [Next /\ UNCHANGED sent]_<<vars, sent>> PROVE OnTrack'
  OBVIOUS
<1>1. sent' = sent /\ message' = message /\ sent \in Requests
  BY DEF OnTrack, vars, Next, Parse, ReadSome, ConsumeHeader, HeaderIndeterminate, ConsumePayload
<1> SUFFICES ASSUME NEW r \in Requests, sent = r, message = Encode(r), Readable(r)
             PROVE  OnTrackOf(r)'
  BY <1>1 DEF OnTrack
<1>2. OnTrackOf(r)
  BY DEF OnTrack
<1>3. CASE UNCHANGED vars
  <2>1. /\ UNCHANGED <<parserVars, uri, headers>> /\ toCome' = toCome /\ body' = body /\ phase' = phase
        /\ buffer' = buffer /\ wire' = wire /\ state' = state /\ message' = message /\ method' = method
        /\ uri' = uri /\ headers' = headers /\ full' = full
    BY <1>3 DEF vars, requestVars, parserVars, toCome
  <2>2. Consumed' /\ MethodKept(r)' /\ Filled'
    BY <1>2, <2>1 DEF OnTrackOf, Consumed, MethodKept, Filled
  <2>3. InHeader(r) => InHeader(r)'
    <3>1. Stage(r) => Stage(r)'
      BY <2>1, StageStays
    <3> QED BY <2>1, <3>1 DEF InHeader
  <2>4. InBody(r) => InBody(r)'
    BY <2>1 DEF InBody, Overrun, OverrunsOnce, Pending
  <2> QED BY <1>2, <2>2, <2>3, <2>4 DEF OnTrackOf
<1>4. CASE Next
  BY <1>2, <1>4, ReadSomeOnTrack, ConsumeHeaderOnTrack, HeaderIndeterminateOnTrack, ConsumePayloadOnTrack
     DEF Next, Parse
<1> QED BY <1>3, <1>4 DEF vars

\* A client's message is one of the messages the parser was typed for.
LEMMA ClientTypeCorrect == ClientSpec => []TypeOK
<1>1. ClientInit => Init
  BY DEF ClientInit
<1>2. [Next /\ UNCHANGED sent]_<<vars, sent>> => [Next]_vars
  BY DEF vars
<1>3. Spec => []TypeOK
  BY TypeCorrect
<1> QED BY <1>1, <1>2, <1>3, PTL DEF Spec, ClientSpec

\* For every set of requests, buffer size and word size: a parser that is sent a readable
\* request without a fault is on track, whatever portions the message is read in.
THEOREM Tracked == ClientSpec => []OnTrack
  BY ClientTypeCorrect, OnTrackInit, OnTrackStep, PTL DEF ClientSpec

\* What the invariant says of the request that is sent.
LEMMA OnTrackNow ==
  ASSUME OnTrack, message = Encode(sent), Readable(sent)
  PROVE  sent \in Requests /\ OnTrackOf(sent)
  BY DEF OnTrack

\* What is good was read to its end.
LEMMA GoodIsAll ==
  ASSUME TypeOK, NEW r \in Requests, Proper(r), ~MayOverrun(r), InBody(r), phase = "good"
  PROVE  body = r.body /\ toCome = <<>>
<1>1. /\ body \in Seq(Sym) /\ toCome \in Seq(Sym) /\ body \o toCome = r.body
      /\ Announces(r) => Len(body) = Length(r)
  BY Typed DEF InBody
<1>2. Len(body) + Len(toCome) = Len(r.body) /\ Len(body) \in Nat /\ Len(toCome) \in Nat
  <2>1. Len(body \o toCome) = Len(body) + Len(toCome)
    BY <1>1, ConcatProperties
  <2>2. Len(body) \in Nat /\ Len(toCome) \in Nat
    BY <1>1, LenProperties
  <2> QED BY <1>1, <2>1, <2>2
<1>3. Len(body) = Len(r.body)
  <2>1. CASE Announces(r)
    BY <1>1, <2>1, LengthType
  <2>2. CASE ~Announces(r)
    <3>1. Len(r.body) = 0
      BY <2>2 DEF Proper
    <3> QED BY <1>2, <3>1
  <2> QED BY <2>1, <2>2
<1>4. toCome = <<>>
  BY <1>1, <1>2, <1>3
<1>5. body \o <<>> = body
  BY <1>1, Joined
<1> QED BY <1>1, <1>4, <1>5

\* What the parser makes of a proper request is what its client means: URI, headers with
\* names in lower case and continued values; the method, unless a read filled buffer_; and
\* the body, unless such a read can have the end of method and header (DeliveredAsSent).
THEOREM Delivered == ClientSpec => []DeliveredAsSent
<1>1. TypeOK /\ OnTrack => DeliveredAsSent
  <2> SUFFICES ASSUME TypeOK, OnTrack, phase = "good", message = Encode(sent), Proper(sent)
               PROVE  /\ method = MethodType(<<sent.method>>) \/ (method = "GET" /\ Len(message) > BufSize)
                      /\ uri = UrlDecode(sent.uri) /\ headers = Meant(sent)
                      /\ body = sent.body \/ MayOverrun(sent)
    BY DEF DeliveredAsSent, Expected
  <2>1. sent \in Requests /\ OnTrackOf(sent)
    BY OnTrackNow DEF Proper
  <2>2. InBody(sent) /\ MethodKept(sent)
    BY <2>1 DEF OnTrackOf, InHeader
  <2>3. body = sent.body \/ MayOverrun(sent)
    BY <2>1, <2>2, GoodIsAll
  <2> QED BY <2>2, <2>3 DEF InBody, MethodKept
<1> QED BY <1>1, ClientTypeCorrect, Tracked, PTL

\* A proper request that cannot overrun buffer_ is never refused and is good only at its
\* last symbol; once that is read the parser asks of no request for more (DecidedAtItsEnd).
THEOREM Decided == ClientSpec => []DecidedAtItsEnd
<1>1. TypeOK /\ OnTrack => DecidedAtItsEnd
  <2> SUFFICES ASSUME TypeOK, OnTrack, message = Encode(sent), Proper(sent)
               PROVE  /\ phase # "threw"
                      /\ phase = "bad" => MayOverrun(sent)
                      /\ phase = "good" => wire = <<>> \/ MayOverrun(sent)
                      /\ phase = "reading" => wire # <<>>
    BY DEF DecidedAtItsEnd, Expected
  <2>1. sent \in Requests /\ OnTrackOf(sent)
    BY OnTrackNow DEF Proper
  <2>2. buffer \in Seq(Sym) /\ wire \in Seq(Sym) /\ toCome = buffer \o wire
    BY Typed DEF toCome
  <2>3. CASE InHeader(sent)
    <3>1. toCome # <<>> /\ phase \in {"header", "reading"} /\ (phase = "reading" => buffer = <<>>)
      BY <2>1, <2>3, StageGoesOn DEF InHeader
    <3>2. <<>> \o <<>> = <<>>
      BY Joined
    <3> QED BY <2>2, <3>1, <3>2
  <2>4. CASE InBody(sent)
    <3>1. phase # "threw" /\ (phase = "bad" => MayOverrun(sent))
      BY <2>4 DEF InBody
    <3>2. ASSUME phase = "good", ~MayOverrun(sent) PROVE wire = <<>>
      <4>1. toCome = <<>> /\ buffer = <<>>
        BY <2>1, <2>4, <3>2, GoodIsAll DEF InBody
      <4>2. <<>> \o wire = wire
        BY <2>2, Joined
      <4> QED BY <2>2, <4>1, <4>2
    <3>3. ASSUME phase = "reading", wire = <<>> PROVE FALSE
      <4>1. /\ buffer = <<>> /\ Announces(sent) /\ Len(body) < Length(sent)
            /\ Len(sent.body) <= Len(body) + Len(toCome)
        BY <2>4, <3>3 DEF InBody, Pending
      <4>2. Len(toCome) = 0 /\ Len(body) \in Nat
        <5>1. <<>> \o <<>> = <<>> /\ Len(<<>>) = 0
          BY Joined
        <5>2. Len(body) \in Nat
          BY LenProperties DEF TypeOK
        <5> QED BY <2>2, <3>3, <4>1, <5>1, <5>2
      <4>3. Length(sent) = Len(sent.body) /\ Len(sent.body) \in Nat
        BY <2>1, <4>1, LengthType, RequestTypes
      <4> QED BY <4>1, <4>2, <4>3
    <3> QED BY <3>1, <3>2, <3>3
  <2> QED BY <2>1, <2>3, <2>4 DEF OnTrackOf
<1> QED BY <1>1, ClientTypeCorrect, Tracked, PTL

\* A good request has the body length its header announces, and one that is refused for
\* its length is longer, with the symbol it may get from behind buffer_ (LengthIsKept).
THEOREM LengthKept == ClientSpec => []LengthIsKept
<1>1. TypeOK /\ OnTrack => LengthIsKept
  <2> SUFFICES ASSUME TypeOK, OnTrack, phase \in {"good", "bad"}, message = Encode(sent),
                      Announces(sent), Readable(sent)
               PROVE  IF phase = "good" THEN Len(body) = Length(sent)
                                        ELSE Len(sent.body) + Extra(sent) > Length(sent)
    BY DEF LengthIsKept, Length, Extra
  <2>1. sent \in Requests /\ OnTrackOf(sent)
    BY OnTrackNow
  <2>2. InBody(sent)
    BY <2>1 DEF OnTrackOf, InHeader
  <2>3. /\ Len(body) + Len(toCome) <= Len(sent.body) + Extra(sent)
        /\ phase = "good" => Len(body) = Length(sent)
        /\ phase = "bad" => Len(body) > Length(sent)
    BY <2>2 DEF InBody
  <2>5. Extra(sent) \in {0, 1}
    BY DEF Extra
  <2>4. Len(body) \in Nat /\ Len(toCome) \in Nat /\ Len(sent.body) \in Nat /\ Length(sent) \in Nat
    <3>1. Len(body) \in Nat /\ Len(toCome) \in Nat
      BY Typed, LenProperties
    <3> QED BY <2>1, <3>1, RequestTypes, LengthType
  <2> QED BY <2>3, <2>4, <2>5
<1> QED BY <1>1, ClientTypeCorrect, Tracked, PTL
=============================================================================
