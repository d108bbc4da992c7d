---------------------------- MODULE RouterProofs ----------------------------
(***************************************************************************)
(* Proofs about Router, for every set of routers, routes, endpoints and    *)
(* URIs, and strings of any length.                                        *)
(*                                                                         *)
(* The recursive functions of Router are reasoned about by induction over  *)
(* a set of numbers: those for which the fact that is proved holds.        *)
(***************************************************************************)
EXTENDS Router, FiniteSetTheorems, SequenceTheorems, TLAPS

Text == Seq(Symbol)

\* Induction, for a set of numbers instead of a predicate.
LEMMA SetInduction ==
  ASSUME NEW S, 0 \in S, \A n \in Nat \ {0} : n - 1 \in S => n \in S
  PROVE  \A n \in Nat : n \in S
<1> SUFFICES ASSUME NEW m \in Nat, m \notin S PROVE FALSE
  OBVIOUS
<1> DEFINE T == {n \in 0 .. m : n \in S}
           up == [n \in T |-> n + 1]
<1>1. IsFiniteSet(T) /\ Cardinality(T) \in Nat
  <2>1. IsFiniteSet(0 .. m)
    BY FS_Interval
  <2> QED
    BY <2>1, FS_Subset, FS_CardinalityType
<1>2. IsFiniteSet(T \ {0}) /\ Cardinality(T \ {0}) = Cardinality(T) - 1
  <2>1. 0 \in T
    OBVIOUS
  <2> QED
    BY <2>1, <1>1, FS_RemoveElement
<1>3. up \in Injection(T, T \ {0})
  <2>1. \A n \in T : n + 1 \in T \ {0}
    OBVIOUS
  <2> QED
    BY <2>1 DEF Injection, IsInjective
<1>4. Cardinality(T) <= Cardinality(T \ {0})
  BY <1>2, <1>3, FS_Injection
<1> QED
  BY <1>1, <1>2, <1>4

\* What a function is that is defined from its value at 0 upwards.
Chain(f, N, start, next) ==
  f[0] = start /\ \A n \in 1 .. N : f[n] = next[n][f[n - 1]]

\* There is such a function.
LEMMA Recursion ==
  ASSUME NEW N \in Nat, NEW start, NEW V, start \in V, NEW next \in [1 .. N -> [V -> V]]
  PROVE  \E f \in [0 .. N -> V] : Chain(f, N, start, next)
<1> DEFINE S == {n \in Nat : n <= N => \E f \in [0 .. n -> V] : Chain(f, n, start, next)}
<1>1. 0 \in S
  <2> DEFINE f == [i \in 0 .. 0 |-> start]
  <2>1. f \in [0 .. 0 -> V] /\ Chain(f, 0, start, next)
    BY DEF Chain
  <2> QED BY <2>1
<1>2. ASSUME NEW n \in Nat \ {0}, n - 1 \in S PROVE n \in S
  <2> SUFFICES ASSUME n <= N PROVE \E f \in [0 .. n -> V] : Chain(f, n, start, next)
    OBVIOUS
  <2>1. PICK f \in [0 .. n - 1 -> V] : Chain(f, n - 1, start, next)
    BY <1>2
  <2> DEFINE g == [i \in 0 .. n |-> IF i < n THEN f[i] ELSE next[n][f[n - 1]]]
  <2>2. next[n][f[n - 1]] \in V
    OBVIOUS
  <2>3. g \in [0 .. n -> V]
    BY <2>2
  <2>4. ASSUME NEW i \in 1 .. n PROVE g[i] = next[i][g[i - 1]]
    <3>1. CASE i < n
      <4>1. f[i] = next[i][f[i - 1]]
        BY <3>1, <2>1 DEF Chain
      <4> QED BY <3>1, <4>1
    <3>2. CASE i = n
      BY <3>2
    <3> QED BY <3>1, <3>2
  <2>5. g[0] = start
    BY <2>1 DEF Chain
  <2>6. Chain(g, n, start, next)
    BY <2>4, <2>5 DEF Chain
  <2> QED BY <2>3, <2>6
<1>3. N \in S
  <2> HIDE DEF S
  <2> QED BY <1>1, <1>2, SetInduction
<1> QED
  BY <1>3

\* A set of numbers has a least one, and a greatest one if it is bounded.
LEMMA Least ==
  ASSUME NEW S, S \subseteq Nat, S # {}
  PROVE  \E m \in S : \A n \in S : m <= n
<1> SUFFICES ASSUME \A m \in S : \E n \in S : n < m PROVE FALSE
  OBVIOUS
<1> DEFINE T == {m \in Nat : \A n \in S : m <= n}
<1>1. 0 \in T
  OBVIOUS
<1>2. ASSUME NEW m \in Nat \ {0}, m - 1 \in T PROVE m \in T
  <2>1. m - 1 \notin S
    BY <1>2
  <2> QED
    BY <1>2, <2>1
<1>3. \A m \in Nat : m \in T
  <2> HIDE DEF T
  <2> QED BY <1>1, <1>2, SetInduction
<1>4. PICK n : n \in S
  OBVIOUS
<1>5. n + 1 \in T
  BY <1>3, <1>4
<1> QED
  BY <1>4, <1>5

LEMMA Greatest ==
  ASSUME NEW N \in Nat, NEW S, S \subseteq 0 .. N, S # {}
  PROVE  \E m \in S : \A n \in S : n <= m
<1> DEFINE T == {N - n : n \in S}
<1>1. T \subseteq Nat /\ T # {}
  <2>1. \A n \in S : N - n \in Nat
    OBVIOUS
  <2>2. PICK n : n \in S
    OBVIOUS
  <2>3. N - n \in T
    BY <2>2
  <2> QED BY <2>1, <2>3
<1>2. PICK t \in T : \A u \in T : t <= u
  <2> HIDE DEF T
  <2> QED BY <1>1, Least
<1>3. PICK m \in S : t = N - m
  BY <1>2
<1>4. ASSUME NEW n \in S PROVE n <= m
  <2>1. N - n \in T
    BY <1>4
  <2>2. N - m <= N - n
    BY <2>1, <1>2, <1>3
  <2> QED BY <2>2
<1> QED
  BY <1>4

LEMMA FirstIsLeast ==
  ASSUME NEW S, S \subseteq Nat, S # {}
  PROVE  First(S) \in S /\ \A i \in S : First(S) <= i
  BY Least DEF First

LEMMA LatestIsGreatest ==
  ASSUME NEW N \in Nat, NEW S, S \subseteq 0 .. N, S # {}
  PROVE  Latest(S) \in S /\ \A i \in S : i <= Latest(S)
  BY Greatest DEF Latest
-----------------------------------------------------------------------------
(* FlattenSeq *)

\* FlattenSeq adds up its sequences one after the other.
LEMMA Flattened ==
  ASSUME NEW S, NEW seqs \in Seq(Seq(S))
  PROVE  \E f \in [0 .. Len(seqs) -> Seq(S)] :
           /\ f[0] = <<>>
           /\ \A n \in 1 .. Len(seqs) : f[n] = f[n - 1] \o seqs[n]
           /\ FlattenSeq(seqs) = f[Len(seqs)]
<1> DEFINE N == Len(seqs)
           next == [i \in 1 .. N |-> [v \in Seq(S) |-> v \o seqs[i]]]
<1>1. next \in [1 .. N -> [Seq(S) -> Seq(S)]]
  <2>1. \A i \in 1 .. N, v \in Seq(S) : v \o seqs[i] \in Seq(S)
    BY ConcatProperties
  <2> QED BY <2>1
<1>2. N \in Nat /\ <<>> \in Seq(S)
  OBVIOUS
<1>3. PICK f \in [0 .. N -> Seq(S)] : f[0] = <<>> /\ \A n \in 1 .. N : f[n] = next[n][f[n - 1]]
  <2> HIDE DEF N, next
  <2>1. \E f \in [0 .. N -> Seq(S)] : Chain(f, N, <<>>, next)
    BY <1>1, <1>2, Recursion
  <2> QED BY <2>1 DEF Chain
<1>4. \A n \in 1 .. N : f[n] = f[n - 1] \o seqs[n]
  <2> SUFFICES ASSUME NEW n \in 1 .. N PROVE next[n][f[n - 1]] = f[n - 1] \o seqs[n]
    BY <1>3
  <2>1. n - 1 \in 0 .. N
    BY <1>2
  <2> QED BY <2>1
<1> HIDE DEF next
<1>5. CASE N = 0
  BY <1>3, <1>4, <1>5, EmptySeq DEF FlattenSeq
<1>6. CASE N # 0
  <2> DEFINE Adds(g) == g = [i \in 1 .. N |-> IF i = 1 THEN seqs[i] ELSE g[i - 1] \o seqs[i]]
             h == [i \in 1 .. N |-> f[i]]
             c == CHOOSE g : Adds(g)
  <2>1. FlattenSeq(seqs) = c[N]
    BY <1>6 DEF FlattenSeq
  <2>2. \A i \in 1 .. N : seqs[i] \in Seq(S)
    OBVIOUS
  <2> HIDE DEF N
  <2>3. \A i \in 1 .. N : f[i] = IF i = 1 THEN seqs[i] ELSE f[i - 1] \o seqs[i]
    <3> SUFFICES ASSUME NEW i \in 1 .. N, i = 1 PROVE f[i] = seqs[i]
      BY <1>4
    <3>1. f[i] = <<>> \o seqs[i]
      <4>1. i - 1 = 0
        OBVIOUS
      <4>2. f[i] = f[i - 1] \o seqs[i]
        BY <1>4
      <4> QED BY <4>1, <4>2, <1>3
    <3> QED BY <3>1, <2>2, ConcatEmptySeq
  <2>4. Adds(h)
    <3>1. ASSUME NEW i \in 1 .. N
          PROVE h[i] = IF i = 1 THEN seqs[i] ELSE h[i - 1] \o seqs[i]
      <4>1. h[i] = f[i] /\ (i # 1 => h[i - 1] = f[i - 1])
        BY <1>2
      <4> QED BY <4>1, <2>3
    <3> QED BY <3>1
  <2>5. Adds(c)
    <3> HIDE DEF Adds
    <3> QED BY <2>4
  <2> HIDE DEF c
  <2>6. \A i \in 1 .. N : c[i] = IF i = 1 THEN seqs[i] ELSE c[i - 1] \o seqs[i]
    BY <2>5
  <2> DEFINE T == {n \in Nat : n \in 1 .. N => c[n] = f[n]}
  <2>7. 0 \in T
    OBVIOUS
  <2>8. ASSUME NEW n \in Nat \ {0}, n - 1 \in T PROVE n \in T
    BY <2>8, <1>2, <2>3, <2>6
  <2>9. N \in T
    <3> HIDE DEF T
    <3> QED BY <2>7, <2>8, <1>2, SetInduction
  <2>10. c[N] = f[N]
    BY <2>9, <1>2, <1>6
  <2> QED BY <2>1, <2>10, <1>3, <1>4 DEF N
<1> QED
  BY <1>5, <1>6

LEMMA FlattenAppend ==
  ASSUME NEW S, NEW seqs \in Seq(Seq(S)), NEW x \in Seq(S)
  PROVE  /\ FlattenSeq(seqs) \in Seq(S)
         /\ FlattenSeq(Append(seqs, x)) = FlattenSeq(seqs) \o x
<1> DEFINE N == Len(seqs)
           more == Append(seqs, x)
<1>1. PICK f \in [0 .. N -> Seq(S)] :
        /\ f[0] = <<>>
        /\ \A n \in 1 .. N : f[n] = f[n - 1] \o seqs[n]
        /\ FlattenSeq(seqs) = f[N]
  BY Flattened
<1>2. more \in Seq(Seq(S)) /\ Len(more) = N + 1 /\ N \in Nat
      /\ more[N + 1] = x /\ \A n \in 1 .. N : more[n] = seqs[n]
  BY AppendProperties
<1> HIDE DEF more
<1>3. PICK g \in [0 .. Len(more) -> Seq(S)] :
        /\ g[0] = <<>>
        /\ \A n \in 1 .. Len(more) : g[n] = g[n - 1] \o more[n]
        /\ FlattenSeq(more) = g[Len(more)]
  BY <1>2, Flattened
<1> DEFINE T == {n \in Nat : n <= N => g[n] = f[n]}
<1>4. \A n \in Nat : n \in T
  <2>1. 0 \in T
    BY <1>1, <1>3
  <2>2. ASSUME NEW n \in Nat \ {0}, n - 1 \in T PROVE n \in T
    <3> SUFFICES ASSUME n <= N PROVE g[n] = f[n]
      OBVIOUS
    <3>1. g[n - 1] = f[n - 1] /\ n \in 1 .. N /\ n \in 1 .. Len(more)
      BY <2>2, <1>2
    <3>2. g[n] = g[n - 1] \o more[n] /\ f[n] = f[n - 1] \o seqs[n] /\ more[n] = seqs[n]
      BY <3>1, <1>1, <1>2, <1>3
    <3> QED BY <3>1, <3>2
  <2> HIDE DEF T
  <2> QED BY <2>1, <2>2, SetInduction
<1>5. g[N] = f[N]
  <2>1. N \in T
    <3> HIDE DEF T
    <3> QED BY <1>4, <1>2
  <2> QED BY <2>1
<1>6. g[N + 1] = g[N] \o x
  <2> DEFINE n == N + 1
  <2>1. n \in 1 .. Len(more) /\ n - 1 = N /\ more[n] = x
    BY <1>2
  <2>2. g[n] = g[n - 1] \o more[n]
    <3> HIDE DEF n
    <3> QED BY <2>1, <1>3
  <2> QED BY <2>1, <2>2
<1> QED
  BY <1>1, <1>2, <1>3, <1>5, <1>6 DEF more

LEMMA FlattenEmpty == FlattenSeq(<<>>) = <<>>
  BY DEF FlattenSeq
-----------------------------------------------------------------------------
(* Strings *)

\* What stands for a symbol of an endpoint in the URI that is written for it.
Part(c, v) == IF c \in Variable THEN v[c] ELSE <<c>>

LEMMA VariablesAppend ==
  ASSUME NEW e \in Text, NEW c \in Symbol
  PROVE  VariablesOf(Append(e, c)) = VariablesOf(e) \cup ({c} \cap Variable)
<1>1. /\ Len(Append(e, c)) = Len(e) + 1
      /\ \A i \in 1 .. Len(e) : Append(e, c)[i] = e[i]
      /\ Append(e, c)[Len(e) + 1] = c
      /\ Len(e) \in Nat
  BY AppendProperties DEF Text
<1> DEFINE f == Append(e, c)
<1> HIDE DEF f
<1>2. ASSUME NEW x \in VariablesOf(f) PROVE x \in VariablesOf(e) \cup ({c} \cap Variable)
  <2>1. PICK i \in 1 .. Len(f) : x = f[i] /\ x \in Variable
    BY <1>2 DEF VariablesOf
  <2>2. CASE i = Len(e) + 1
    BY <1>1, <2>1, <2>2 DEF f
  <2>3. CASE i \in 1 .. Len(e)
    BY <1>1, <2>1, <2>3 DEF f, VariablesOf
  <2> QED BY <2>2, <2>3, <1>1 DEF f
<1>3. ASSUME NEW x \in VariablesOf(e) PROVE x \in VariablesOf(f)
  <2>1. PICK i \in 1 .. Len(e) : x = e[i] /\ x \in Variable
    BY <1>3 DEF VariablesOf
  <2>2. i \in 1 .. Len(f) /\ x = f[i]
    BY <1>1, <2>1 DEF f
  <2> QED BY <2>1, <2>2 DEF VariablesOf
<1>4. c \in Variable => c \in VariablesOf(f)
  <2>1. Len(e) + 1 \in 1 .. Len(f) /\ c = f[Len(e) + 1]
    BY <1>1 DEF f
  <2> QED BY <2>1 DEF VariablesOf
<1> QED BY <1>2, <1>3, <1>4 DEF f

LEMMA WrittenAppend ==
  ASSUME NEW e \in Text, NEW c \in Symbol, NEW v,
         \A x \in VariablesOf(Append(e, c)) : v[x] \in Text
  PROVE  /\ Written(e, v) \in Text
         /\ Written(Append(e, c), v) = Written(e, v) \o Part(c, v)
<1> DEFINE f == Append(e, c)
           parts(s) == [i \in 1 .. Len(s) |-> Part(s[i], v)]
<1>1. /\ Len(f) = Len(e) + 1
      /\ \A i \in 1 .. Len(e) : f[i] = e[i]
      /\ f[Len(e) + 1] = c
      /\ Len(e) \in Nat /\ f \in Text
  BY AppendProperties DEF Text
<1>2. Written(e, v) = FlattenSeq(parts(e)) /\ Written(f, v) = FlattenSeq(parts(f))
  BY DEF Written, Part
<1>3. \A i \in 1 .. Len(f) : Part(f[i], v) \in Text
  <2> SUFFICES ASSUME NEW i \in 1 .. Len(f) PROVE Part(f[i], v) \in Text
    OBVIOUS
  <2>1. f[i] \in Symbol
    BY <1>1 DEF Text
  <2>2. f[i] \in Variable => f[i] \in VariablesOf(f)
    BY DEF VariablesOf
  <2> HIDE DEF f
  <2>3. f[i] \in Variable => v[f[i]] \in Text
    BY <2>2 DEF f
  <2>4. <<f[i]>> \in Text
    BY <2>1 DEF Text
  <2> QED BY <2>3, <2>4 DEF Part
<1> HIDE DEF f
<1>4. parts(e) \in Seq(Text) /\ Len(parts(e)) = Len(e)
  <2>1. \A i \in 1 .. Len(e) : Part(e[i], v) \in Text
    BY <1>1, <1>3
  <2> QED BY <2>1, <1>1
<1>5. Part(c, v) \in Text
  <2>1. Len(e) + 1 \in 1 .. Len(f)
    BY <1>1
  <2> QED BY <2>1, <1>1, <1>3
<1>6. parts(f) = Append(parts(e), Part(c, v))
  <2>1. parts(f) \in Seq(Text) /\ Len(parts(f)) = Len(f)
    BY <1>1, <1>3
  <2> DEFINE more == Append(parts(e), Part(c, v))
  <2>2. /\ more \in Seq(Text) /\ Len(more) = Len(e) + 1
        /\ \A i \in 1 .. Len(e) : more[i] = parts(e)[i]
        /\ more[Len(e) + 1] = Part(c, v)
    BY <1>4, <1>5, AppendProperties
  <2> HIDE DEF more
  <2>3. \A i \in 1 .. Len(f) : parts(f)[i] = more[i]
    BY <1>1, <2>2
  <2>4. parts(f) = more
    <3> HIDE DEF parts
    <3> QED BY <2>1, <2>2, <2>3, <1>1, SeqEqual
  <2> QED BY <2>4 DEF more
<1> HIDE DEF parts
<1> QED
  BY <1>2, <1>4, <1>5, <1>6, FlattenAppend DEF Text, f

LEMMA WrittenSame ==
  ASSUME NEW e \in Text, NEW v, NEW w, \A x \in VariablesOf(e) : v[x] = w[x]
  PROVE  Written(e, v) = Written(e, w)
<1>1. \A i \in 1 .. Len(e) : e[i] \in Variable => v[e[i]] = w[e[i]]
  BY DEF VariablesOf
<1>2. [i \in 1 .. Len(e) |-> IF e[i] \in Variable THEN v[e[i]] ELSE <<e[i]>>]
        = [i \in 1 .. Len(e) |-> IF e[i] \in Variable THEN w[e[i]] ELSE <<e[i]>>]
  BY <1>1
<1> QED BY <1>2 DEF Written

LEMMA WrittenEmpty == \A v : Written(<<>>, v) = <<>>
<1> SUFFICES ASSUME NEW v PROVE Written(<<>>, v) = <<>>
  OBVIOUS
<1>1. [i \in 1 .. Len(<<>>) |-> Part(<<>>[i], v)] = <<>>
  OBVIOUS
<1> QED BY <1>1, FlattenEmpty DEF Written, Part

\* The beginnings of a string.
LEMMA Beginning ==
  ASSUME NEW e \in Text, NEW n \in 0 .. Len(e)
  PROVE  /\ SubSeq(e, 1, n) \in Text /\ Len(SubSeq(e, 1, n)) = n
         /\ \A i \in 1 .. n : SubSeq(e, 1, n)[i] = e[i]
         /\ n # 0 => SubSeq(e, 1, n) = Append(SubSeq(e, 1, n - 1), e[n])
         /\ n = 0 => SubSeq(e, 1, n) = <<>>
<1>1. /\ SubSeq(e, 1, n) \in Text /\ Len(SubSeq(e, 1, n)) = n
      /\ \A i \in 1 .. n : SubSeq(e, 1, n)[i] = e[i]
  BY SubSeqProperties DEF Text
<1>2. ASSUME n # 0 PROVE SubSeq(e, 1, n) = Append(SubSeq(e, 1, n - 1), e[n])
  <2>1. SubSeq(e, 1, n) = SubSeq(e, 1, n - 1) \o <<e[n]>>
    BY <1>2, SubSeqRecursiveSecond DEF Text
  <2>2. SubSeq(e, 1, n - 1) \in Seq(Symbol) /\ e[n] \in Symbol
    BY <1>2, SubSeqProperties DEF Text
  <2> QED BY <2>1, <2>2, AppendIsConcat
<1> QED BY <1>1, <1>2

LEMMA BeginningVariables ==
  ASSUME NEW e \in Text, NEW n \in 1 .. Len(e)
  PROVE  VariablesOf(SubSeq(e, 1, n)) = VariablesOf(SubSeq(e, 1, n - 1)) \cup ({e[n]} \cap Variable)
<1>1. n - 1 \in 0 .. Len(e) /\ e[n] \in Symbol
  BY DEF Text
<1>2. SubSeq(e, 1, n - 1) \in Text /\ SubSeq(e, 1, n) = Append(SubSeq(e, 1, n - 1), e[n])
  BY <1>1, Beginning
<1> QED BY <1>1, <1>2, VariablesAppend

LEMMA WrittenBeginning ==
  ASSUME NEW e \in Text, NEW n \in 1 .. Len(e), NEW v,
         \A x \in VariablesOf(SubSeq(e, 1, n)) : v[x] \in Text
  PROVE  /\ Written(SubSeq(e, 1, n - 1), v) \in Text
         /\ Written(SubSeq(e, 1, n), v) = Written(SubSeq(e, 1, n - 1), v) \o Part(e[n], v)
<1>1. n - 1 \in 0 .. Len(e) /\ e[n] \in Symbol
  BY DEF Text
<1>2. SubSeq(e, 1, n - 1) \in Text /\ SubSeq(e, 1, n) = Append(SubSeq(e, 1, n - 1), e[n])
  BY <1>1, Beginning
<1> QED BY ZenonT(30), <1>1, <1>2, WrittenAppend

\* What is written for an endpoint without variables is the endpoint.
LEMMA WrittenPlain ==
  ASSUME NEW e \in Text, VariablesOf(e) = {}, NEW v
  PROVE  Written(e, v) = e
<1> DEFINE T == {n \in Nat : n <= Len(e) => Written(SubSeq(e, 1, n), v) = SubSeq(e, 1, n)}
<1>1. 0 \in T
  <2>1. SubSeq(e, 1, 0) = <<>>
    BY Beginning DEF Text
  <2> QED BY <2>1, WrittenEmpty
<1>2. ASSUME NEW n \in Nat \ {0}, n - 1 \in T PROVE n \in T
  <2> SUFFICES ASSUME n <= Len(e) PROVE Written(SubSeq(e, 1, n), v) = SubSeq(e, 1, n)
    OBVIOUS
  <2>1. n \in 1 .. Len(e) /\ n \in 0 .. Len(e) /\ Len(e) \in Nat
    BY DEF Text
  <2>2. Written(SubSeq(e, 1, n - 1), v) = SubSeq(e, 1, n - 1)
    BY <1>2, <2>1
  <2>3. e[n] \notin Variable
    BY <2>1 DEF VariablesOf
  <2>4. VariablesOf(SubSeq(e, 1, n)) = {}
    <3>1. \A i \in 1 .. n : SubSeq(e, 1, n)[i] = e[i]
      BY <2>1, Beginning
    <3>2. Len(SubSeq(e, 1, n)) = n
      BY <2>1, Beginning
    <3> QED BY <2>1, <3>1, <3>2 DEF VariablesOf
  <2>5. Written(SubSeq(e, 1, n), v) = Written(SubSeq(e, 1, n - 1), v) \o <<e[n]>>
    BY <2>1, <2>3, <2>4, WrittenBeginning DEF Part
  <2>6. SubSeq(e, 1, n) = SubSeq(e, 1, n - 1) \o <<e[n]>>
    BY <2>1, SubSeqRecursiveSecond DEF Text
  <2> QED BY <2>2, <2>5, <2>6
<1>3. Len(e) \in T
  <2>1. Len(e) \in Nat
    BY DEF Text
  <2> HIDE DEF T
  <2> QED BY <1>1, <1>2, <2>1, SetInduction
<1>4. SubSeq(e, 1, Len(e)) = e
  BY SubSeqFull DEF Text
<1>5. Written(SubSeq(e, 1, Len(e)), v) = SubSeq(e, 1, Len(e))
  BY <1>3
<1> QED BY <1>4, <1>5

LEMMA SegmentEnds ==
  ASSUME NEW uri \in Text, NEW i \in 1 .. Len(uri) + 1
  PROVE  LET n == SegmentEnd(uri, i)
         IN  /\ n \in i .. Len(uri) + 1 /\ At(uri, n) \in {"/", "NUL"}
             /\ \A j \in i .. n - 1 : uri[j] \notin {"/", "NUL"}
<1> DEFINE S == {n \in i .. Len(uri) + 1 : At(uri, n) \in {"/", "NUL"}}
<1>1. Len(uri) \in Nat
  BY DEF Text
<1>2. Len(uri) + 1 \in S /\ S \subseteq Nat
  BY <1>1 DEF At
<1>3. PICK n \in S : \A m \in S : n <= m
  <2> HIDE DEF S
  <2> QED BY <1>2, Least
<1>4. ASSUME NEW j \in i .. n - 1 PROVE uri[j] \notin {"/", "NUL"}
  <2>1. j \notin S
    BY <1>1, <1>3, <1>4
  <2> QED BY <1>1, <2>1 DEF At
<1> QED BY <1>3, <1>4 DEF SegmentEnd

LEMMA BeforeNulIs ==
  ASSUME NEW s \in Text, NEW n \in 0 .. Len(s),
         At(s, n + 1) = "NUL", \A i \in 1 .. n : s[i] # "NUL"
  PROVE  BeforeNul(s) = SubSeq(s, 1, n)
<1> DEFINE Ends(m) == At(s, m + 1) = "NUL" /\ \A i \in 1 .. m : s[i] # "NUL"
           c == CHOOSE m \in 0 .. Len(s) : Ends(m)
<1>1. Len(s) \in Nat
  BY DEF Text
<1>2. c \in 0 .. Len(s) /\ Ends(c)
  <2>1. Ends(n)
    OBVIOUS
  <2> HIDE DEF Ends
  <2> QED BY <2>1
<1>3. c = n
  <2> HIDE DEF c
  <2> QED BY <1>1, <1>2 DEF At
<1> QED BY <1>3 DEF BeforeNul

\* There is a place where a string ends.
EndsAfter(s, n) ==
  At(s, n + 1) = "NUL" /\ (\A i \in 1 .. n : s[i] # "NUL") /\ BeforeNul(s) = SubSeq(s, 1, n)

LEMMA NulIsThere ==
  ASSUME NEW s \in Text
  PROVE  \E n \in 0 .. Len(s) : EndsAfter(s, n)
<1> DEFINE S == {n \in 0 .. Len(s) : At(s, n + 1) = "NUL"}
<1>1. Len(s) \in Nat
  BY DEF Text
<1>2. Len(s) \in S /\ S \subseteq Nat
  BY <1>1 DEF At
<1>3. PICK n \in S : \A m \in S : n <= m
  <2> HIDE DEF S
  <2> QED BY <1>2, Least
<1>4. ASSUME NEW i \in 1 .. n PROVE s[i] # "NUL"
  <2>1. i - 1 \notin S
    BY SMTT(30), <1>1, <1>3, <1>4
  <2> QED BY <1>1, <2>1 DEF At
<1> QED BY <1>3, <1>4, BeforeNulIs DEF EndsAfter
-----------------------------------------------------------------------------
(* ParsePathVariables finds what was written *)

PlainText == Seq(Symbol \ {"NUL"})

LEMMA PlainIsText ==
  ASSUME NEW e \in PlainText
  PROVE  e \in Text /\ Len(e) \in Nat /\ \A i \in 1 .. Len(e) : e[i] \in Symbol /\ e[i] # "NUL"
  BY DEF PlainText, Text

\* What the loop knows at positions a and b: the variables before b, which
\* written into the endpoint give the URI before a.
Sound(uri, e, s) ==
  /\ s.a \in 1 .. Len(uri) + 1 /\ s.b \in 1 .. Len(e) + 1
  /\ s.variables \in [VariablesOf(SubSeq(e, 1, s.b - 1)) -> Text]
  /\ \A i \in 1 .. s.a - 1 : uri[i] # "NUL"
  /\ NamesOnce(e) => Written(SubSeq(e, 1, s.b - 1), s.variables) = SubSeq(uri, 1, s.a - 1)

Maps(e) == UNION {[VariablesOf(SubSeq(e, 1, n)) -> Text] : n \in 0 .. Len(e)}
States(e) == [a : Nat, b : Nat, variables : Maps(e), status : {"more", "OK", "NOT_FOUND"}]

Complete(uri, e, s) ==
  /\ s.variables \in [VariablesOf(e) -> Text]
  /\ NamesOnce(e) => Written(e, s.variables) = BeforeNul(uri)

SoundStates(uri, e) ==
  {s \in States(e) : /\ s.status = "more" => Sound(uri, e, s)
                     /\ s.status = "OK" => Complete(uri, e, s)}

\* A variable takes its segment.
LEMMA TakeSound ==
  ASSUME NEW uri \in Text, NEW e \in PlainText, NEW s \in States(e), Sound(uri, e, s)
  PROVE  LET t == TakeVariable(uri, e, s)
         IN  /\ t \in [a : Nat, b : Nat, variables : [VariablesOf(SubSeq(e, 1, t.b - 1)) -> Text],
                        status : {s.status}]
             /\ Sound(uri, e, t)
             /\ At(uri, t.a) \in {"/", "NUL"} \/ At(e, t.b) \notin Variable
<1> DEFINE t == TakeVariable(uri, e, s)
<1>1. e \in Text /\ Len(e) \in Nat /\ Len(uri) \in Nat
  BY PlainIsText DEF Text
<1>2. /\ s.a \in 1 .. Len(uri) + 1 /\ s.b \in 1 .. Len(e) + 1
      /\ s.variables \in [VariablesOf(SubSeq(e, 1, s.b - 1)) -> Text]
      /\ \A i \in 1 .. s.a - 1 : uri[i] # "NUL"
      /\ NamesOnce(e) => Written(SubSeq(e, 1, s.b - 1), s.variables) = SubSeq(uri, 1, s.a - 1)
  BY DEF Sound
<1>3. s = [a |-> s.a, b |-> s.b, variables |-> s.variables, status |-> s.status]
  BY DEF States
<1>4. CASE At(e, s.b) \notin Variable
  <2>1. t = s
    BY <1>4 DEF TakeVariable
  <2>2. s \in [a : Nat, b : Nat, variables : [VariablesOf(SubSeq(e, 1, s.b - 1)) -> Text],
                status : {s.status}]
    BY <1>1, <1>2, <1>3
  <2> HIDE DEF t
  <2> QED BY <2>1, <2>2, <1>4 DEF t
<1>5. CASE At(e, s.b) \in Variable
  <2> DEFINE end == SegmentEnd(uri, s.a)
             x == e[s.b]
             value == SubSeq(uri, s.a, end - 1)
             found == Insert(s.variables, x, value)
  <2>1. s.b \in 1 .. Len(e) /\ At(e, s.b) = x /\ x \in Variable
    BY <1>1, <1>2, <1>5, SymbolAssumption DEF At
  <2>2. /\ end \in s.a .. Len(uri) + 1 /\ At(uri, end) \in {"/", "NUL"}
        /\ \A j \in s.a .. end - 1 : uri[j] \notin {"/", "NUL"}
    BY <1>2, SegmentEnds
  <2>3. t = [a |-> end, b |-> s.b + 1, variables |-> found, status |-> s.status]
    <3>1. t = [s EXCEPT !.a = end, !.b = @ + 1, !.variables = found]
      BY <1>5, <2>1 DEF TakeVariable
    <3> HIDE DEF t, end, found
    <3> QED BY <1>3, <3>1
  <2> HIDE DEF end, t
  <2>4. value \in Text
    <3>1. \A i \in s.a .. end - 1 : uri[i] \in Symbol
      BY <1>1, <1>2, <2>2 DEF Text
    <3>2. s.a \in Int /\ end - 1 \in Int
      BY <1>1, <1>2, <2>2
    <3> QED BY <3>1, <3>2, SubSeqProperties DEF Text
  <2> DEFINE D == VariablesOf(SubSeq(e, 1, s.b - 1))
             E == VariablesOf(SubSeq(e, 1, s.b))
  <2>5. E = D \cup {x}
    BY <2>1, <1>1, BeginningVariables
  <2>6. /\ found \in [E -> Text] /\ \A y \in D : found[y] = s.variables[y]
        /\ x \notin D => found[x] = value
    <3> HIDE DEF D, E, value, x
    <3> DEFINE m == s.variables
    <3>1. m \in [D -> Text]
      BY <1>2 DEF D
    <3> HIDE DEF m
    <3>2. /\ Insert(m, x, value) \in [D \cup {x} -> Text]
          /\ \A y \in D : Insert(m, x, value)[y] = m[y]
          /\ x \notin D => Insert(m, x, value)[x] = value
      BY <3>1, <2>4 DEF Insert
    <3> QED BY <3>2, <2>5 DEF m
  <2> HIDE DEF found, value
  <2>7. ASSUME NamesOnce(e)
        PROVE  Written(SubSeq(e, 1, s.b), found) = SubSeq(uri, 1, end - 1)
    <3>1. x \notin D
      <4> SUFFICES ASSUME x \in D PROVE FALSE
        OBVIOUS
      <4>1. s.b - 1 \in 0 .. Len(e)
        BY <1>1, <2>1
      <4>2. Len(SubSeq(e, 1, s.b - 1)) = s.b - 1
            /\ \A i \in 1 .. s.b - 1 : SubSeq(e, 1, s.b - 1)[i] = e[i]
        BY <1>1, <4>1, Beginning
      <4>3. PICK i \in 1 .. s.b - 1 : e[i] = x
        BY ZenonT(30), <4>2 DEF VariablesOf
      <4>4. i \in 1 .. Len(e) /\ i # s.b
        BY <1>1, <2>1, <4>3
      <4> QED BY <2>1, <2>7, <4>3, <4>4 DEF NamesOnce
    <3>2. SubSeq(e, 1, s.b - 1) \in Text
      BY <1>1, <2>1, Beginning
    <3>3. \A y \in E : found[y] \in Text
      BY <2>6
    <3>4. Written(SubSeq(e, 1, s.b), found)
            = Written(SubSeq(e, 1, s.b - 1), found) \o Part(x, found)
      BY <1>1, <2>1, <3>3, WrittenBeginning
    <3>5. Written(SubSeq(e, 1, s.b - 1), found) = SubSeq(uri, 1, s.a - 1)
      <4>1. Written(SubSeq(e, 1, s.b - 1), found) = Written(SubSeq(e, 1, s.b - 1), s.variables)
        BY <3>2, <2>6, WrittenSame
      <4> QED BY <4>1, <1>2, <2>7
    <3>6. Part(x, found) = value
      BY <2>1, <2>6, <3>1 DEF Part
    <3>7. SubSeq(uri, 1, s.a - 1) \o SubSeq(uri, s.a, end - 1) = SubSeq(uri, 1, end - 1)
      <4> DEFINE k == s.a - 1
      <4>1. k \in 0 .. Len(uri) /\ end - 1 \in k .. Len(uri) /\ k + 1 = s.a /\ 1 \in 1 .. Len(uri) + 1
        BY <1>1, <1>2, <2>2
      <4> HIDE DEF k
      <4> DEFINE n == end - 1
      <4>2. n \in k .. Len(uri) /\ k \in 1 - 1 .. Len(uri)
        BY <4>1
      <4> HIDE DEF n
      <4>3. SubSeq(uri, 1, k) \o SubSeq(uri, k + 1, n) = SubSeq(uri, 1, n)
        BY <4>1, <4>2, ConcatAdjacentSubSeq DEF Text
      <4> QED BY <4>1, <4>3 DEF k, n
    <3> QED BY <3>4, <3>5, <3>6, <3>7 DEF value
  <2>8. s.b + 1 - 1 = s.b /\ s.b + 1 \in 1 .. Len(e) + 1 /\ end \in 1 .. Len(uri) + 1
    BY <1>1, <1>2, <2>1, <2>2
  <2>9. t.a = end /\ t.b = s.b + 1 /\ t.variables = found /\ t.b - 1 = s.b
    <3>1. t.a = end /\ t.b = s.b + 1 /\ t.variables = found
      BY <2>3
    <3> QED BY <1>1, <2>1, <3>1
  <2>10. \A i \in 1 .. end - 1 : uri[i] # "NUL"
    BY <1>1, <1>2, <2>2
  <2>11. Sound(uri, e, t)
    BY <2>6, <2>7, <2>8, <2>9, <2>10 DEF Sound
  <2>12. t \in [a : Nat, b : Nat, variables : [E -> Text], status : {s.status}]
    BY <1>1, <2>3, <2>6, <2>8
  <2> QED BY <2>2, <2>9, <2>11, <2>12 DEF t
<1> QED BY <1>4, <1>5

\* One turn of the loop keeps what it knows.
LEMMA TurnSound ==
  ASSUME NEW uri \in Text, NEW e \in PlainText,
         NEW s \in SoundStates(uri, e), s.status = "more"
  PROVE  Turn(uri, e, s) \in SoundStates(uri, e)
<1> DEFINE t == TakeVariable(uri, e, s)
           u == Turn(uri, e, s)
           c == At(uri, t.a)
           d == At(e, t.b)
           ends == At(uri, t.a + 1) = "NUL" \/ At(e, t.b + 1) = "NUL"
           status == CASE c # d -> "NOT_FOUND"
                       [] c = d /\ c = "NUL" -> "OK"
                       [] c = d /\ c # "NUL" -> IF ends THEN "NOT_FOUND" ELSE "more"
           found == t.variables
<1>1. e \in Text /\ Len(e) \in Nat /\ Len(uri) \in Nat
      /\ \A i \in 1 .. Len(e) : e[i] \in Symbol /\ e[i] # "NUL"
  BY PlainIsText DEF Text
<1>2. s \in States(e) /\ Sound(uri, e, s)
  BY DEF SoundStates
<1>3. /\ t \in [a : Nat, b : Nat, variables : [VariablesOf(SubSeq(e, 1, t.b - 1)) -> Text],
                 status : {s.status}]
      /\ Sound(uri, e, t)
      /\ At(uri, t.a) \in {"/", "NUL"} \/ At(e, t.b) \notin Variable
  BY <1>2, TakeSound
<1>4. u = [t EXCEPT !.a = @ + 1, !.b = @ + 1, !.status = status]
  BY DEF Turn
<1> HIDE DEF t, u, ends, status
<1>5. u = [a |-> t.a + 1, b |-> t.b + 1, variables |-> found, status |-> status]
  <2>1. t = [a |-> t.a, b |-> t.b, variables |-> t.variables, status |-> t.status]
    BY <1>3
  <2> HIDE DEF c, d
  <2> QED BY <1>4, <2>1
<1>6. /\ t.a \in 1 .. Len(uri) + 1 /\ t.b \in 1 .. Len(e) + 1
      /\ found \in [VariablesOf(SubSeq(e, 1, t.b - 1)) -> Text]
      /\ \A i \in 1 .. t.a - 1 : uri[i] # "NUL"
      /\ NamesOnce(e) => Written(SubSeq(e, 1, t.b - 1), found) = SubSeq(uri, 1, t.a - 1)
  BY <1>3 DEF Sound
<1> HIDE DEF found
<1>7. found \in Maps(e)
  <2>1. t.b - 1 \in 0 .. Len(e)
    BY <1>1, <1>6
  <2> QED BY <2>1, <1>6 DEF Maps
<1>8. status \in {"more", "OK", "NOT_FOUND"}
      /\ (status = "OK" => c = "NUL" /\ d = "NUL")
      /\ (status = "more" => c = d /\ c # "NUL")
  BY DEF status
<1>9. u \in States(e)
  <2>1. t.a + 1 \in Nat /\ t.b + 1 \in Nat
    BY <1>1, <1>6
  <2> HIDE DEF c, d
  <2> QED BY <2>1, <1>5, <1>7, <1>8 DEF States
<1>10. ASSUME status = "OK" PROVE Complete(uri, e, u)
  <2>1. t.b = Len(e) + 1
    BY <1>1, <1>6, <1>8, <1>10 DEF At
  <2>2. t.b - 1 = Len(e) /\ SubSeq(e, 1, t.b - 1) = e
    <3>1. t.b - 1 = Len(e)
      BY <1>1, <2>1
    <3> QED BY <3>1, <1>1, SubSeqFull DEF Text
  <2>3. BeforeNul(uri) = SubSeq(uri, 1, t.a - 1)
    <3> DEFINE n == t.a - 1
    <3>1. n \in 0 .. Len(uri) /\ n + 1 = t.a
      BY <1>1, <1>6
    <3>2. At(uri, n + 1) = "NUL" /\ \A i \in 1 .. n : uri[i] # "NUL"
      BY <3>1, <1>6, <1>8, <1>10
    <3> HIDE DEF n
    <3>3. BeforeNul(uri) = SubSeq(uri, 1, n)
      BY <3>1, <3>2, BeforeNulIs
    <3> QED BY <3>3 DEF n
  <2>4. u.variables = found
    BY <1>5
  <2> QED BY <1>6, <2>2, <2>3, <2>4 DEF Complete
<1>11. ASSUME status = "more" PROVE Sound(uri, e, u)
  <2>1. t.a \in 1 .. Len(uri) /\ t.b \in 1 .. Len(e) /\ c = uri[t.a] /\ d = e[t.b]
    BY <1>1, <1>6, <1>8, <1>11 DEF At
  <2>2. uri[t.a] = e[t.b] /\ uri[t.a] # "NUL"
    BY <1>8, <1>11, <2>1
  <2>3. e[t.b] \notin Variable
    BY <1>3, <1>8, <1>11, <2>1, SymbolAssumption
  <2>4. VariablesOf(SubSeq(e, 1, t.b)) = VariablesOf(SubSeq(e, 1, t.b - 1))
    <3> DEFINE n == t.b
    <3>1. n \in 1 .. Len(e) /\ e[n] \notin Variable
      BY <2>1, <2>3
    <3> HIDE DEF n
    <3>2. VariablesOf(SubSeq(e, 1, n)) = VariablesOf(SubSeq(e, 1, n - 1)) \cup ({e[n]} \cap Variable)
      BY <1>1, <3>1, BeginningVariables
    <3> QED BY <3>1, <3>2 DEF n
  <2>5. ASSUME NamesOnce(e) PROVE Written(SubSeq(e, 1, t.b), found) = SubSeq(uri, 1, t.a)
    <3>1. \A x \in VariablesOf(SubSeq(e, 1, t.b)) : found[x] \in Text
      BY <1>6, <2>4
    <3> DEFINE n == t.b
    <3>2. n \in 1 .. Len(e)
      BY <2>1
    <3> HIDE DEF n
    <3>3. Written(SubSeq(e, 1, n), found) = Written(SubSeq(e, 1, n - 1), found) \o Part(e[n], found)
      BY <1>1, <3>1, <3>2, WrittenBeginning DEF n
    <3>4. Part(e[n], found) = <<uri[t.a]>>
      BY <2>2, <2>3 DEF Part, n
    <3>5. SubSeq(uri, 1, t.a) = SubSeq(uri, 1, t.a - 1) \o <<uri[t.a]>>
      <4> DEFINE k == t.a
      <4>1. k \in 1 .. Len(uri) /\ 1 \in 1 .. Len(uri) /\ k \in 1 .. Len(uri)
        BY <1>1, <2>1
      <4> HIDE DEF k
      <4>2. SubSeq(uri, 1, k) = SubSeq(uri, 1, k - 1) \o <<uri[k]>>
        BY <4>1, SubSeqRecursiveSecond DEF Text
      <4> QED BY <4>2 DEF k
    <3> QED BY <1>6, <2>5, <3>3, <3>4, <3>5 DEF n
  <2>6. \A i \in 1 .. t.a : uri[i] # "NUL"
    BY <1>1, <1>6, <2>1, <2>2
  <2>7. u.a = t.a + 1 /\ u.b = t.b + 1 /\ u.variables = found
    BY <1>5
  <2>8. u.a - 1 = t.a /\ u.b - 1 = t.b /\ u.a \in 1 .. Len(uri) + 1 /\ u.b \in 1 .. Len(e) + 1
    BY SMTT(30), <1>1, <2>1, <2>7
  <2> QED BY <1>6, <2>4, <2>5, <2>6, <2>7, <2>8 DEF Sound
<1>12. u.status = status
  BY <1>5
<1> QED
  BY <1>9, <1>10, <1>11, <1>12 DEF SoundStates, u

\* The loop as a chain of turns.
LEMMA Parsing ==
  ASSUME NEW uri \in Text, NEW e \in PlainText
  PROVE  \E after \in [0 .. MaxLoops - 1 -> SoundStates(uri, e)] :
           /\ after[0] = [a |-> 1, b |-> 1, variables |-> <<>>, status |-> "more"]
           /\ \A n \in 1 .. MaxLoops - 1 :
                /\ after[n - 1].status # "more" => after[n] = after[n - 1]
                /\ after[n - 1].status = "more" => after[n] = Turn(uri, e, after[n - 1])
           /\ ParsePathVariables(uri, e) = after[MaxLoops - 1]
<1> DEFINE V == SoundStates(uri, e)
           N == MaxLoops - 1
           start == [a |-> 1, b |-> 1, variables |-> <<>>, status |-> "more"]
           step(v) == IF v.status # "more" THEN v ELSE Turn(uri, e, v)
           next == [i \in 1 .. N |-> [v \in V |-> step(v)]]
           Loop(f) == f = [n \in 0 .. N |-> IF n = 0 THEN start
                                            ELSE IF f[n - 1].status # "more" THEN f[n - 1]
                                            ELSE Turn(uri, e, f[n - 1])]
           after == CHOOSE f : Loop(f)
<1>1. N \in Nat
  BY LoopsAssumption
<1>2. start \in V
  <2>1. e \in Text /\ Len(e) \in Nat /\ Len(uri) \in Nat
    BY PlainIsText DEF Text
  <2>2. SubSeq(e, 1, 0) = <<>> /\ SubSeq(uri, 1, 0) = <<>>
    BY <2>1, Beginning
  <2>3. VariablesOf(<<>>) = {}
    BY DEF VariablesOf
  <2>4. <<>> \in [VariablesOf(SubSeq(e, 1, 0)) -> Text]
    <3> DEFINE D == VariablesOf(SubSeq(e, 1, 0))
    <3>1. D = {}
      BY <2>2, <2>3
    <3> HIDE DEF D
    <3>2. <<>> \in [D -> Text]
      BY <3>1
    <3> QED BY <3>2 DEF D
  <2>5. <<>> \in Maps(e)
    BY <2>1, <2>4 DEF Maps
  <2>6. start \in States(e)
    BY <2>5 DEF States
  <2>7. Sound(uri, e, start)
    <3>1. start.a = 1 /\ start.b = 1 /\ start.a - 1 = 0 /\ start.b - 1 = 0
          /\ start.variables = <<>>
      OBVIOUS
    <3> HIDE DEF start
    <3>2. start.a \in 1 .. Len(uri) + 1 /\ start.b \in 1 .. Len(e) + 1
      BY <2>1 DEF start
    <3>3. SubSeq(e, 1, start.b - 1) = <<>> /\ SubSeq(uri, 1, start.a - 1) = <<>>
      BY <2>2, <3>1
    <3>4. start.variables \in [VariablesOf(SubSeq(e, 1, start.b - 1)) -> Text]
      BY <2>4, <3>1
    <3>5. \A i \in 1 .. start.a - 1 : FALSE
      BY <3>1
    <3> QED BY <3>2, <3>3, <3>4, <3>5, WrittenEmpty DEF Sound
  <2> QED BY <2>6, <2>7 DEF SoundStates
<1>3. \A v \in V : step(v) \in V
  <2> SUFFICES ASSUME NEW v \in V, v.status = "more" PROVE Turn(uri, e, v) \in V
    OBVIOUS
  <2> QED BY TurnSound
<1>4. next \in [1 .. N -> [V -> V]]
  <2> HIDE DEF step, V, N
  <2> QED BY <1>3
<1>5. PICK f \in [0 .. N -> V] : Chain(f, N, start, next)
  <2> HIDE DEF V, N, start, next
  <2> QED BY <1>1, <1>2, <1>4, Recursion
<1>6. Loop(f)
  <2>1. f[0] = start /\ \A n \in 1 .. N : f[n] = step(f[n - 1])
    <3>1. ASSUME NEW n \in 1 .. N PROVE f[n] = step(f[n - 1])
      <4>1. f[n - 1] \in V
        <5> HIDE DEF V
        <5> QED BY <1>1
      <4>2. f[n] = next[n][f[n - 1]]
        <5> HIDE DEF next, V
        <5> QED BY <1>5 DEF Chain
      <4> HIDE DEF step, V
      <4> QED BY <4>1, <4>2
    <3> HIDE DEF next, V
    <3> QED BY <1>5, <3>1 DEF Chain
  <2> HIDE DEF V, start, N
  <2> QED BY <2>1, <1>1
<1>7. Loop(after)
  <2> HIDE DEF Loop
  <2> QED BY <1>6
<1>8. ParsePathVariables(uri, e) = after[N]
  BY DEF ParsePathVariables
<1> HIDE DEF after
<1>9. /\ after[0] = start
      /\ \A n \in 1 .. N : after[n] = step(after[n - 1])
  <2> HIDE DEF start, N
  <2>1. \A n \in 0 .. N : after[n] = IF n = 0 THEN start
                                     ELSE IF after[n - 1].status # "more" THEN after[n - 1]
                                     ELSE Turn(uri, e, after[n - 1])
    BY <1>7
  <2> QED BY <2>1, <1>1
<1>10. after = [n \in 0 .. N |-> after[n]]
  <2> HIDE DEF start, N
  <2> QED BY <1>7
<1> DEFINE T == {n \in Nat : n <= N => after[n] \in V}
<1>11. \A n \in Nat : n \in T
  <2> HIDE DEF N, V, step, start
  <2>1. 0 \in T
    BY <1>2, <1>9
  <2>2. ASSUME NEW n \in Nat \ {0}, n - 1 \in T PROVE n \in T
    BY <1>1, <1>3, <1>9, <2>2
  <2> HIDE DEF T
  <2> QED BY <2>1, <2>2, SetInduction
<1>12. after \in [0 .. N -> V]
  <2> HIDE DEF N, V, step, start
  <2>1. \A n \in 0 .. N : after[n] \in V
    BY <1>1, <1>11
  <2> QED BY <1>10, <2>1
<1> QED
  <2> HIDE DEF V
  <2> QED BY <1>8, <1>9, <1>12 DEF V

\* A URI that is accepted is what is written for the endpoint with the
\* variables that were found.
LEMMA ParsedIsWritten ==
  ASSUME NEW uri \in Text, NEW e \in PlainText, ParsePathVariables(uri, e).status = "OK"
  PROVE  LET v == ParsePathVariables(uri, e).variables
         IN  /\ v \in [VariablesOf(e) -> Text]
             /\ NamesOnce(e) => Written(e, v) = BeforeNul(uri)
<1>1. ParsePathVariables(uri, e) \in SoundStates(uri, e)
  <2>1. MaxLoops - 1 \in 0 .. MaxLoops - 1
    BY LoopsAssumption
  <2> QED BY <2>1, Parsing
<1> QED
  BY <1>1 DEF SoundStates, Complete
-----------------------------------------------------------------------------
(* ParsePathVariables finds whatever fits *)

\* Where a URI is cut: the symbols of the endpoint up to the n-th stand for the
\* first p[n] symbols of the URI.
Cuts(uri, e, p) ==
  /\ p \in [0 .. Len(e) -> 0 .. Len(uri)] /\ p[0] = 0
  /\ At(uri, p[Len(e)] + 1) = "NUL" /\ \A i \in 1 .. p[Len(e)] : uri[i] # "NUL"
  /\ \A n \in 1 .. Len(e) :
       /\ e[n] \in Variable =>
            p[n - 1] <= p[n] /\ \A i \in p[n - 1] + 1 .. p[n] : uri[i] \notin {"/", "NUL"}
       /\ e[n] \notin Variable => p[n] = p[n - 1] + 1 /\ uri[p[n]] = e[n]
  /\ \A n \in 0 .. Len(e) - 1 : p[n] < p[Len(e)]

LEMMA PiecesAreText ==
  ASSUME NEW uri \in Text, NEW x \in Pieces(uri)
  PROVE  x \in Text
<1>1. PICK i \in 1 .. Len(uri), j \in 0 .. Len(uri) : x = SubSeq(uri, i, j)
  BY DEF Pieces
<1>2. Len(uri) \in Nat /\ \A k \in i .. j : uri[k] \in Symbol
  BY DEF Text
<1> QED
  BY <1>1, <1>2, SubSeqProperties DEF Text

\* A URI that fits can be cut.
LEMMA FittingIsCut ==
  ASSUME NEW uri \in Text, NEW e \in PlainText, VariablesOf(e) # {}, Fits(e, uri)
  PROVE  \E p : Cuts(uri, e, p)
<1> DEFINE L == Len(e)
           U == BeforeNul(uri)
<1>1. PICK v \in [VariablesOf(e) ->
                  {x \in Pieces(uri) : \A i \in 1 .. Len(x) : x[i] \notin {"/", "NUL"}}] :
        Written(e, v) = U /\ v[e[L]] # <<>>
  BY DEF Fits
<1>2. e \in Text /\ L \in Nat /\ Len(uri) \in Nat
      /\ \A i \in 1 .. L : e[i] \in Symbol /\ e[i] # "NUL"
  BY PlainIsText DEF Text
<1>3. \A x \in VariablesOf(e) : v[x] \in Text /\ \A i \in 1 .. Len(v[x]) : v[x][i] \notin {"/", "NUL"}
  BY PiecesAreText
<1>4. PICK K \in 0 .. Len(uri) : EndsAfter(uri, K)
  BY NulIsThere
<1>5. U = SubSeq(uri, 1, K) /\ Len(U) = K /\ \A i \in 1 .. K : U[i] = uri[i]
  BY <1>4, Beginning DEF EndsAfter
<1> HIDE DEF U
<1> DEFINE W == [n \in 0 .. L |-> Written(SubSeq(e, 1, n), v)]
           p == [n \in 0 .. L |-> Len(W[n])]
<1>6. W[L] = U /\ W[0] = <<>>
  <2>1. SubSeq(e, 1, L) = e /\ SubSeq(e, 1, 0) = <<>>
    BY <1>2, SubSeqFull, Beginning DEF Text
  <2>2. W[L] = Written(SubSeq(e, 1, L), v) /\ W[0] = Written(SubSeq(e, 1, 0), v)
    BY <1>2
  <2>3. Written(SubSeq(e, 1, L), v) = U
    BY <1>1, <2>1
  <2>4. Written(SubSeq(e, 1, 0), v) = <<>>
    BY <2>1, WrittenEmpty
  <2> QED BY <2>2, <2>3, <2>4
<1>7. \A n \in 1 .. L : /\ Part(e[n], v) \in Text /\ W[n - 1] \in Text
                        /\ W[n] = W[n - 1] \o Part(e[n], v)
  <2> SUFFICES ASSUME NEW n \in 1 .. L
               PROVE  /\ Part(e[n], v) \in Text /\ W[n - 1] \in Text
                      /\ W[n] = W[n - 1] \o Part(e[n], v)
    OBVIOUS
  <2>1. \A x \in VariablesOf(SubSeq(e, 1, n)) : v[x] \in Text
    <3>1. Len(SubSeq(e, 1, n)) = n /\ \A i \in 1 .. n : SubSeq(e, 1, n)[i] = e[i]
      BY <1>2, Beginning
    <3>2. VariablesOf(SubSeq(e, 1, n)) \subseteq VariablesOf(e)
      BY <1>2, <3>1 DEF VariablesOf
    <3> QED BY <1>3, <3>2
  <2>2. /\ Written(SubSeq(e, 1, n - 1), v) \in Text
        /\ Written(SubSeq(e, 1, n), v) = Written(SubSeq(e, 1, n - 1), v) \o Part(e[n], v)
    BY <1>2, <2>1, WrittenBeginning
  <2>3. Part(e[n], v) \in Text
    <3>1. e[n] \in Variable => v[e[n]] \in Text
      BY <1>2, <1>3 DEF VariablesOf
    <3>2. <<e[n]>> \in Text
      BY <1>2 DEF Text
    <3> QED BY <3>1, <3>2 DEF Part
  <2>4. n \in 0 .. L /\ n - 1 \in 0 .. L
    BY <1>2
  <2>5. W[n] = Written(SubSeq(e, 1, n), v) /\ W[n - 1] = Written(SubSeq(e, 1, n - 1), v)
    BY <2>4
  <2> HIDE DEF W
  <2> QED BY <2>2, <2>3, <2>5
<1>8. \A n \in 0 .. L : W[n] \in Text
  <2> SUFFICES ASSUME NEW n \in 0 .. L PROVE W[n] \in Text
    OBVIOUS
  <2> HIDE DEF W
  <2>1. CASE n = 0
    <3>1. <<>> \in Text
      BY DEF Text
    <3> QED BY <1>6, <2>1, <3>1
  <2>2. CASE n # 0
    <3>1. n \in 1 .. L
      BY <2>2
    <3>2. W[n - 1] \o Part(e[n], v) \in Text
      BY <1>7, <3>1, ConcatProperties DEF Text
    <3> QED BY <1>7, <3>1, <3>2
  <2> QED BY <2>1, <2>2
<1> HIDE DEF W
<1>9. \A n \in 1 .. L : /\ p[n] = p[n - 1] + Len(Part(e[n], v)) /\ p[n] \in Nat /\ p[n - 1] \in Nat
                        /\ Len(Part(e[n], v)) \in Nat
                        /\ \A i \in 1 .. p[n - 1] : W[n][i] = W[n - 1][i]
                        /\ \A i \in p[n - 1] + 1 .. p[n] : W[n][i] = Part(e[n], v)[i - p[n - 1]]
  <2> SUFFICES ASSUME NEW n \in 1 .. L
               PROVE  /\ p[n] = p[n - 1] + Len(Part(e[n], v)) /\ p[n] \in Nat /\ p[n - 1] \in Nat
                      /\ Len(Part(e[n], v)) \in Nat
                      /\ \A i \in 1 .. p[n - 1] : W[n][i] = W[n - 1][i]
                      /\ \A i \in p[n - 1] + 1 .. p[n] : W[n][i] = Part(e[n], v)[i - p[n - 1]]
    OBVIOUS
  <2> DEFINE x == W[n - 1]
             y == Part(e[n], v)
  <2>1. x \in Text /\ y \in Text /\ W[n] = x \o y
    BY <1>7
  <2>2. p[n] = Len(x \o y) /\ p[n - 1] = Len(x)
    <3>1. n \in 0 .. L /\ n - 1 \in 0 .. L
      BY <1>2
    <3>2. p[n] = Len(W[n]) /\ p[n - 1] = Len(W[n - 1])
      BY <3>1
    <3> HIDE DEF p
    <3> QED BY <2>1, <3>2
  <2> HIDE DEF x, y, p
  <2>3. /\ Len(x \o y) = Len(x) + Len(y) /\ Len(x) \in Nat /\ Len(y) \in Nat
        /\ \A i \in 1 .. Len(x) + Len(y) : (x \o y)[i] = IF i <= Len(x) THEN x[i] ELSE y[i - Len(x)]
    BY <2>1, ConcatProperties DEF Text
  <2>4. p[n] = p[n - 1] + Len(y) /\ p[n] \in Nat /\ p[n - 1] \in Nat /\ Len(y) \in Nat
    BY <2>2, <2>3
  <2>5. ASSUME NEW i \in 1 .. p[n - 1] PROVE W[n][i] = x[i]
    <3>1. i \in 1 .. Len(x) + Len(y) /\ i <= Len(x)
      BY <2>2, <2>3, <2>5
    <3> QED BY <2>1, <2>3, <3>1
  <2>6. ASSUME NEW i \in p[n - 1] + 1 .. p[n] PROVE W[n][i] = y[i - p[n - 1]]
    <3>1. i \in 1 .. Len(x) + Len(y) /\ ~ (i <= Len(x))
      BY <2>2, <2>3, <2>4, <2>6
    <3> QED BY <2>1, <2>2, <2>3, <3>1
  <2> QED BY <2>4, <2>5, <2>6 DEF x, y
<1>10. p[0] = 0 /\ p[L] = K /\ At(uri, K + 1) = "NUL" /\ \A i \in 1 .. K : uri[i] # "NUL"
  BY <1>2, <1>4, <1>5, <1>6 DEF EndsAfter
<1> HIDE DEF p
<1> DEFINE T == {k \in Nat : k <= L => /\ p[L - k] <= K
                                       /\ \A i \in 1 .. p[L - k] : W[L - k][i] = uri[i]}
<1>11. \A n \in 0 .. L : p[n] <= K /\ \A i \in 1 .. p[n] : W[n][i] = uri[i]
  <2>1. 0 \in T
    BY <1>2, <1>4, <1>5, <1>6, <1>10
  <2>2. ASSUME NEW k \in Nat \ {0}, k - 1 \in T PROVE k \in T
    <3> SUFFICES ASSUME k <= L
                 PROVE p[L - k] <= K /\ \A i \in 1 .. p[L - k] : W[L - k][i] = uri[i]
      OBVIOUS
    <3> DEFINE n == L - (k - 1)
    <3>1. n \in 1 .. L /\ n - 1 = L - k
      BY <1>2
    <3>2. p[n] <= K /\ \A i \in 1 .. p[n] : W[n][i] = uri[i]
      BY <2>2, <1>2
    <3> HIDE DEF n
    <3>3. p[n - 1] <= p[n] /\ p[n - 1] \in Nat /\ p[n] \in Nat
      BY <3>1, <1>9
    <3>4. \A i \in 1 .. p[n - 1] : W[n - 1][i] = uri[i]
      BY <3>1, <3>2, <3>3, <1>9
    <3>5. p[n - 1] <= K
      BY <3>2, <3>3
    <3> QED BY <3>1, <3>4, <3>5
  <2>3. ASSUME NEW n \in 0 .. L PROVE p[n] <= K /\ \A i \in 1 .. p[n] : W[n][i] = uri[i]
    <3> DEFINE k == L - n
    <3>1. k \in Nat /\ k <= L /\ L - k = n
      BY <1>2
    <3> HIDE DEF k
    <3>2. k \in T
      <4> HIDE DEF T
      <4> QED BY <2>1, <2>2, <3>1, SetInduction
    <3> QED BY <3>1, <3>2
  <2> QED BY <2>3
<1>12. p \in [0 .. L -> 0 .. Len(uri)]
  <2>1. ASSUME NEW n \in 0 .. L PROVE p[n] \in 0 .. Len(uri)
    <3>1. p[n] \in Nat
      BY <1>9, <1>10
    <3> QED BY <1>2, <1>4, <1>11, <3>1
  <2>2. p = [n \in 0 .. L |-> p[n]]
    BY DEF p
  <2> QED BY <2>1, <2>2
<1>13. ASSUME NEW n \in 1 .. L, e[n] \in Variable
       PROVE p[n - 1] <= p[n] /\ \A i \in p[n - 1] + 1 .. p[n] : uri[i] \notin {"/", "NUL"}
  <2> DEFINE x == v[e[n]]
  <2>1. x \in Text /\ Part(e[n], v) = x /\ \A i \in 1 .. Len(x) : x[i] \notin {"/", "NUL"}
    BY <1>2, <1>3, <1>13 DEF Part, VariablesOf
  <2> HIDE DEF x
  <2>2. p[n - 1] <= p[n] /\ p[n - 1] \in Nat /\ p[n] \in Nat /\ p[n] = p[n - 1] + Len(x)
    BY <1>9, <2>1
  <2>3. ASSUME NEW i \in p[n - 1] + 1 .. p[n] PROVE uri[i] \notin {"/", "NUL"}
    <3>1. i \in 1 .. p[n] /\ n \in 0 .. L /\ i - p[n - 1] \in 1 .. Len(x)
      BY <2>2, <1>2
    <3>2. uri[i] = W[n][i] /\ W[n][i] = x[i - p[n - 1]]
      BY <3>1, <1>9, <1>11, <2>1
    <3> QED BY <2>1, <3>1, <3>2
  <2> QED BY <2>2, <2>3
<1>14. ASSUME NEW n \in 1 .. L, e[n] \notin Variable
       PROVE p[n] = p[n - 1] + 1 /\ uri[p[n]] = e[n]
  <2>1. Part(e[n], v) = <<e[n]>> /\ Len(<<e[n]>>) = 1
    BY <1>14 DEF Part
  <2>2. p[n] = p[n - 1] + 1 /\ p[n - 1] \in Nat /\ p[n] \in Nat
    BY <1>9, <2>1
  <2>3. p[n] \in p[n - 1] + 1 .. p[n] /\ p[n] \in 1 .. p[n] /\ p[n] - p[n - 1] = 1 /\ n \in 0 .. L
    BY <1>2, <2>2
  <2>4. uri[p[n]] = W[n][p[n]] /\ W[n][p[n]] = Part(e[n], v)[p[n] - p[n - 1]]
    BY <1>9, <1>11, <2>3
  <2> QED BY <2>1, <2>2, <2>3, <2>4
<1>15. \A n \in 0 .. L - 1 : p[n] < K
  <2>1. L \in 1 .. L
    <3>1. L # 0
      BY <1>2 DEF VariablesOf
    <3> QED BY <1>2, <3>1
  <2>2. e[L] \in Variable
    BY DEF Fits, Reachable
  <2> DEFINE x == v[e[L]]
  <2>3. x \in Text /\ x # <<>> /\ Part(e[L], v) = x
    BY <1>1, <1>3, <2>1, <2>2 DEF Part, VariablesOf
  <2>4. Len(x) \in Nat \ {0}
    <3> HIDE DEF x
    <3> QED BY <2>3, EmptySeq DEF Text
  <2>5. p[L - 1] < K
    <3> HIDE DEF x
    <3> QED BY SMTT(30), <1>9, <1>10, <2>1, <2>3, <2>4
  <2> DEFINE R == {k \in Nat : k <= L - 1 => p[L - 1 - k] < K}
  <2>6. 0 \in R
    BY <2>1, <2>5, <1>2
  <2>7. ASSUME NEW k \in Nat \ {0}, k - 1 \in R PROVE k \in R
    <3> SUFFICES ASSUME k <= L - 1 PROVE p[L - 1 - k] < K
      OBVIOUS
    <3> DEFINE n == L - 1 - (k - 1)
    <3>1. n \in 1 .. L /\ n - 1 = L - 1 - k
      BY <1>2
    <3>2. p[n] < K
      BY <2>7, <1>2
    <3> HIDE DEF n
    <3>3. p[n - 1] <= p[n] /\ p[n - 1] \in Nat /\ p[n] \in Nat
      BY <3>1, <1>9
    <3>4. p[n - 1] < K
      BY <3>2, <3>3
    <3> QED BY <3>1, <3>4
  <2>8. ASSUME NEW n \in 0 .. L - 1 PROVE p[n] < K
    <3> DEFINE k == L - 1 - n
    <3>1. k \in Nat /\ k <= L - 1 /\ L - 1 - k = n
      BY <1>2
    <3> HIDE DEF k
    <3>2. k \in R
      <4> HIDE DEF R
      <4> QED BY <2>6, <2>7, <3>1, SetInduction
    <3> QED BY <3>1, <3>2
  <2> QED BY <2>8
<1> QED
  BY <1>4, <1>10, <1>12, <1>13, <1>14, <1>15 DEF Cuts
\* The loop is where the cuts say, at the beginning of what stands for e[b].
OnTrack(e, p, s) == s.status = "more" /\ s.b \in 1 .. Len(e) /\ s.a = p[s.b - 1] + 1

\* One turn follows the cuts.
LEMMA TurnOnTrack ==
  ASSUME NEW uri \in Text, NEW e \in PlainText, Reachable(e), NEW p, Cuts(uri, e, p),
         NEW s \in States(e), OnTrack(e, p, s)
  PROVE  LET u == Turn(uri, e, s)
         IN  u.status = "OK" \/ (OnTrack(e, p, u) /\ u.b > s.b)
<1> DEFINE L == Len(e)
           t == TakeVariable(uri, e, s)
           u == Turn(uri, e, s)
           ends == At(uri, t.a + 1) = "NUL" \/ At(e, t.b + 1) = "NUL"
           status == CASE At(uri, t.a) # At(e, t.b) -> "NOT_FOUND"
                       [] At(uri, t.a) = At(e, t.b) /\ At(uri, t.a) = "NUL" -> "OK"
                       [] At(uri, t.a) = At(e, t.b) /\ At(uri, t.a) # "NUL" ->
                            IF ends THEN "NOT_FOUND" ELSE "more"
<1>1. L \in Nat /\ Len(uri) \in Nat /\ \A i \in 1 .. L : e[i] \in Symbol /\ e[i] # "NUL"
  BY PlainIsText DEF Text
<1>2. /\ s.status = "more" /\ s.b \in 1 .. L /\ s.a = p[s.b - 1] + 1
      /\ s = [a |-> s.a, b |-> s.b, variables |-> s.variables, status |-> s.status]
  BY DEF OnTrack, States
<1>3. /\ \A n \in 0 .. L : p[n] \in 0 .. Len(uri)
      /\ At(uri, p[L] + 1) = "NUL" /\ \A i \in 1 .. p[L] : uri[i] # "NUL"
      /\ \A n \in 0 .. L - 1 : p[n] < p[L]
  BY DEF Cuts
<1>4. \A n \in 1 .. L :
       /\ e[n] \in Variable =>
            p[n - 1] <= p[n] /\ \A i \in p[n - 1] + 1 .. p[n] : uri[i] \notin {"/", "NUL"}
       /\ e[n] \notin Variable => p[n] = p[n - 1] + 1 /\ uri[p[n]] = e[n]
  BY DEF Cuts
<1>5. /\ \A i \in 1 .. L - 1 : e[i] \in Variable => e[i + 1] = "/"
      /\ e[L] \in Variable /\ "/" \notin Variable
  BY SymbolAssumption DEF Reachable
<1>6. u = [t EXCEPT !.a = @ + 1, !.b = @ + 1, !.status = status]
  BY DEF Turn
<1> DEFINE b == s.b
<1>7. b \in 1 .. L /\ b - 1 \in 0 .. L /\ p[b - 1] \in Nat /\ p[b] \in Nat
  BY <1>1, <1>2, <1>3
<1> HIDE DEF t, u, status, ends, b
<1>8. ASSUME NEW a2 \in Nat, NEW b2 \in Nat, NEW w,
             t = [a |-> a2, b |-> b2, variables |-> w, status |-> "more"]
      PROVE  u = [a |-> a2 + 1, b |-> b2 + 1, variables |-> w, status |-> status]
  BY <1>6, <1>8
\* The literals of the endpoint: the URI has them too, and both go on.
<1>9. ASSUME NEW n \in 1 .. L - 1, e[n] \notin Variable
      PROVE  /\ p[n] \in Nat /\ At(uri, p[n]) = e[n] /\ At(e, n) = e[n] /\ e[n] # "NUL"
             /\ At(uri, p[n] + 1) # "NUL" /\ At(e, n + 1) # "NUL"
  <2>1. n \in 1 .. L /\ n \in 0 .. L - 1 /\ n + 1 \in 1 .. L /\ L \in 0 .. L
    BY <1>1
  <2>2. p[n] \in Nat /\ p[L] \in 0 .. Len(uri) /\ p[n] < p[L]
    BY <1>1, <1>3, <2>1
  <2>3. p[n] <= Len(uri) /\ p[n] + 1 \in 1 .. p[L] /\ p[n] + 1 <= Len(uri)
    BY <1>1, <2>2
  <2>4. uri[p[n] + 1] # "NUL" /\ uri[p[n]] = e[n]
    BY <1>3, <1>4, <1>9, <2>1, <2>3
  <2> QED BY <1>1, <2>1, <2>2, <2>3, <2>4 DEF At
<1>10. CASE e[b] \notin Variable
  <2>1. b \in 1 .. L - 1
    BY <1>1, <1>5, <1>7, <1>10
  <2>2. At(e, b) = e[b] /\ s.a = p[b]
    BY <1>1, <1>2, <1>4, <1>7, <1>10, <2>1 DEF At, b
  <2>3. t = [a |-> p[b], b |-> b, variables |-> s.variables, status |-> "more"]
    BY <1>2, <1>10, <2>2 DEF t, b, TakeVariable
  <2>4. t.a = p[b] /\ t.b = b
    BY <2>3
  <2>5. status = "more"
    BY <1>9, <1>10, <2>1, <2>4 DEF status, ends
  <2>6. u = [a |-> p[b] + 1, b |-> b + 1, variables |-> s.variables, status |-> "more"]
    BY <1>7, <1>8, <2>3, <2>5
  <2>7. u.status = "more" /\ u.a = p[b] + 1 /\ u.b = b + 1 /\ u.b - 1 = b
    BY <1>7, <2>6
  <2> QED BY <1>1, <1>7, <2>1, <2>7 DEF OnTrack, u, b
<1>11. CASE e[b] \in Variable
  <2> DEFINE end == SegmentEnd(uri, s.a)
             w == Insert(s.variables, At(e, b), SubSeq(uri, s.a, end - 1))
  <2>1. At(e, b) = e[b] /\ s.a \in 1 .. Len(uri) + 1 /\ s.a = p[b - 1] + 1
    BY <1>1, <1>2, <1>3, <1>7 DEF At, b
  <2>2. /\ end \in s.a .. Len(uri) + 1 /\ At(uri, end) \in {"/", "NUL"}
        /\ \A j \in s.a .. end - 1 : uri[j] \notin {"/", "NUL"}
    BY <2>1, SegmentEnds
  <2>3. t = [a |-> end, b |-> b + 1, variables |-> w, status |-> "more"]
    <3>1. t = [s EXCEPT !.a = end, !.b = @ + 1, !.variables = w]
      BY <1>11, <2>1 DEF t, b, TakeVariable
    <3> HIDE DEF end, w
    <3> QED BY <1>2, <3>1 DEF b
  <2> HIDE DEF end, w
  <2>4. At(uri, p[b] + 1) \in {"/", "NUL"} /\ p[b] <= Len(uri)
    <3>1. CASE b = L
      BY <1>1, <1>3, <1>7, <3>1
    <3>2. CASE b # L
      <4> DEFINE n == b + 1
      <4>1. n \in 1 .. L /\ n - 1 = b /\ e[n] = "/" /\ e[n] \notin Variable
        BY <1>1, <1>5, <1>7, <1>11, <3>2
      <4> HIDE DEF n
      <4>2. p[n] = p[b] + 1 /\ uri[p[n]] = "/" /\ p[n] <= Len(uri)
        BY <1>1, <1>3, <1>4, <4>1
      <4> QED BY <1>7, <4>2, <1>1 DEF At
    <3> QED BY <3>1, <3>2
  <2>5. end = p[b] + 1
    <3>1. \A i \in p[b - 1] + 1 .. p[b] : uri[i] \notin {"/", "NUL"} /\ i <= Len(uri)
      BY <1>1, <1>4, <1>7, <1>11, <2>4
    <3>2. ~ (end <= p[b])
      BY <1>1, <1>7, <2>1, <2>2, <3>1 DEF At
    <3>3. ~ (p[b] + 1 <= end - 1)
      <4> SUFFICES ASSUME p[b] + 1 <= end - 1 PROVE FALSE
        OBVIOUS
      <4> DEFINE j == p[b] + 1
      <4>1. p[b - 1] <= p[b]
        BY <1>4, <1>7, <1>11
      <4>2. end \in Nat /\ end <= Len(uri) + 1
        <5>1. s.a \in Nat /\ end \in s.a .. Len(uri) + 1
          BY <1>1, <2>1, <2>2
        <5> QED BY <1>1, <5>1
      <4>3. j \in Nat /\ s.a <= j /\ j <= end - 1
        BY <1>7, <2>1, <4>1
      <4>4. j \in s.a .. end - 1 /\ j <= Len(uri)
        <5> HIDE DEF j
        <5> QED BY <1>1, <2>1, <4>2, <4>3
      <4>5. uri[j] \in {"/", "NUL"}
        BY <2>4, <4>4 DEF At
      <4> QED BY <2>2, <4>4, <4>5
    <3> QED BY <1>7, <2>1, <2>2, <3>2, <3>3
  <2>6. t.a = p[b] + 1 /\ t.b = b + 1
    BY <2>3, <2>5
  <2>7. u = [a |-> p[b] + 1 + 1, b |-> b + 1 + 1, variables |-> w, status |-> status]
    BY <1>7, <1>8, <2>3, <2>5
  <2>8. CASE b = L
    <3>1. At(uri, t.a) = "NUL" /\ At(e, t.b) = "NUL"
      BY <1>1, <1>3, <2>6, <2>8 DEF At
    <3>2. status = "OK"
      BY <3>1 DEF status
    <3> QED BY <2>7, <3>2 DEF u
  <2>9. CASE b # L
    <3> DEFINE n == b + 1
    <3>1. n \in 1 .. L - 1 /\ n \in 1 .. L /\ n - 1 = b /\ e[n] = "/" /\ e[n] \notin Variable
      <4>1. n \in 1 .. L /\ n - 1 = b /\ e[n] = "/" /\ e[n] \notin Variable
        BY <1>1, <1>5, <1>7, <1>11, <2>9
      <4>2. n # L
        BY <1>5, <4>1
      <4> QED BY <1>1, <4>1, <4>2
    <3>2. p[n] = p[b] + 1
      <4> HIDE DEF n
      <4> QED BY <1>4, <3>1
    <3>3. t.a = p[n] /\ t.b = n
      BY <2>6, <3>2
    <3> HIDE DEF n
    <3>4. status = "more"
      BY <1>9, <3>1, <3>3 DEF status, ends
    <3>5. u.status = "more" /\ u.a = p[n] + 1 /\ u.b = n + 1 /\ u.b - 1 = n
      BY <1>7, <2>7, <3>1, <3>2, <3>4 DEF n
    <3>6. u.b \in 1 .. L /\ u.b > b
      BY <1>1, <1>7, <3>1, <3>5
    <3>7. u.a = p[u.b - 1] + 1
      BY <3>5
    <3> QED BY <3>5, <3>6, <3>7 DEF OnTrack, u, b
  <2> QED BY <2>8, <2>9
<1> QED BY <1>10, <1>11

\* A URI that fits an endpoint is accepted.
LEMMA FittingIsParsed ==
  ASSUME NEW uri \in Text, NEW e \in PlainText, VariablesOf(e) # {}, Fits(e, uri)
  PROVE  ParsePathVariables(uri, e).status = "OK"
<1> DEFINE N == MaxLoops - 1
           L == Len(e)
<1>1. PICK p : Cuts(uri, e, p)
  BY FittingIsCut
<1>2. Reachable(e) /\ L \in Nat /\ L # 0 /\ L <= N /\ N \in Nat
  <2>1. Reachable(e) /\ L \in Nat
    BY PlainIsText DEF Fits
  <2> QED BY <2>1, LoopsAssumption DEF Reachable, VariablesOf
<1>3. PICK after \in [0 .. N -> SoundStates(uri, e)] :
        /\ after[0] = [a |-> 1, b |-> 1, variables |-> <<>>, status |-> "more"]
        /\ \A n \in 1 .. N :
             /\ after[n - 1].status # "more" => after[n] = after[n - 1]
             /\ after[n - 1].status = "more" => after[n] = Turn(uri, e, after[n - 1])
        /\ ParsePathVariables(uri, e) = after[N]
  BY Parsing
<1> HIDE DEF N
<1> DEFINE T == {n \in Nat : n <= N => \/ after[n].status = "OK"
                                       \/ OnTrack(e, p, after[n]) /\ after[n].b > n}
<1>4. 0 \in T
  <2>1. p[0] = 0
    BY <1>1 DEF Cuts
  <2> QED BY <1>2, <1>3, <2>1 DEF OnTrack
<1>5. ASSUME NEW n \in Nat \ {0}, n - 1 \in T PROVE n \in T
  <2> SUFFICES ASSUME n <= N
               PROVE after[n].status = "OK" \/ (OnTrack(e, p, after[n]) /\ after[n].b > n)
    OBVIOUS
  <2> DEFINE s == after[n - 1]
  <2>1. n \in 1 .. N /\ n - 1 \in 0 .. N /\ n - 1 <= N
    BY <1>2
  <2>2. s \in SoundStates(uri, e) /\ s \in States(e)
    BY <2>1, <1>3 DEF SoundStates
  <2>3. s.status = "OK" \/ (OnTrack(e, p, s) /\ s.b > n - 1)
    BY <1>5, <2>1
  <2>4. s.status # "more" => after[n] = s
    BY <1>3, <2>1
  <2>5. s.status = "more" => after[n] = Turn(uri, e, s)
    BY <1>3, <2>1
  <2> HIDE DEF s
  <2>6. CASE s.status = "OK"
    BY <2>4, <2>6
  <2>7. CASE OnTrack(e, p, s) /\ s.b > n - 1
    <3>1. after[n] = Turn(uri, e, s) /\ s.b \in Nat
      BY <2>5, <2>7, <1>2 DEF OnTrack
    <3>2. after[n].status = "OK" \/ (OnTrack(e, p, after[n]) /\ after[n].b > s.b)
      BY <1>1, <1>2, <2>2, <2>7, <3>1, TurnOnTrack
    <3>3. OnTrack(e, p, after[n]) => after[n].b \in Nat
      BY <1>2 DEF OnTrack
    <3> QED BY <2>7, <3>1, <3>2, <3>3
  <2> QED BY <2>3, <2>6, <2>7
<1>6. N \in T
  <2> HIDE DEF T
  <2> QED BY <1>2, <1>4, <1>5, SetInduction
<1>7. after[N].status = "OK"
  BY <1>2, <1>6 DEF OnTrack
<1> QED BY <1>3, <1>7
-----------------------------------------------------------------------------
(* The inductive invariant: what the routers hold is what they were given *)

Key(o) == <<o.endpoint, o.method>>
IsStatic(o) == VariablesOf(o.endpoint) = {}

\* Each router has its containers.
Containers ==
  /\ endpoints_static_ = [r \in RouterObj |-> endpoints_static_[r]]
  /\ endpoints_dynamic_ = [r \in RouterObj |-> endpoints_dynamic_[r]]

\* A static endpoint is found under its text, and of several the first.
StaticEndpoints ==
  /\ \A r \in RouterObj : \A h \in DOMAIN endpoints_static_[r] :
       LET i == endpoints_static_[r][h]
       IN  offered[i].router = r /\ Key(offered[i]) = h /\ IsStatic(offered[i])
  /\ \A i \in 1 .. Len(offered) : IsStatic(offered[i]) =>
       LET static == endpoints_static_[offered[i].router]
       IN  Key(offered[i]) \in DOMAIN static /\ static[Key(offered[i])] <= i

\* Dynamic endpoints are held in the order in which they were added.
DynamicEndpoints ==
  /\ \A r \in RouterObj : \A k \in 1 .. Len(endpoints_dynamic_[r]) :
       LET d == endpoints_dynamic_[r][k]
       IN  /\ offered[d.handler].router = r /\ Key(offered[d.handler]) = <<d.endpoint, d.method>>
           /\ ~IsStatic(offered[d.handler])
           /\ \A j \in 1 .. k - 1 : endpoints_dynamic_[r][j].handler < d.handler
  /\ \A i \in 1 .. Len(offered) : ~IsStatic(offered[i]) =>
       \E k \in 1 .. Len(endpoints_dynamic_[offered[i].router]) :
         endpoints_dynamic_[offered[i].router][k].handler = i

\* A route belongs to a router that was given it, every route to some router,
\* and a router knows the last route it was given.
Routes ==
  /\ \A path \in DOMAIN routers : \E i \in 1 .. Len(routed) : routed[i] = <<path, routers[path]>>
  /\ \A i \in 1 .. Len(routed) : routed[i][1] \in DOMAIN routers
  /\ \A r \in RouterObj : Given(r) # {} => route_[r] = LastRoute(r)

IInv == TypeOK /\ Containers /\ StaticEndpoints /\ DynamicEndpoints /\ Routes

LEMMA OfferedTypes ==
  ASSUME TypeOK
  PROVE  /\ Len(offered) \in Nat
         /\ \A i \in 1 .. Len(offered) :
              offered[i].router \in RouterObj /\ offered[i].endpoint \in PlainText
<1> DEFINE O == [router : RouterObj, endpoint : PlainText, method : Method]
<1>1. offered \in Seq(O)
  BY DEF TypeOK, PlainText
<1>2. Len(offered) \in Nat /\ \A i \in 1 .. Len(offered) : offered[i] \in O
  <2> HIDE DEF O
  <2> QED BY <1>1
<1> QED BY <1>2

LEMMA DynamicTypes ==
  ASSUME TypeOK, NEW r \in RouterObj
  PROVE  /\ Len(endpoints_dynamic_[r]) \in Nat
         /\ \A k \in 1 .. Len(endpoints_dynamic_[r]) :
              /\ endpoints_dynamic_[r][k].endpoint \in PlainText
              /\ endpoints_dynamic_[r][k].handler \in 1 .. Len(offered)
<1> DEFINE D == [endpoint : PlainText, method : Method, handler : 1 .. Len(offered)]
<1>1. endpoints_dynamic_[r] \in Seq(D)
  BY DEF TypeOK, PlainText
<1>2. /\ Len(endpoints_dynamic_[r]) \in Nat
      /\ \A k \in 1 .. Len(endpoints_dynamic_[r]) : endpoints_dynamic_[r][k] \in D
  <2> HIDE DEF D
  <2> QED BY <1>1
<1> QED BY <1>2

LEMMA SeqGrows ==
  ASSUME NEW S, NEW T, S \subseteq T, NEW s \in Seq(S)
  PROVE  s \in Seq(T)
  OBVIOUS

\* What AddEndpoint does with an endpoint e that has lost its last "/".
Added(r, e, m) ==
  LET n == Len(offered) + 1
  IN  /\ n <= MaxEndpoints
      /\ offered' = Append(offered, [router |-> r, endpoint |-> e, method |-> m])
      /\ VariablesOf(e) # {} =>
           /\ endpoints_dynamic_' =
                [endpoints_dynamic_ EXCEPT
                   ![r] = Append(@, [endpoint |-> e, method |-> m, handler |-> n])]
           /\ UNCHANGED endpoints_static_
      /\ VariablesOf(e) = {} =>
           /\ endpoints_static_' = [endpoints_static_ EXCEPT ![r] = Insert(@, <<e, m>>, n)]
           /\ UNCHANGED endpoints_dynamic_
      /\ UNCHANGED <<routers, route_, routed, reply>>

LEMMA AddingIs ==
  ASSUME TypeOK, NEW r \in RouterObj, NEW endpoint \in Endpoint, NEW m \in Method,
         AddEndpoint(r, endpoint, m)
  PROVE  \E e \in PlainText : Added(r, e, m)
<1> DEFINE L == Len(endpoint)
           e == IF endpoint[L] = "/" THEN SubSeq(endpoint, 1, L - 1) ELSE endpoint
<1>1. endpoint \in PlainText /\ L \in Nat
  BY EndpointAssumption DEF PlainText
<1>2. e \in PlainText
  <2>1. L # 0
    BY <1>1, EndpointAssumption, EmptySeq DEF PlainText
  <2>2. \A i \in 1 .. L - 1 : endpoint[i] \in Symbol \ {"NUL"}
    BY <1>1 DEF PlainText
  <2>3. SubSeq(endpoint, 1, L - 1) \in PlainText
    BY <1>1, <2>1, <2>2, SubSeqProperties DEF PlainText
  <2> QED BY <1>1, <2>3
<1>3. /\ Len(offered) < MaxEndpoints
      /\ offered' = Append(offered, [router |-> r, endpoint |-> e, method |-> m])
      /\ IF \E i \in 1 .. Len(e) : e[i] \in Variable
           THEN /\ endpoints_dynamic_' =
                     [endpoints_dynamic_ EXCEPT
                        ![r] = Append(@, [endpoint |-> e, method |-> m,
                                          handler |-> Len(offered) + 1])]
                /\ UNCHANGED endpoints_static_
           ELSE /\ endpoints_static_' =
                     [endpoints_static_ EXCEPT ![r] = Insert(@, <<e, m>>, Len(offered) + 1)]
                /\ UNCHANGED endpoints_dynamic_
      /\ UNCHANGED <<routers, route_, routed, reply>>
  BY DEF AddEndpoint, NextMethod
<1> HIDE DEF e, L
<1>4. VariablesOf(e) # {} <=> \E i \in 1 .. Len(e) : e[i] \in Variable
  BY DEF VariablesOf
<1>5. Len(offered) + 1 <= MaxEndpoints
  BY <1>3, BoundAssumption, LenProperties DEF TypeOK
<1>6. Added(r, e, m)
  BY <1>3, <1>4, <1>5 DEF Added
<1> QED BY <1>2, <1>6

\* The endpoints there were, and the one that was added.
LEMMA OfferedGrows ==
  ASSUME TypeOK, NEW r \in RouterObj, NEW e \in PlainText, NEW m \in Method, Added(r, e, m)
  PROVE  /\ Len(offered) \in Nat /\ Len(offered') = Len(offered) + 1
         /\ offered' \in Seq([router : RouterObj, endpoint : PlainText, method : Method])
         /\ \A i \in 1 .. Len(offered) : offered'[i] = offered[i]
         /\ offered'[Len(offered) + 1] = [router |-> r, endpoint |-> e, method |-> m]
<1> DEFINE O == [router : RouterObj, endpoint : PlainText, method : Method]
           o == [router |-> r, endpoint |-> e, method |-> m]
<1>1. offered \in Seq(O) /\ o \in O /\ offered' = Append(offered, o)
  BY DEF TypeOK, Added, PlainText
<1> HIDE DEF O, o
<1>2. /\ Append(offered, o) \in Seq(O) /\ Len(Append(offered, o)) = Len(offered) + 1
      /\ \A i \in 1 .. Len(offered) : Append(offered, o)[i] = offered[i]
      /\ Append(offered, o)[Len(offered) + 1] = o
      /\ Len(offered) \in Nat
  BY <1>1, AppendProperties, LenProperties
<1> QED BY <1>1, <1>2 DEF O, o

LEMMA AddTypes ==
  ASSUME TypeOK, Containers, NEW r \in RouterObj, NEW e \in PlainText, NEW m \in Method,
         Added(r, e, m)
  PROVE  TypeOK' /\ Containers'
<1> DEFINE N == Len(offered)
           D(n) == [endpoint : Seq(Symbol \ {"NUL"}), method : Method, handler : 1 .. n]
           d == [endpoint |-> e, method |-> m, handler |-> N + 1]
<1>1. N \in Nat /\ Len(offered') = N + 1
      /\ offered' \in Seq([router : RouterObj, endpoint : PlainText, method : Method])
  BY OfferedGrows
<1>2. /\ DOMAIN routers \subseteq Path /\ \A p \in DOMAIN routers : routers[p] \in RouterObj
      /\ route_ \in [RouterObj -> Path \cup {<<>>}] /\ routed \in Seq(Path \X RouterObj)
      /\ Len(routed) <= MaxRoutes /\ reply.status \in {"none", "no_router", "not_found", "called"}
  BY DEF TypeOK
<1>3. N + 1 <= MaxEndpoints /\ UNCHANGED <<routers, route_, routed, reply>>
  BY DEF Added
<1>4. \A q \in RouterObj :
        /\ \A h \in DOMAIN endpoints_static_[q] : endpoints_static_[q][h] \in 1 .. N
        /\ endpoints_dynamic_[q] \in Seq(D(N))
  BY DEF TypeOK
<1>5. D(N) \subseteq D(N + 1) /\ d \in D(N + 1)
  BY <1>1 DEF PlainText
<1> HIDE DEF D
<1>6. \A q \in RouterObj : endpoints_dynamic_[q] \in Seq(D(N + 1))
  <2> SUFFICES ASSUME NEW q \in RouterObj PROVE endpoints_dynamic_[q] \in Seq(D(N + 1))
    OBVIOUS
  <2>1. endpoints_dynamic_[q] \in Seq(D(N))
    BY <1>4
  <2> QED BY <1>5, <2>1, SeqGrows
<1>7. /\ \A q \in RouterObj : endpoints_dynamic_'[q] \in Seq(D(N + 1))
      /\ endpoints_dynamic_' = [q \in RouterObj |-> endpoints_dynamic_'[q]]
  <2>1. CASE VariablesOf(e) # {}
    <3>1. endpoints_dynamic_' = [endpoints_dynamic_ EXCEPT ![r] = Append(@, d)]
      BY <2>1 DEF Added
    <3> HIDE DEF d
    <3>2. Append(endpoints_dynamic_[r], d) \in Seq(D(N + 1))
      BY <1>5, <1>6, AppendProperties
    <3>3. endpoints_dynamic_ = [q \in RouterObj |-> endpoints_dynamic_[q]]
      BY DEF Containers
    <3>4. \A q \in RouterObj : endpoints_dynamic_'[q] =
            IF q = r THEN Append(endpoints_dynamic_[r], d) ELSE endpoints_dynamic_[q]
      BY <3>1, <3>3
    <3>5. endpoints_dynamic_' = [q \in RouterObj |-> endpoints_dynamic_'[q]]
      BY <3>1, <3>3
    <3> QED BY <1>6, <3>2, <3>4, <3>5
  <2>2. CASE VariablesOf(e) = {}
    BY <1>6, <2>2 DEF Added, Containers
  <2> QED BY <2>1, <2>2
<1>8. /\ \A q \in RouterObj :
           \A h \in DOMAIN endpoints_static_'[q] : endpoints_static_'[q][h] \in 1 .. N + 1
      /\ endpoints_static_' = [q \in RouterObj |-> endpoints_static_'[q]]
  <2>1. CASE VariablesOf(e) = {}
    <3>1. endpoints_static_' = [endpoints_static_ EXCEPT ![r] = Insert(@, <<e, m>>, N + 1)]
      BY <2>1 DEF Added
    <3>2. endpoints_static_ = [q \in RouterObj |-> endpoints_static_[q]]
      BY DEF Containers
    <3>3. \A q \in RouterObj : endpoints_static_'[q] =
            IF q = r THEN Insert(endpoints_static_[r], <<e, m>>, N + 1) ELSE endpoints_static_[q]
      BY <3>1, <3>2
    <3>4. \A h \in DOMAIN Insert(endpoints_static_[r], <<e, m>>, N + 1) :
            Insert(endpoints_static_[r], <<e, m>>, N + 1)[h] \in 1 .. N + 1
      BY <1>1, <1>4 DEF Insert
    <3>5. endpoints_static_' = [q \in RouterObj |-> endpoints_static_'[q]]
      BY <3>1, <3>2
    <3>6. \A q \in RouterObj : \A h \in DOMAIN endpoints_static_[q] :
            endpoints_static_[q][h] \in 1 .. N + 1
      BY <1>1, <1>4
    <3> QED BY <3>3, <3>4, <3>5, <3>6
  <2>2. CASE VariablesOf(e) # {}
    BY <1>1, <1>4, <2>2 DEF Added, Containers
  <2> QED BY <2>1, <2>2
<1>9. Containers'
  BY <1>7, <1>8 DEF Containers
<1>10. TypeOK'
  BY <1>1, <1>2, <1>3, <1>7, <1>8 DEF TypeOK, D, PlainText
<1> QED BY <1>9, <1>10

LEMMA AddStatic ==
  ASSUME IInv, NEW r \in RouterObj, NEW e \in PlainText, NEW m \in Method, Added(r, e, m)
  PROVE  StaticEndpoints'
<1> DEFINE N == Len(offered)
           static == endpoints_static_
           o == [router |-> r, endpoint |-> e, method |-> m]
<1>1. /\ N \in Nat /\ Len(offered') = N + 1
      /\ \A i \in 1 .. N : offered'[i] = offered[i]
      /\ offered'[N + 1] = o
  BY OfferedGrows DEF IInv
<1>2. \A i \in 1 .. N : offered'[i] = offered[i]
  BY <1>1
<1>3. /\ offered'[N + 1].router = r /\ Key(offered'[N + 1]) = <<e, m>>
      /\ (IsStatic(offered'[N + 1]) <=> VariablesOf(e) = {})
  BY <1>1 DEF Key, IsStatic
<1>4. \A q \in RouterObj : \A h \in DOMAIN static[q] :
        /\ static[q][h] \in 1 .. N
        /\ offered[static[q][h]].router = q /\ Key(offered[static[q][h]]) = h /\ IsStatic(offered[static[q][h]])
  BY DEF IInv, TypeOK, StaticEndpoints
<1>5. \A i \in 1 .. N : IsStatic(offered[i]) =>
        /\ offered[i].router \in RouterObj
        /\ Key(offered[i]) \in DOMAIN static[offered[i].router]
        /\ static[offered[i].router][Key(offered[i])] <= i
  BY OfferedTypes DEF IInv, StaticEndpoints
<1>6. CASE VariablesOf(e) # {}
  <2>1. static' = static
    BY <1>6 DEF Added
  <2>2. \A q \in RouterObj : \A h \in DOMAIN static'[q] :
          LET i == static'[q][h]
          IN  offered'[i].router = q /\ Key(offered'[i]) = h /\ IsStatic(offered'[i])
    BY <1>2, <1>4, <2>1
  <2>3. ASSUME NEW i \in 1 .. N + 1, IsStatic(offered'[i])
        PROVE  /\ Key(offered'[i]) \in DOMAIN static'[offered'[i].router]
               /\ static'[offered'[i].router][Key(offered'[i])] <= i
    <3>1. i \in 1 .. N
      BY <1>1, <1>3, <1>6, <2>3
    <3> QED BY <1>2, <1>5, <2>1, <2>3, <3>1
  <2> QED BY <1>1, <2>2, <2>3 DEF StaticEndpoints, Key, IsStatic
<1>7. CASE VariablesOf(e) = {}
  <2> DEFINE k == <<e, m>>
             more == Insert(static[r], k, N + 1)
  <2>1. \A q \in RouterObj : static'[q] = IF q = r THEN more ELSE static[q]
    BY <1>7 DEF Added, IInv, Containers
  <2>2. /\ DOMAIN more = DOMAIN static[r] \cup {k}
        /\ \A h \in DOMAIN static[r] : more[h] = static[r][h]
        /\ k \notin DOMAIN static[r] => more[k] = N + 1
    BY DEF Insert
  <2> HIDE DEF more, k
  <2>3. ASSUME NEW q \in RouterObj, NEW h \in DOMAIN static'[q]
        PROVE  LET i == static'[q][h]
               IN  offered'[i].router = q /\ Key(offered'[i]) = h /\ IsStatic(offered'[i])
    <3>1. CASE h \in DOMAIN static[q]
      <4>1. static'[q][h] = static[q][h]
        BY <2>1, <2>2, <3>1
      <4> DEFINE i == static[q][h]
      <4>2. i \in 1 .. N /\ offered[i].router = q /\ Key(offered[i]) = h /\ IsStatic(offered[i])
        BY <1>4, <3>1
      <4> HIDE DEF i
      <4>3. offered'[i].router = q /\ Key(offered'[i]) = h /\ IsStatic(offered'[i])
        BY <1>2, <4>2
      <4> QED BY <4>1, <4>3 DEF i
    <3>2. CASE h \notin DOMAIN static[q]
      <4>1. q = r /\ h = k /\ static'[q][h] = N + 1
        BY <2>1, <2>2, <2>3, <3>2
      <4> QED BY <1>3, <1>7, <4>1 DEF k
    <3> QED BY <3>1, <3>2
  <2>4. ASSUME NEW i \in 1 .. N + 1, IsStatic(offered'[i])
        PROVE  /\ Key(offered'[i]) \in DOMAIN static'[offered'[i].router]
               /\ static'[offered'[i].router][Key(offered'[i])] <= i
    <3>1. CASE i \in 1 .. N
      <4> DEFINE q == offered[i].router
                 h == Key(offered[i])
      <4>1. q \in RouterObj /\ h \in DOMAIN static[q] /\ static[q][h] <= i
        BY <1>2, <1>5, <2>4, <3>1
      <4>2. offered'[i].router = q /\ Key(offered'[i]) = h
        BY <1>2, <3>1
      <4> HIDE DEF q, h
      <4>3. h \in DOMAIN static'[q] /\ static'[q][h] = static[q][h]
        BY <2>1, <2>2, <4>1
      <4> QED BY <4>1, <4>2, <4>3
    <3>2. CASE i = N + 1
      <4>1. Key(offered'[i]) = k /\ offered'[i].router = r
        BY <1>3, <3>2 DEF k
      <4>2. k \in DOMAIN static'[r] /\ static'[r][k] = more[k]
        BY <2>1, <2>2
      <4>3. k \in DOMAIN static[r] => more[k] \in 1 .. N
        BY <1>4, <2>2
      <4> QED BY <1>1, <2>2, <3>2, <4>1, <4>2, <4>3
    <3> QED BY <1>1, <3>1, <3>2
  <2> QED BY <1>1, <2>3, <2>4 DEF StaticEndpoints, Key, IsStatic
<1> QED BY <1>6, <1>7

LEMMA AddDynamic ==
  ASSUME IInv, NEW r \in RouterObj, NEW e \in PlainText, NEW m \in Method, Added(r, e, m)
  PROVE  DynamicEndpoints'
<1> DEFINE N == Len(offered)
           dynamic == endpoints_dynamic_
           o == [router |-> r, endpoint |-> e, method |-> m]
           d == [endpoint |-> e, method |-> m, handler |-> N + 1]
           D == [endpoint : Seq(Symbol \ {"NUL"}), method : Method, handler : 1 .. N]
<1>1. /\ N \in Nat /\ Len(offered') = N + 1
      /\ \A i \in 1 .. N : offered'[i] = offered[i]
      /\ offered'[N + 1] = o
  BY OfferedGrows DEF IInv
<1>2. \A i \in 1 .. N : offered'[i] = offered[i]
  BY <1>1
<1>3. /\ offered'[N + 1].router = r /\ Key(offered'[N + 1]) = <<e, m>>
      /\ (IsStatic(offered'[N + 1]) <=> VariablesOf(e) = {})
  BY <1>1 DEF Key, IsStatic
<1>4. \A q \in RouterObj :
        /\ dynamic[q] \in Seq(D) /\ Len(dynamic[q]) \in Nat
        /\ \A k \in 1 .. Len(dynamic[q]) : dynamic[q][k].handler \in 1 .. N
  BY DynamicTypes DEF IInv, TypeOK
<1>5. \A q \in RouterObj : \A k \in 1 .. Len(dynamic[q]) :
        LET c == dynamic[q][k]
        IN  /\ offered[c.handler].router = q /\ Key(offered[c.handler]) = <<c.endpoint, c.method>>
            /\ ~IsStatic(offered[c.handler])
            /\ \A j \in 1 .. k - 1 : dynamic[q][j].handler < c.handler
  BY DEF IInv, DynamicEndpoints
<1>6. \A i \in 1 .. N : ~IsStatic(offered[i]) =>
        /\ offered[i].router \in RouterObj
        /\ \E k \in 1 .. Len(dynamic[offered[i].router]) : dynamic[offered[i].router][k].handler = i
  BY OfferedTypes DEF IInv, DynamicEndpoints
<1>7. \A q \in RouterObj : \A k \in 1 .. Len(dynamic[q]) :
        LET c == dynamic[q][k]
        IN  /\ offered'[c.handler].router = q /\ Key(offered'[c.handler]) = <<c.endpoint, c.method>>
            /\ ~IsStatic(offered'[c.handler])
  BY ZenonT(30), <1>2, <1>4, <1>5
<1> DEFINE Held(q, k) ==
      LET c == dynamic'[q][k]
      IN  /\ offered'[c.handler].router = q /\ Key(offered'[c.handler]) = <<c.endpoint, c.method>>
          /\ ~IsStatic(offered'[c.handler])
          /\ \A j \in 1 .. k - 1 : dynamic'[q][j].handler < c.handler
    Found(i) == \E k \in 1 .. Len(dynamic'[offered'[i].router]) :
                  dynamic'[offered'[i].router][k].handler = i
<1>8. SUFFICES /\ \A q \in RouterObj : \A k \in 1 .. Len(dynamic'[q]) : Held(q, k)
               /\ \A i \in 1 .. N + 1 : ~IsStatic(offered'[i]) => Found(i)
  BY <1>1 DEF DynamicEndpoints, Key, IsStatic
<1>9. CASE VariablesOf(e) = {}
  <2>1. dynamic' = dynamic
    BY <1>9 DEF Added
  <2>2. \A q \in RouterObj : \A k \in 1 .. Len(dynamic'[q]) : Held(q, k)
    BY <1>5, <1>7, <2>1
  <2>3. ASSUME NEW i \in 1 .. N + 1, ~IsStatic(offered'[i]) PROVE Found(i)
    <3>1. i \in 1 .. N
      BY <1>1, <1>3, <1>9, <2>3
    <3> QED BY <1>2, <1>6, <2>1, <2>3, <3>1
  <2> QED BY <2>2, <2>3
<1>10. CASE VariablesOf(e) # {}
  <2> DEFINE more == Append(dynamic[r], d)
             M == Len(dynamic[r])
  <2>1. \A q \in RouterObj : dynamic'[q] = IF q = r THEN more ELSE dynamic[q]
    BY <1>10 DEF Added, IInv, Containers
  <2>2. /\ M \in Nat /\ Len(more) = M + 1 /\ more[M + 1] = d
        /\ \A k \in 1 .. M : more[k] = dynamic[r][k]
    <3>1. dynamic[r] \in Seq(D)
      BY <1>4
    <3> DEFINE C == D \cup {d}
    <3>2. dynamic[r] \in Seq(C) /\ d \in C
      <4> HIDE DEF D, d
      <4> QED BY <3>1, SeqGrows
    <3> HIDE DEF C, d
    <3> QED BY <3>2, AppendProperties, LenProperties
  <2>3. d.handler = N + 1 /\ <<d.endpoint, d.method>> = <<e, m>>
    OBVIOUS
  <2> HIDE DEF more, M, d
  <2>4. ASSUME NEW q \in RouterObj, NEW k \in 1 .. Len(dynamic'[q]) PROVE Held(q, k)
    <3>1. CASE q # r
      BY <1>5, <1>7, <2>1, <3>1
    <3>2. CASE q = r /\ k # M + 1
      <4>1. /\ k \in 1 .. M /\ k \in 1 .. Len(dynamic[r]) /\ dynamic'[q][k] = dynamic[r][k]
            /\ \A j \in 1 .. k - 1 : dynamic'[q][j] = dynamic[r][j]
        <5>1. dynamic'[q] = more /\ k \in 1 .. M + 1
          BY <2>1, <2>2, <2>4, <3>2
        <5>2. k \in 1 .. M /\ \A j \in 1 .. k - 1 : j \in 1 .. M
          BY <2>2, <3>2, <5>1
        <5> QED BY <2>2, <5>1, <5>2 DEF M
      <4> QED BY <1>5, <1>7, <3>2, <4>1
    <3>3. CASE q = r /\ k = M + 1
      <4>1. dynamic'[q][k] = d /\ k - 1 = M /\ \A j \in 1 .. M : dynamic'[q][j] = dynamic[r][j]
        BY <2>1, <2>2, <3>3
      <4>2. \A j \in 1 .. M : dynamic[r][j].handler < N + 1
        BY SMTT(30), <1>1, <1>4 DEF M
      <4>3. \A j \in 1 .. k - 1 : dynamic'[q][j].handler < d.handler
        BY <2>3, <4>1, <4>2
      <4> QED BY <1>3, <1>10, <2>3, <3>3, <4>1, <4>3
    <3> QED BY <3>1, <3>2, <3>3
  <2>5. ASSUME NEW i \in 1 .. N + 1, ~IsStatic(offered'[i]) PROVE Found(i)
    <3>1. CASE i = N + 1
      <4>1. offered'[i].router = r /\ M + 1 \in 1 .. Len(dynamic'[r]) /\ dynamic'[r][M + 1] = d
        BY <1>3, <2>1, <2>2, <3>1
      <4> QED BY <2>3, <3>1, <4>1
    <3>2. CASE i \in 1 .. N
      <4> DEFINE q == offered[i].router
      <4>1. q \in RouterObj /\ offered'[i].router = q
        BY <1>2, <1>6, <2>5, <3>2
      <4>2. PICK k \in 1 .. Len(dynamic[q]) : dynamic[q][k].handler = i
        BY <1>2, <1>6, <2>5, <3>2
      <4> HIDE DEF q
      <4>3. k \in 1 .. Len(dynamic'[q]) /\ dynamic'[q][k] = dynamic[q][k]
        BY <2>1, <2>2, <4>1 DEF M
      <4> QED BY <4>1, <4>2, <4>3
    <3> QED BY <1>1, <3>1, <3>2
  <2> QED BY <2>4, <2>5
<1> QED BY <1>9, <1>10

\* What Route leaves known about the routes.
LEMMA RouteRoutes ==
  ASSUME IInv, NEW path \in Path, NEW r \in RouterObj, Route(path, r)
  PROVE  TypeOK' /\ Routes'
<1> DEFINE M == Len(routed)
<1>1. /\ route_' = [route_ EXCEPT ![r] = path] /\ routers' = Insert(routers, path, r)
      /\ routed' = Append(routed, <<path, r>>) /\ M < MaxRoutes
      /\ UNCHANGED <<endpoints_static_, endpoints_dynamic_, offered, reply>>
  BY DEF Route
<1>2. /\ DOMAIN routers \subseteq Path /\ \A p \in DOMAIN routers : routers[p] \in RouterObj
      /\ route_ \in [RouterObj -> Path \cup {<<>>}] /\ routed \in Seq(Path \X RouterObj)
  BY DEF IInv, TypeOK
<1>3. /\ \A p \in DOMAIN routers : \E i \in 1 .. M : routed[i] = <<p, routers[p]>>
      /\ \A i \in 1 .. M : routed[i][1] \in DOMAIN routers
      /\ \A q \in RouterObj : Given(q) # {} => route_[q] = LastRoute(q)
  BY DEF IInv, Routes
<1>4. /\ M \in Nat /\ Len(routed') = M + 1 /\ routed' \in Seq(Path \X RouterObj)
      /\ \A i \in 1 .. M : routed'[i] = routed[i]
      /\ routed'[M + 1] = <<path, r>>
  <2> DEFINE P == Path \X RouterObj
             c == <<path, r>>
  <2>1. routed \in Seq(P) /\ c \in P /\ routed' = Append(routed, c)
    BY <1>1, <1>2
  <2> HIDE DEF P, c
  <2> QED BY <2>1, AppendProperties, LenProperties DEF P, c
<1>5. /\ DOMAIN routers' = DOMAIN routers \cup {path}
      /\ \A p \in DOMAIN routers : routers'[p] = routers[p]
      /\ path \notin DOMAIN routers => routers'[path] = r
  BY <1>1 DEF Insert
<1>6. \A q \in RouterObj : route_'[q] = IF q = r THEN path ELSE route_[q]
  BY <1>1, <1>2
<1>7. TypeOK'
  <2>1. M + 1 <= MaxRoutes
    BY <1>1, <1>4, BoundAssumption
  <2>2. route_' \in [RouterObj -> Path \cup {<<>>}]
    BY <1>1, <1>2
  <2>3. DOMAIN routers' \subseteq Path /\ \A p \in DOMAIN routers' : routers'[p] \in RouterObj
    BY <1>2, <1>5
  <2> QED BY <1>1, <1>4, <2>1, <2>2, <2>3 DEF IInv, TypeOK
<1>8. \A p \in DOMAIN routers' : \E i \in 1 .. M + 1 : routed'[i] = <<p, routers'[p]>>
  <2> SUFFICES ASSUME NEW p \in DOMAIN routers'
               PROVE \E i \in 1 .. M + 1 : routed'[i] = <<p, routers'[p]>>
    OBVIOUS
  <2>1. CASE p \in DOMAIN routers
    <3>1. PICK i \in 1 .. M : routed[i] = <<p, routers[p]>>
      BY <1>3, <2>1
    <3>2. i \in 1 .. M + 1 /\ routed'[i] = <<p, routers'[p]>>
      BY <1>4, <1>5, <2>1, <3>1
    <3> QED BY <3>2
  <2>2. CASE p \notin DOMAIN routers
    <3>1. p = path /\ routers'[p] = r /\ M + 1 \in 1 .. M + 1
      BY <1>4, <1>5, <2>2
    <3> QED BY <1>4, <3>1
  <2> QED BY <2>1, <2>2
<1>9. \A i \in 1 .. M + 1 : routed'[i][1] \in DOMAIN routers'
  <2>1. \A i \in 1 .. M : routed'[i][1] \in DOMAIN routers'
    BY <1>3, <1>4, <1>5
  <2>2. routed'[M + 1][1] \in DOMAIN routers'
    BY <1>4, <1>5
  <2>3. \A i \in 1 .. M + 1 : i \in 1 .. M \/ i = M + 1
    BY <1>4
  <2> QED BY <2>1, <2>2, <2>3
<1>10. ASSUME NEW q \in RouterObj, Given(q)' # {} PROVE route_'[q] = LastRoute(q)'
  <2> DEFINE G == Given(q)
             H == {i \in 1 .. M + 1 : routed'[i][2] = q}
  <2>1. Given(q)' = H /\ G = {i \in 1 .. M : routed[i][2] = q} /\ LastRoute(q)' = routed'[Latest(H)][1]
    BY <1>4 DEF Given, LastRoute
  <2>2. Latest(H) \in H /\ \A i \in H : i <= Latest(H)
    <3>1. H \subseteq 0 .. M + 1 /\ H # {} /\ M + 1 \in Nat
      BY <1>4, <1>10, <2>1
    <3> HIDE DEF H
    <3> QED BY <3>1, LatestIsGreatest
  <2>3. CASE q = r
    <3>1. M + 1 \in H
      BY <1>4, <2>3
    <3>2. Latest(H) = M + 1
      BY <1>4, <2>2, <3>1
    <3>3. routed'[Latest(H)] = <<path, r>>
      BY <1>4, <3>2
    <3> HIDE DEF H
    <3>4. LastRoute(q)' = path
      BY <2>1, <3>3
    <3> QED BY <1>6, <2>3, <3>4
  <2>4. CASE q # r
    <3>1. H = G
      BY <1>4, <2>1, <2>4
    <3>2. Latest(G) \in 1 .. M /\ routed'[Latest(G)] = routed[Latest(G)]
      BY <1>4, <2>1, <2>2, <3>1
    <3>3. route_[q] = routed[Latest(G)][1]
      BY <1>3, <1>10, <2>1, <3>1 DEF LastRoute
    <3> HIDE DEF G, H
    <3> QED BY <1>6, <2>1, <2>4, <3>1, <3>2, <3>3
  <2> QED BY <2>3, <2>4
<1> QED BY <1>4, <1>7, <1>8, <1>9, <1>10 DEF Routes

LEMMA InitIsInvariant ==
  ASSUME Init
  PROVE  IInv
<1>1. /\ routers = <<>> /\ offered = <<>> /\ routed = <<>> /\ reply = [status |-> "none"]
      /\ route_ = [r \in RouterObj |-> <<>>]
      /\ endpoints_static_ = [r \in RouterObj |-> <<>>]
      /\ endpoints_dynamic_ = [r \in RouterObj |-> <<>>]
  BY DEF Init
<1>2. Len(offered) = 0 /\ Len(routed) = 0 /\ 0 <= MaxEndpoints /\ 0 <= MaxRoutes
      /\ DOMAIN routers = {} /\ reply.status = "none"
  BY <1>1, BoundAssumption
<1>3. \A r \in RouterObj : /\ endpoints_static_[r] = <<>> /\ DOMAIN endpoints_static_[r] = {}
                           /\ endpoints_dynamic_[r] = <<>> /\ Len(endpoints_dynamic_[r]) = 0
  BY <1>1
<1>4. TypeOK
  BY <1>1, <1>2, <1>3 DEF TypeOK
<1>5. Containers /\ StaticEndpoints /\ DynamicEndpoints
  BY <1>1, <1>2, <1>3 DEF Containers, StaticEndpoints, DynamicEndpoints
<1>6. Routes
  BY <1>2 DEF Routes, Given
<1> QED BY <1>4, <1>5, <1>6 DEF IInv

\* Every step keeps the invariant.
LEMMA StepKeepsInvariant ==
  ASSUME IInv, [Next]_vars
  PROVE  IInv'
<1>1. ASSUME NEW r \in RouterObj, NEW endpoint \in Endpoint, NEW m \in Method,
             AddEndpoint(r, endpoint, m)
      PROVE  IInv'
  <2>1. PICK e \in PlainText : Added(r, e, m)
    BY <1>1, AddingIs DEF IInv
  <2>2. TypeOK' /\ Containers'
    BY <2>1, AddTypes DEF IInv
  <2>3. StaticEndpoints' /\ DynamicEndpoints'
    BY <2>1, AddStatic, AddDynamic
  <2>4. UNCHANGED <<routers, route_, routed>>
    BY <2>1 DEF Added
  <2>5. Routes'
    BY <2>4 DEF IInv, Routes, Given, LastRoute
  <2> QED BY <2>2, <2>3, <2>5 DEF IInv
<1>2. ASSUME NEW r \in RouterObj, NEW path \in Path, Route(path, r)
      PROVE  IInv'
  <2>1. TypeOK' /\ Routes'
    BY <1>2, RouteRoutes
  <2>2. Containers' /\ StaticEndpoints' /\ DynamicEndpoints'
    BY <1>2 DEF IInv, Route, Containers, StaticEndpoints, DynamicEndpoints
  <2> QED BY <2>1, <2>2 DEF IInv
<1>3. ASSUME NEW uri \in Uri, NEW m \in Method, Serve(uri, m)
      PROVE  IInv'
  <2>1. UNCHANGED setupVars
    BY <1>3 DEF Serve
  <2>2. reply'.status \in {"none", "no_router", "not_found", "called"}
    BY <1>3 DEF Serve, HandleRequest, Answers
  <2>3. TypeOK'
    BY <2>1, <2>2 DEF IInv, TypeOK, setupVars
  <2>4. Containers' /\ StaticEndpoints' /\ DynamicEndpoints'
    BY <2>1 DEF IInv, setupVars, Containers, StaticEndpoints, DynamicEndpoints
  <2>5. Routes'
    BY <2>1 DEF IInv, Routes, Given, LastRoute, setupVars
  <2> QED BY <2>3, <2>4, <2>5 DEF IInv
<1>4. CASE UNCHANGED vars
  <2>1. TypeOK' /\ Containers' /\ StaticEndpoints' /\ DynamicEndpoints'
    BY ZenonT(30), <1>4 DEF IInv, vars, setupVars, TypeOK, Containers, StaticEndpoints, DynamicEndpoints
  <2>2. Routes'
    BY <1>4 DEF IInv, Routes, Given, LastRoute, vars, setupVars
  <2> QED BY <2>1, <2>2 DEF IInv
<1> QED BY <1>1, <1>2, <1>3, <1>4 DEF Next

\* The routers and their endpoints are as they were given, in every state.
THEOREM Invariance == Spec => []IInv
<1>1. Init => IInv
  BY InitIsInvariant
<1>2. IInv /\ [Next]_vars => IInv'
  BY StepKeepsInvariant
<1> QED BY <1>1, <1>2, PTL DEF Spec

\* The type invariant.
THEOREM TypeCorrect == Spec => []TypeOK
<1>1. IInv => TypeOK
  BY DEF IInv
<1> QED BY <1>1, Invariance, PTL
-----------------------------------------------------------------------------
(* What becomes of a request *)

LEMMA FromIsText ==
  ASSUME NEW s \in Text, NEW n \in Nat
  PROVE  From(s, n + 1) \in Text
<1>1. Len(s) \in Nat /\ \A i \in n + 1 .. Len(s) : s[i] \in Symbol
  BY DEF Text
<1> QED BY <1>1, SubSeqProperties DEF From, Text

LEMMA SeparatorIs ==
  ASSUME NEW s \in Text, Separators(s) # {}
  PROVE  /\ Separator(s) \in 1 .. Len(s) /\ s[Separator(s)] = "?"
         /\ \A i \in 1 .. Separator(s) - 1 : s[i] # "?"
<1> DEFINE S == Separators(s)
           k == Separator(s)
<1>1. S \subseteq 1 .. Len(s) /\ S \subseteq Nat /\ Len(s) \in Nat
  BY DEF Separators, Text
<1>2. k \in S /\ \A j \in S : k <= j
  <2> HIDE DEF S
  <2>1. \E i \in S : \A j \in S : i <= j
    BY <1>1, Least DEF S
  <2>2. k = CHOOSE i \in S : \A j \in S : i <= j
    BY DEF Separator, S
  <2> HIDE DEF k
  <2> QED BY <2>1, <2>2
<1> HIDE DEF k
<1> QED BY <1>1, <1>2 DEF Separators, k

LEMMA AskedIsText ==
  ASSUME NEW uri \in Text, NEW route \in Text
  PROVE  Asked(uri, route) \in Text
<1> DEFINE s == From(uri, Len(route) + 1)
<1>1. s \in Text
  BY FromIsText, LenProperties DEF Text
<1> HIDE DEF s
<1>2. WithoutParameters(s) \in Text
  <2>1. CASE Separators(s) = {}
    BY <1>1, <2>1 DEF WithoutParameters
  <2>2. CASE Separators(s) # {}
    <3>1. Separator(s) \in 1 .. Len(s) /\ Len(s) \in Nat
      BY <1>1, <2>2, SeparatorIs DEF Text
    <3>2. \A i \in 1 .. Separator(s) - 1 : s[i] \in Symbol
      BY <1>1, <3>1 DEF Text
    <3>3. SubSeq(s, 1, Separator(s) - 1) \in Text
      BY <3>1, <3>2, SubSeqProperties DEF Text
    <3> QED BY <2>2, <3>3 DEF WithoutParameters
  <2> QED BY <2>1, <2>2
<1> QED BY <1>2 DEF Asked, s

\* A string without NUL ends where it ends.
LEMMA PlainBeforeNul ==
  ASSUME NEW s \in PlainText
  PROVE  BeforeNul(s) = s
<1>1. s \in Text /\ Len(s) \in 0 .. Len(s) /\ \A i \in 1 .. Len(s) : s[i] # "NUL"
  BY PlainIsText
<1>2. At(s, Len(s) + 1) = "NUL"
  BY PlainIsText DEF At
<1>3. SubSeq(s, 1, Len(s)) = s
  BY <1>1, SubSeqFull DEF Text
<1> QED BY <1>1, <1>2, <1>3, BeforeNulIs

\* The dynamic endpoints that answer, by their places in the list.
Fitting(r, s, m) ==
  {k \in 1 .. Len(endpoints_dynamic_[r]) : FitsDynamic(endpoints_dynamic_[r][k], s, m)}

\* Which answer a router gives.
LEMMA AnswersAre ==
  ASSUME TypeOK, NEW r \in RouterObj, NEW s \in Text, NEW m
  PROVE  LET a == Answers(r, s, m)
             fits == Fitting(r, s, m)
             d == endpoints_dynamic_[r][First(fits)]
         IN  /\ <<s, m>> \in DOMAIN endpoints_static_[r] =>
                  a = [status |-> "called", handler |-> endpoints_static_[r][<<s, m>>],
                       variables |-> <<>>]
             /\ <<s, m>> \notin DOMAIN endpoints_static_[r] /\ fits # {} =>
                  /\ a = [status |-> "called", handler |-> d.handler,
                          variables |-> ParsePathVariables(s, d.endpoint).variables]
                  /\ First(fits) \in fits /\ \A k \in fits : First(fits) <= k
             /\ <<s, m>> \notin DOMAIN endpoints_static_[r] /\ fits = {} =>
                  a = [status |-> "not_found", handler |-> 0, variables |-> <<>>]
<1> DEFINE static == {h \in DOMAIN endpoints_static_[r] : h = <<s, m>>}
           fits == Fitting(r, s, m)
           d == endpoints_dynamic_[r][First(fits)]
           a == Answers(r, s, m)
<1>1. <<s, m>> \in DOMAIN endpoints_static_[r] <=> static # {}
  OBVIOUS
<1>2. fits # {} => First(fits) \in fits /\ \A k \in fits : First(fits) <= k
  <2>1. fits \subseteq Nat
    BY DynamicTypes DEF Fitting
  <2> HIDE DEF fits
  <2> QED BY <2>1, FirstIsLeast
<1>3. a = CASE static # {} ->
                 [status |-> "called", handler |-> endpoints_static_[r][<<s, m>>],
                  variables |-> <<>>]
            [] static = {} /\ fits # {} ->
                 [status |-> "called", handler |-> d.handler,
                  variables |-> ParsePathVariables(s, d.endpoint).variables]
            [] OTHER -> [status |-> "not_found", handler |-> 0, variables |-> <<>>]
  BY DEF Answers, Fitting
<1> HIDE DEF static, fits, d, a
<1> QED BY <1>1, <1>2, <1>3 DEF fits, d, a

\* The answers that call a method: what was asked fits what was offered.
LEMMA CalledIs ==
  ASSUME IInv, NEW r \in RouterObj, NEW s \in Text, NEW m, Answers(r, s, m).status = "called"
  PROVE  LET a == Answers(r, s, m)
             o == offered[a.handler]
         IN  /\ a.handler \in 1 .. Len(offered) /\ o.router = r /\ o.method = m
             /\ o.endpoint \in PlainText
             /\ a.variables \in [VariablesOf(o.endpoint) -> Text]
             /\ NamesOnce(o.endpoint) => Written(o.endpoint, a.variables) = BeforeNul(s)
             /\ IsStatic(o) => o.endpoint = s
<1> DEFINE h == <<s, m>>
           a == Answers(r, s, m)
<1>1. CASE h \in DOMAIN endpoints_static_[r]
  <2> DEFINE i == endpoints_static_[r][h]
             o == offered[i]
  <2>1. a = [status |-> "called", handler |-> i, variables |-> <<>>]
    BY <1>1, AnswersAre DEF IInv
  <2>2. i \in 1 .. Len(offered)
    BY <1>1 DEF IInv, TypeOK
  <2>3. o.router = r /\ Key(o) = h /\ IsStatic(o)
    BY <1>1 DEF IInv, StaticEndpoints
  <2>4. o.endpoint \in PlainText
    BY <2>2, OfferedTypes DEF IInv
  <2> HIDE DEF i, o, a
  <2>5. a.handler = i /\ a.variables = <<>>
    BY <2>1
  <2>6. o.endpoint = s /\ o.method = m
    BY <2>3 DEF Key
  <2>7. a.variables \in [VariablesOf(o.endpoint) -> Text]
    <3> DEFINE D == VariablesOf(o.endpoint)
    <3>1. D = {}
      BY <2>3 DEF IsStatic
    <3> HIDE DEF D
    <3>2. <<>> \in [D -> Text]
      BY <3>1
    <3> QED BY <2>5, <3>2 DEF D
  <2>8. Written(o.endpoint, a.variables) = BeforeNul(s)
    BY <2>3, <2>4, <2>6, PlainIsText, WrittenPlain, PlainBeforeNul DEF IsStatic
  <2> QED BY <2>2, <2>3, <2>4, <2>5, <2>6, <2>7, <2>8 DEF a, o
<1>2. CASE h \notin DOMAIN endpoints_static_[r]
  <2> DEFINE fits == Fitting(r, s, m)
             k == First(fits)
             d == endpoints_dynamic_[r][k]
             o == offered[d.handler]
             p == ParsePathVariables(s, d.endpoint)
  <2>1. fits # {}
    BY <1>2, AnswersAre DEF IInv
  <2>2. a = [status |-> "called", handler |-> d.handler, variables |-> p.variables] /\ k \in fits
    BY <1>2, <2>1, AnswersAre DEF IInv
  <2> HIDE DEF k
  <2>3. k \in 1 .. Len(endpoints_dynamic_[r]) /\ d.method = m /\ p.status = "OK"
    BY <2>2 DEF Fitting, FitsDynamic
  <2>4. d.endpoint \in PlainText /\ d.handler \in 1 .. Len(offered)
    BY <2>3, DynamicTypes DEF IInv
  <2>5. o.router = r /\ Key(o) = <<d.endpoint, d.method>> /\ ~IsStatic(o)
    BY <2>3 DEF IInv, DynamicEndpoints
  <2> HIDE DEF o, d, a, fits
  <2>6. o.endpoint = d.endpoint /\ o.method = m /\ a.handler = d.handler /\ a.variables = p.variables
    BY <2>2, <2>3, <2>5 DEF Key
  <2>7. /\ p.variables \in [VariablesOf(d.endpoint) -> Text]
        /\ NamesOnce(d.endpoint) => Written(d.endpoint, p.variables) = BeforeNul(s)
    BY <2>3, <2>4, ParsedIsWritten
  <2> HIDE DEF p
  <2> QED BY <2>4, <2>5, <2>6, <2>7 DEF a, o
<1> QED BY <1>1, <1>2

\* An endpoint that fits is among those that answer.
LEMMA FittingIsThere ==
  ASSUME IInv, NEW s \in Text, NEW j \in 1 .. Len(offered), Fits(offered[j].endpoint, s)
  PROVE  LET r == offered[j].router
             m == offered[j].method
         IN  /\ r \in RouterObj
             /\ IsStatic(offered[j]) =>
                  /\ <<s, m>> \in DOMAIN endpoints_static_[r]
                  /\ endpoints_static_[r][<<s, m>>] <= j
             /\ ~IsStatic(offered[j]) =>
                  \E k \in Fitting(r, s, m) : endpoints_dynamic_[r][k].handler = j
<1> DEFINE o == offered[j]
           r == o.router
           m == o.method
<1>1. r \in RouterObj /\ o.endpoint \in PlainText
  BY OfferedTypes DEF IInv
<1>2. CASE IsStatic(o)
  <2>1. o.endpoint = s
    BY <1>2 DEF Fits, IsStatic
  <2>2. Key(o) = <<s, m>>
    BY <2>1 DEF Key
  <2>3. Key(o) \in DOMAIN endpoints_static_[r] /\ endpoints_static_[r][Key(o)] <= j
    BY <1>2 DEF IInv, StaticEndpoints
  <2> HIDE DEF o
  <2> QED BY <1>1, <1>2, <2>2, <2>3 DEF o
<1>3. CASE ~IsStatic(o)
  <2>1. PICK k \in 1 .. Len(endpoints_dynamic_[r]) : endpoints_dynamic_[r][k].handler = j
    BY <1>3 DEF IInv, DynamicEndpoints
  <2> DEFINE d == endpoints_dynamic_[r][k]
  <2>2. Key(offered[d.handler]) = <<d.endpoint, d.method>>
    BY <1>1 DEF IInv, DynamicEndpoints
  <2>3. d.endpoint = o.endpoint /\ d.method = m
    BY <2>1, <2>2 DEF Key
  <2>4. ParsePathVariables(s, o.endpoint).status = "OK"
    BY <1>1, <1>3, FittingIsParsed DEF IsStatic
  <2> HIDE DEF d, o
  <2>5. FitsDynamic(d, s, m)
    BY <2>3, <2>4 DEF FitsDynamic
  <2>6. k \in Fitting(r, s, m)
    BY <2>5 DEF Fitting, d
  <2> QED BY <1>1, <1>3, <2>1, <2>6 DEF o
<1> QED BY <1>2, <1>3

\* The router that gets a request, and its answer.
Served(uri, m, path, r, s) ==
  LET a == Answers(r, s, m)
  IN  /\ path \in Matching(uri) /\ \A q \in Matching(uri) : Len(path) <= Len(q)
      /\ r \in RouterObj /\ s \in Text /\ LastRoute(r) \in Text /\ path \in Text
      /\ \E i \in 1 .. Len(routed) : routed[i] = <<path, r>>
      /\ s = Asked(uri, LastRoute(r))
      /\ reply' = [status |-> a.status, uri |-> uri, method |-> m, router |-> r,
                   handler |-> a.handler, variables |-> a.variables,
                   parameters |-> ParseParameters(From(uri, Len(LastRoute(r)) + 1))]
      /\ UNCHANGED setupVars

LEMMA ServingIs ==
  ASSUME IInv, NEW uri \in Uri, NEW m, Serve(uri, m), Matching(uri) # {}
  PROVE  \E path, r, s : Served(uri, m, path, r, s)
<1> DEFINE path == FirstMatching(uri)
           r == routers[path]
           s == Asked(uri, LastRoute(r))
           a == Answers(r, s, m)
           M == Matching(uri)
<1>1. uri \in Text /\ M \subseteq DOMAIN routers /\ \A p \in M : p \in Text /\ Len(p) \in Nat
  <2>1. Path \subseteq Text
    BY UriAssumption DEF Text
  <2>2. M \subseteq Path
    BY DEF Matching, IInv, TypeOK
  <2> QED BY <2>1, <2>2, UriAssumption DEF Matching, Text
<1>2. path \in M /\ \A q \in M : Len(path) <= Len(q)
  <2> DEFINE S == {Len(p) : p \in M}
  <2>1. S \subseteq Nat /\ S # {}
    BY <1>1
  <2>2. PICK n \in S : \A k \in S : n <= k
    <3> HIDE DEF S
    <3> QED BY <2>1, Least
  <2>3. PICK p \in M : n = Len(p)
    BY <2>2
  <2>4. \A q \in M : Len(p) <= Len(q)
    BY <2>2, <2>3
  <2>5. path = CHOOSE t \in M : \A q \in M : Len(t) <= Len(q)
    BY DEF FirstMatching
  <2> HIDE DEF path, M
  <2> QED BY <2>4, <2>5
<1> HIDE DEF path
<1>3. r \in RouterObj /\ \E i \in 1 .. Len(routed) : routed[i] = <<path, r>>
  BY <1>1, <1>2 DEF IInv, TypeOK, Routes
<1> HIDE DEF r
<1>4. Given(r) # {}
  BY <1>3 DEF Given
<1>5. route_[r] = LastRoute(r) /\ LastRoute(r) \in Text
  <2>1. route_[r] = LastRoute(r)
    BY <1>3, <1>4 DEF IInv, Routes
  <2>2. route_[r] \in Path \cup {<<>>}
    BY <1>3 DEF IInv, TypeOK
  <2>3. Path \subseteq Text /\ <<>> \in Text
    BY UriAssumption DEF Text
  <2>4. route_[r] \in Text
    BY <2>2, <2>3
  <2> QED BY <2>1, <2>4
<1>6. s \in Text
  BY <1>1, <1>5, AskedIsText
<1>7. reply' = HandleRequest(r, uri, m) /\ UNCHANGED setupVars
  BY DEF Serve, r, path
<1>8. s = WithoutParameters(From(uri, Len(route_[r]) + 1))
  BY <1>5 DEF Asked
<1> HIDE DEF s, a
<1>9. reply' = [status |-> a.status, uri |-> uri, method |-> m, router |-> r,
                handler |-> a.handler, variables |-> a.variables,
                parameters |-> ParseParameters(From(uri, Len(LastRoute(r)) + 1))]
  BY <1>5, <1>7, <1>8 DEF HandleRequest, a
<1>10. Served(uri, m, path, r, s)
  BY <1>1, <1>2, <1>3, <1>5, <1>6, <1>7, <1>9 DEF Served, s, a
<1> QED BY <1>10

\* What a request to no router leaves.
LEMMA UnservedIs ==
  ASSUME NEW uri, NEW m, Serve(uri, m), Matching(uri) = {}
  PROVE  /\ reply'.status = "no_router" /\ reply'.uri = uri /\ reply'.method = m
         /\ UNCHANGED setupVars
  BY DEF Serve

\* What is said of the setup stays true.
LEMMA SetupStays ==
  ASSUME UNCHANGED setupVars
  PROVE  /\ offered' = offered /\ routed' = routed /\ Matching(reply.uri)' = Matching(reply'.uri)
         /\ \A r : Given(r)' = Given(r) /\ LastRoute(r)' = LastRoute(r)
         /\ Disciplined' = Disciplined
  BY DEF setupVars, Given, LastRoute, Disciplined, Matching
-----------------------------------------------------------------------------
(* The properties *)

\* The routes of a router that was given only one, and the router of a route
\* in a disciplined program.
LEMMA GivenOnce ==
  ASSUME IInv, NEW i \in 1 .. Len(routed), Given(routed[i][2]) = {i}
  PROVE  LastRoute(routed[i][2]) = routed[i][1]
<1> DEFINE S == {i}
<1>1. Latest(S) = i
  <2>1. i \in Nat
    OBVIOUS
  <2>2. \A k \in S : (\A j \in S : j <= k) <=> k = i
    BY <2>1
  <2>3. Latest(S) \in S
    <3>1. \E k \in S : \A j \in S : j <= k
      BY <2>2
    <3> HIDE DEF S
    <3> QED BY <3>1 DEF Latest
  <2> QED BY <2>3
<1> QED BY <1>1 DEF LastRoute

LEMMA DisciplinedGives ==
  ASSUME IInv, Disciplined, NEW i \in 1 .. Len(routed)
  PROVE  Given(routed[i][2]) = {i}
  BY DEF Disciplined, Given

\* Two prefixes of a URI of the same length are the same.
LEMMA SamePrefix ==
  ASSUME NEW p, NEW q, NEW uri, IsPrefixOf(p, uri), IsPrefixOf(q, uri), Len(p) = Len(q)
  PROVE  p = q
  BY DEF IsPrefixOf

LEMMA CalledStep ==
  ASSUME IInv, NEW uri \in Uri, NEW m \in Method, Serve(uri, m)
  PROVE  CalledAsOffered'
<1>1. CASE Matching(uri) = {}
  BY <1>1, UnservedIs DEF CalledAsOffered
<1>2. CASE Matching(uri) # {}
  <2>1. PICK path, r, s : Served(uri, m, path, r, s)
    BY <1>2, ServingIs
  <2> DEFINE a == Answers(r, s, m)
             o == offered[a.handler]
             v == a.variables
             parameters == ParseParameters(From(uri, Len(LastRoute(r)) + 1))
  <2>2. /\ r \in RouterObj /\ s \in Text /\ s = Asked(uri, LastRoute(r)) /\ path \in Matching(uri)
        /\ reply' = [status |-> a.status, uri |-> uri, method |-> m, router |-> r,
                     handler |-> a.handler, variables |-> v, parameters |-> parameters]
        /\ UNCHANGED setupVars
    BY <2>1 DEF Served
  <2>3. a.status = "called" =>
          /\ a.handler \in 1 .. Len(offered) /\ o.router = r /\ o.method = m
          /\ o.endpoint \in PlainText
          /\ v \in [VariablesOf(o.endpoint) -> Text]
          /\ NamesOnce(o.endpoint) => Written(o.endpoint, v) = BeforeNul(s)
          /\ IsStatic(o) => o.endpoint = s
    BY <2>2, CalledIs
  <2> HIDE DEF a, o, v, parameters
  <2>4. reply'.status = a.status /\ reply'.uri = uri /\ reply'.method = m /\ reply'.router = r
        /\ reply'.handler = a.handler /\ reply'.variables = v
    BY <2>2
  <2>5. offered' = offered /\ Given(r)' = Given(r) /\ LastRoute(r)' = LastRoute(r)
    BY <2>2, SetupStays
  <2>6. SUFFICES ASSUME a.status = "called"
                 PROVE  /\ o.router = r /\ o.method = m
                        /\ \A x \in Variable : x \in DOMAIN v <=> x \in VariablesOf(o.endpoint)
                        /\ NamesOnce(o.endpoint) =>
                             Written(o.endpoint, [x \in VariablesOf(o.endpoint) |->
                                                    IF ~(x \in DOMAIN v) THEN <<>> ELSE v[x]])
                               = BeforeNul(s)
                        /\ VariablesOf(o.endpoint) = {} => o.endpoint = s
                        /\ Given(r) = {Latest(Given(r))} => IsPrefixOf(LastRoute(r), uri)
    <3>1. Given(reply.router)' = Given(r) /\ LastRoute(reply.router)' = LastRoute(r)
      BY <2>2, <2>4 DEF Given, LastRoute, setupVars
    <3>2. Asked(reply.uri, LastRoute(reply.router))' = s
      BY <2>2, <2>4, <3>1
    <3>3. offered'[reply'.handler] = o
      BY <2>4, <2>5 DEF o
    <3> QED BY <2>4, <3>1, <3>2, <3>3
            DEF CalledAsOffered, ExistsPathVariable, GetPathVariable
  <2>7. \A x \in Variable : x \in DOMAIN v <=> x \in VariablesOf(o.endpoint)
    BY <2>3, <2>6
  <2>8. ASSUME NamesOnce(o.endpoint)
        PROVE  Written(o.endpoint, [x \in VariablesOf(o.endpoint) |->
                                      IF ~(x \in DOMAIN v) THEN <<>> ELSE v[x]]) = BeforeNul(s)
    <3> DEFINE D == VariablesOf(o.endpoint)
               w == [x \in D |-> IF ~(x \in DOMAIN v) THEN <<>> ELSE v[x]]
    <3>1. \A x \in D : w[x] = v[x]
      BY <2>3, <2>6
    <3> HIDE DEF w
    <3>2. Written(o.endpoint, w) = Written(o.endpoint, v)
      BY <2>3, <2>6, <3>1, PlainIsText, WrittenSame
    <3> QED BY <2>3, <2>6, <2>8, <3>2 DEF w
  <2>9. ASSUME Given(r) = {Latest(Given(r))} PROVE IsPrefixOf(LastRoute(r), uri)
    <3>1. PICK i \in 1 .. Len(routed) : routed[i] = <<path, r>>
      BY <2>1 DEF Served
    <3>2. routed[i][2] = r /\ routed[i][1] = path
      BY <3>1
    <3>3. i \in Given(r)
      BY <3>2 DEF Given
    <3>4. i = Latest(Given(r))
      BY <2>9, <3>3
    <3>5. LastRoute(r) = path
      BY <3>2, <3>4 DEF LastRoute
    <3> QED BY <2>2, <3>5 DEF Matching
  <2> QED BY <2>3, <2>6, <2>7, <2>8, <2>9 DEF IsStatic
<1> QED BY <1>1, <1>2

LEMMA FoundStep ==
  ASSUME IInv, NEW uri \in Uri, NEW m \in Method, Serve(uri, m)
  PROVE  OfferedIsFound'
<1>1. UNCHANGED setupVars /\ reply'.uri = uri /\ reply'.method = m
  <2>1. CASE Matching(uri) = {}
    BY <2>1, UnservedIs
  <2>2. CASE Matching(uri) # {}
    <3>1. PICK path, r, s : Served(uri, m, path, r, s)
      BY <2>2, ServingIs
    <3> QED BY <3>1 DEF Served
  <2> QED BY <2>1, <2>2
<1>2. /\ offered' = offered /\ routed' = routed /\ Matching(reply.uri)' = Matching(uri)
      /\ Disciplined' = Disciplined
  BY <1>1, SetupStays
<1>3. SUFFICES ASSUME reply'.status \in {"no_router", "not_found"}, Disciplined,
                      NEW i \in 1 .. Len(routed), NEW j \in 1 .. Len(offered),
                      IsPrefixOf(routed[i][1], uri),
                      \A path \in Matching(uri) : Len(routed[i][1]) <= Len(path),
                      offered[j].router = routed[i][2], offered[j].method = m,
                      Fits(offered[j].endpoint, Asked(uri, routed[i][1]))
               PROVE  FALSE
  BY <1>1, <1>2 DEF OfferedIsFound
<1>4. routed[i][1] \in Matching(uri)
  BY <1>3 DEF IInv, Routes, Matching
<1>5. PICK path, r, s : Served(uri, m, path, r, s)
  BY <1>4, ServingIs
<1>6. /\ path \in Matching(uri) /\ \A q \in Matching(uri) : Len(path) <= Len(q)
      /\ s = Asked(uri, LastRoute(r)) /\ s \in Text /\ path \in Text
      /\ reply'.status = Answers(r, s, m).status
  BY <1>5 DEF Served
<1>7. path = routed[i][1]
  <2>1. routed[i][1] \in Text
    BY SMTT(30), <1>4, UriAssumption DEF Matching, IInv, TypeOK, Text
  <2>2. Len(path) <= Len(routed[i][1]) /\ Len(routed[i][1]) <= Len(path)
    BY <1>3, <1>4, <1>6
  <2>3. Len(path) = Len(routed[i][1])
    BY <1>6, <2>1, <2>2, LenProperties DEF Text
  <2> QED BY <1>3, <1>6, <2>3, SamePrefix DEF Matching
<1>8. r = routed[i][2]
  <2>1. PICK k \in 1 .. Len(routed) : routed[k] = <<path, r>>
    BY <1>5 DEF Served
  <2>2. routed[k][1] = routed[i][1] /\ routed[k][2] = r
    BY <1>7, <2>1
  <2>3. k = i
    BY <1>3, <2>2 DEF Disciplined
  <2> QED BY <2>2, <2>3
<1>9. LastRoute(r) = routed[i][1]
  BY <1>3, <1>8, GivenOnce, DisciplinedGives
<1>10. Fits(offered[j].endpoint, s)
  BY <1>3, <1>6, <1>9
<1>11. r \in RouterObj
  BY <1>5 DEF Served
<1>12. Answers(r, s, m).status = "called"
  <2>1. CASE IsStatic(offered[j])
    <3>1. <<s, m>> \in DOMAIN endpoints_static_[r]
      BY <1>3, <1>6, <1>8, <1>10, <2>1, FittingIsThere
    <3> QED BY <1>6, <1>11, <3>1, AnswersAre DEF IInv
  <2>2. CASE ~IsStatic(offered[j])
    <3>1. Fitting(r, s, m) # {}
      BY <1>3, <1>6, <1>8, <1>10, <2>2, FittingIsThere
    <3>2. CASE <<s, m>> \in DOMAIN endpoints_static_[r]
      BY <1>6, <1>11, <3>2, AnswersAre DEF IInv
    <3>3. CASE <<s, m>> \notin DOMAIN endpoints_static_[r]
      BY <1>6, <1>11, <3>1, <3>3, AnswersAre DEF IInv
    <3> QED BY <3>2, <3>3
  <2> QED BY <2>1, <2>2
<1> QED BY <1>3, <1>6, <1>12

LEMMA OrderStep ==
  ASSUME IInv, NEW uri \in Uri, NEW m \in Method, Serve(uri, m)
  PROVE  OrderOfSearch'
<1>1. CASE Matching(uri) = {}
  BY <1>1, UnservedIs DEF OrderOfSearch
<1>2. CASE Matching(uri) # {}
  <2>1. PICK path, r, s : Served(uri, m, path, r, s)
    BY <1>2, ServingIs
  <2> DEFINE a == Answers(r, s, m)
             h == <<s, m>>
             static == endpoints_static_[r]
             dynamic == endpoints_dynamic_[r]
             Rival(j) == /\ offered[j].router = r /\ offered[j].method = m
                         /\ Fits(offered[j].endpoint, s)
             rivals == {j \in 1 .. Len(offered) : Rival(j)}
             plain == {j \in rivals : VariablesOf(offered[j].endpoint) = {}}
  <2>2. /\ r \in RouterObj /\ s \in Text /\ s = Asked(uri, LastRoute(r)) /\ UNCHANGED setupVars
        /\ reply'.status = a.status /\ reply'.uri = uri /\ reply'.method = m
        /\ reply'.router = r /\ reply'.handler = a.handler
    BY <2>1 DEF Served
  <2>3. \A j \in rivals :
          /\ IsStatic(offered[j]) => h \in DOMAIN static /\ static[h] <= j
          /\ ~IsStatic(offered[j]) => \E k \in Fitting(r, s, m) : dynamic[k].handler = j
    <3> SUFFICES ASSUME NEW j \in rivals
                 PROVE  /\ IsStatic(offered[j]) => h \in DOMAIN static /\ static[h] <= j
                        /\ ~IsStatic(offered[j]) =>
                             \E k \in Fitting(r, s, m) : dynamic[k].handler = j
      OBVIOUS
    <3>1. j \in 1 .. Len(offered) /\ offered[j].router = r /\ offered[j].method = m
          /\ Fits(offered[j].endpoint, s)
      OBVIOUS
    <3> HIDE DEF rivals
    <3> DEFINE q == offered[j].router
               n == offered[j].method
    <3>2. /\ IsStatic(offered[j]) =>
               <<s, n>> \in DOMAIN endpoints_static_[q] /\ endpoints_static_[q][<<s, n>>] <= j
          /\ ~IsStatic(offered[j]) =>
               \E k \in Fitting(q, s, n) : endpoints_dynamic_[q][k].handler = j
      BY <2>2, <3>1, FittingIsThere
    <3> QED BY <3>1, <3>2
  <2>4. a.status = "called" => a.handler \in 1 .. Len(offered)
    BY <2>2, CalledIs
  <2>5. h \in DOMAIN static => a.handler = static[h] /\ a.status = "called"
    BY <2>2, AnswersAre DEF IInv
  <2>6. h \in DOMAIN static => static[h] \in plain
    <3> SUFFICES ASSUME h \in DOMAIN static PROVE static[h] \in plain
      OBVIOUS
    <3> DEFINE i == static[h]
    <3>1. i \in 1 .. Len(offered)
      BY <2>4, <2>5
    <3>2. offered[i].router = r /\ Key(offered[i]) = h /\ IsStatic(offered[i])
      BY <2>2 DEF IInv, StaticEndpoints
    <3>3. offered[i].endpoint = s /\ offered[i].method = m
      BY <3>2 DEF Key
    <3> HIDE DEF i
    <3>4. Fits(offered[i].endpoint, s)
      BY <3>2, <3>3 DEF Fits, IsStatic
    <3> QED BY <3>1, <3>2, <3>3, <3>4 DEF IsStatic, i
  <2>7. SUFFICES ASSUME a.status = "called"
                 PROVE  IF plain # {} THEN a.handler \in plain /\ \A j \in plain : a.handler <= j
                                      ELSE \A j \in rivals : a.handler <= j
    <3>1. offered' = offered /\ LastRoute(reply.router)' = LastRoute(r)
      BY <2>2 DEF Given, LastRoute, setupVars
    <3>2. Asked(reply.uri, LastRoute(reply.router))' = s
      BY <2>2, <3>1
    <3> HIDE DEF a
    <3> QED BY <2>2, <3>1, <3>2 DEF OrderOfSearch
  <2>8. CASE plain # {}
    <3>1. \A j \in plain : h \in DOMAIN static /\ static[h] <= j
      BY <2>3 DEF IsStatic
    <3>2. h \in DOMAIN static
      BY <2>8, <3>1
    <3> HIDE DEF plain, a, h, static
    <3> QED BY <2>5, <2>6, <2>8, <3>1, <3>2
  <2>9. CASE plain = {}
    <3>1. h \notin DOMAIN static
      BY <2>6, <2>9
    <3> DEFINE fits == Fitting(r, s, m)
               first == First(fits)
    <3>2. ASSUME NEW j \in rivals PROVE a.handler <= j
      <4>1. ~IsStatic(offered[j])
        BY <2>9, <3>2 DEF IsStatic
      <4>2. PICK k \in fits : dynamic[k].handler = j
        BY <2>3, <3>2, <4>1
      <4>3. a.handler = dynamic[first].handler /\ first \in fits /\ first <= k
        BY <2>2, <3>1, <4>2, AnswersAre DEF IInv
      <4>4. k \in 1 .. Len(dynamic) /\ first \in 1 .. Len(dynamic) /\ Len(dynamic) \in Nat
        BY <2>2, <4>2, <4>3, DynamicTypes DEF Fitting, IInv
      <4>5. first < k => dynamic[first].handler < dynamic[k].handler
        <5> HIDE DEF first
        <5>1. \A i \in 1 .. k - 1 : dynamic[i].handler < dynamic[k].handler
          BY <2>2, <4>4 DEF IInv, DynamicEndpoints
        <5>2. first < k => first \in 1 .. k - 1
          BY <4>4
        <5> QED BY <5>1, <5>2
      <4>6. dynamic[k].handler \in Nat /\ dynamic[first].handler \in Nat
        <5> HIDE DEF first
        <5> QED BY <2>2, <4>4, DynamicTypes DEF IInv
      <4> HIDE DEF first, fits, dynamic, a
      <4> QED BY <4>2, <4>3, <4>4, <4>5, <4>6
    <3> HIDE DEF plain, rivals
    <3> QED BY <2>9, <3>2
  <2> QED BY <2>8, <2>9
<1> QED BY <1>1, <1>2

\* A property of the reply that Serve brings about holds of every state.
LEMMA SetupHasNoReply ==
  ASSUME [Next]_vars, ~ \E uri \in Uri, m \in Method : Serve(uri, m)
  PROVE  UNCHANGED vars \/ (reply.status = "none" /\ reply' = reply)
  BY DEF Next, AddEndpoint, Route

\* A method is only called for a request it was added for.
THEOREM CalledMethods == Spec => []CalledAsOffered
<1>1. Init => CalledAsOffered
  BY DEF Init, CalledAsOffered
<1>2. IInv /\ CalledAsOffered /\ [Next]_vars => CalledAsOffered'
  <2> SUFFICES ASSUME IInv, CalledAsOffered, [Next]_vars PROVE CalledAsOffered'
    OBVIOUS
  <2>1. CASE \E uri \in Uri, m \in Method : Serve(uri, m)
    BY <2>1, CalledStep
  <2>2. CASE ~ \E uri \in Uri, m \in Method : Serve(uri, m)
    <3>1. CASE reply.status = "none" /\ reply' = reply
      BY <3>1 DEF CalledAsOffered
    <3>2. CASE UNCHANGED vars
      BY <3>2 DEF vars, setupVars, CalledAsOffered, ExistsPathVariable, GetPathVariable,
                  LastRoute, Given
    <3> QED BY <2>2, <3>1, <3>2, SetupHasNoReply
  <2> QED BY <2>1, <2>2
<1> QED BY <1>1, <1>2, Invariance, PTL DEF Spec

\* In a disciplined program, a request that fits an endpoint is answered.
THEOREM OfferedMethods == Spec => []OfferedIsFound
<1>1. Init => OfferedIsFound
  BY DEF Init, OfferedIsFound
<1>2. IInv /\ OfferedIsFound /\ [Next]_vars => OfferedIsFound'
  <2> SUFFICES ASSUME IInv, OfferedIsFound, [Next]_vars PROVE OfferedIsFound'
    OBVIOUS
  <2>1. CASE \E uri \in Uri, m \in Method : Serve(uri, m)
    BY <2>1, FoundStep
  <2>2. CASE ~ \E uri \in Uri, m \in Method : Serve(uri, m)
    <3>1. CASE reply.status = "none" /\ reply' = reply
      BY <3>1 DEF OfferedIsFound
    <3>2. CASE UNCHANGED vars
      BY <3>2 DEF vars, setupVars, OfferedIsFound, Disciplined, Matching
    <3> QED BY <2>2, <3>1, <3>2, SetupHasNoReply
  <2> QED BY <2>1, <2>2
<1> QED BY <1>1, <1>2, Invariance, PTL DEF Spec

\* Of the endpoints that fit, the static ones come first, and each in the order
\* in which they were added.
THEOREM SearchOrder == Spec => []OrderOfSearch
<1>1. Init => OrderOfSearch
  BY DEF Init, OrderOfSearch
<1>2. IInv /\ OrderOfSearch /\ [Next]_vars => OrderOfSearch'
  <2> SUFFICES ASSUME IInv, OrderOfSearch, [Next]_vars PROVE OrderOfSearch'
    OBVIOUS
  <2>1. CASE \E uri \in Uri, m \in Method : Serve(uri, m)
    BY <2>1, OrderStep
  <2>2. CASE ~ \E uri \in Uri, m \in Method : Serve(uri, m)
    <3>1. CASE reply.status = "none" /\ reply' = reply
      BY <3>1 DEF OrderOfSearch
    <3>2. CASE UNCHANGED vars
      BY ZenonT(30), <3>2 DEF vars, setupVars, OrderOfSearch, LastRoute, Given
    <3> QED BY <2>2, <3>1, <3>2, SetupHasNoReply
  <2> QED BY <2>1, <2>2
<1> QED BY <1>1, <1>2, Invariance, PTL DEF Spec
-----------------------------------------------------------------------------
(* Parameters *)

\* A part of a string.
LEMMA Slice ==
  ASSUME NEW q \in Text, NEW b \in 1 .. Len(q) + 1, NEW n \in b - 1 .. Len(q)
  PROVE  /\ SubSeq(q, b, n) \in Text /\ Len(SubSeq(q, b, n)) = n - b + 1
         /\ \A i \in 1 .. n - b + 1 : SubSeq(q, b, n)[i] = q[b + i - 1]
<1>1. Len(q) \in Nat /\ \A i \in b .. n : q[i] \in Symbol
  BY DEF Text
<1>2. b \in Int /\ n \in Int
  BY <1>1
<1>3. /\ SubSeq(q, b, n) \in Text
      /\ Len(SubSeq(q, b, n)) = IF b <= n THEN n - b + 1 ELSE 0
      /\ \A i \in 1 .. n - b + 1 : SubSeq(q, b, n)[i] = q[b + i - 1]
  BY <1>1, <1>2, SubSeqProperties DEF Text
<1> QED BY <1>1, <1>3

LEMMA SliceOfSlice ==
  ASSUME NEW q \in Text, NEW b \in 1 .. Len(q) + 1, NEW n \in b - 1 .. Len(q),
         NEW i \in 1 .. n - b + 2, NEW j \in i - 1 .. n - b + 1
  PROVE  SubSeq(SubSeq(q, b, n), i, j) = SubSeq(q, b + i - 1, b + j - 1)
<1> DEFINE w == SubSeq(q, b, n)
           x == SubSeq(w, i, j)
           c == b + i - 1
           d == b + j - 1
           y == SubSeq(q, c, d)
<1>1. Len(q) \in Nat
  BY DEF Text
<1>2. w \in Text /\ Len(w) = n - b + 1 /\ \A k \in 1 .. n - b + 1 : w[k] = q[b + k - 1]
  BY Slice
<1> HIDE DEF w
<1>3. i \in 1 .. Len(w) + 1 /\ j \in i - 1 .. Len(w)
  BY <1>1, <1>2
<1>4. x \in Text /\ Len(x) = j - i + 1 /\ \A k \in 1 .. j - i + 1 : x[k] = w[i + k - 1]
  BY <1>2, <1>3, Slice
<1>5. c \in 1 .. Len(q) + 1 /\ d \in c - 1 .. Len(q)
  BY <1>1
<1> HIDE DEF x, c, d
<1>6. y \in Text /\ Len(y) = d - c + 1 /\ \A k \in 1 .. d - c + 1 : y[k] = q[c + k - 1]
  BY <1>5, Slice
<1> HIDE DEF y
<1>7. d - c + 1 = j - i + 1
  BY <1>1 DEF c, d
<1>8. \A k \in 1 .. j - i + 1 : x[k] = y[k]
  <2> SUFFICES ASSUME NEW k \in 1 .. j - i + 1 PROVE x[k] = y[k]
    OBVIOUS
  <2>1. i + k - 1 \in 1 .. n - b + 1 /\ b + (i + k - 1) - 1 = c + k - 1
    BY <1>1 DEF c
  <2>2. x[k] = w[i + k - 1] /\ w[i + k - 1] = q[b + (i + k - 1) - 1]
    BY <1>2, <1>4, <2>1
  <2>3. y[k] = q[c + k - 1]
    BY <1>6, <1>7
  <2> QED BY <2>1, <2>2, <2>3
<1>9. x = y
  BY <1>4, <1>6, <1>7, <1>8, SeqEqual DEF Text
<1> QED BY <1>9 DEF x, y, w, c, d

LEMMA SliceGrows ==
  ASSUME NEW q \in Text, NEW b \in 1 .. Len(q), NEW n \in b .. Len(q)
  PROVE  SubSeq(q, b, n) = Append(SubSeq(q, b, n - 1), q[n])
<1>1. Len(q) \in Nat /\ n - 1 \in b - 1 .. Len(q) /\ b \in 1 .. Len(q) + 1 /\ n \in 1 .. Len(q)
  BY DEF Text
<1>2. SubSeq(q, b, n) = SubSeq(q, b, n - 1) \o <<q[n]>>
  BY <1>1, SubSeqRecursiveSecond DEF Text
<1>3. SubSeq(q, b, n - 1) \in Text
  BY <1>1, Slice
<1>4. q[n] \in Symbol
  BY <1>1 DEF Text
<1> QED BY <1>2, <1>3, <1>4, AppendIsConcat DEF Text

LEMMA KeyLengthIs ==
  ASSUME NEW w \in Text, NEW n \in 0 .. Len(w), n = Len(w) \/ w[n + 1] = "=",
         \A i \in 1 .. n : w[i] # "="
  PROVE  KeyLength(w) = n
<1> DEFINE Ends(m) == (m = Len(w) \/ w[m + 1] = "=") /\ \A i \in 1 .. m : w[i] # "="
           c == CHOOSE m \in 0 .. Len(w) : Ends(m)
<1>1. Len(w) \in Nat
  BY DEF Text
<1>2. c \in 0 .. Len(w) /\ Ends(c)
  <2>1. Ends(n)
    OBVIOUS
  <2> HIDE DEF Ends
  <2> QED BY <2>1
<1>3. c = n
  <2> HIDE DEF c
  <2>1. ~ (c < n)
    BY <1>1, <1>2
  <2>2. ~ (n < c)
    BY <1>1, <1>2
  <2> QED BY <1>1, <1>2, <2>1, <2>2
<1> QED BY <1>3 DEF KeyLength

\* The key and the value of a term without "=", and of one with it.
LEMMA KeyAlone ==
  ASSUME NEW w \in Text, \A i \in 1 .. Len(w) : w[i] # "="
  PROVE  KeyOf(w) = w /\ ValueOf(w) = <<"true">>
<1>1. KeyLength(w) = Len(w)
  <2>1. Len(w) \in 0 .. Len(w)
    BY DEF Text
  <2> QED BY <2>1, KeyLengthIs
<1>2. KeyOf(w) = w
  BY <1>1, SubSeqFull DEF KeyOf, Text
<1> QED BY <1>2 DEF ValueOf

LEMMA KeyAndValue ==
  ASSUME NEW q \in Text, NEW b \in 1 .. Len(q), NEW n \in b .. Len(q), NEW e \in b .. n,
         q[e] = "=", \A i \in b .. e - 1 : q[i] # "="
  PROVE  /\ KeyOf(SubSeq(q, b, n)) = SubSeq(q, b, e - 1)
         /\ ValueOf(SubSeq(q, b, n)) = SubSeq(q, e + 1, n)
<1> DEFINE w == SubSeq(q, b, n)
           k == e - b
<1>1. Len(q) \in Nat /\ b \in 1 .. Len(q) + 1 /\ n \in b - 1 .. Len(q)
  BY DEF Text
<1>2. w \in Text /\ Len(w) = n - b + 1 /\ \A i \in 1 .. n - b + 1 : w[i] = q[b + i - 1]
  BY <1>1, Slice
<1>3. k \in 0 .. n - b /\ b + (k + 1) - 1 = e /\ \A i \in 1 .. k : b + i - 1 \in b .. e - 1
  BY <1>1
<1>4. KeyLength(w) = k
  <2> HIDE DEF w, k
  <2>1. w[k + 1] = "="
    BY <1>1, <1>2, <1>3
  <2>2. ASSUME NEW i \in 1 .. k PROVE w[i] # "="
    <3>1. i \in 1 .. n - b + 1 /\ b + i - 1 \in b .. e - 1
      BY <1>1, <1>3
    <3> QED BY <1>2, <3>1
  <2>3. k \in 0 .. Len(w)
    BY <1>1, <1>2, <1>3
  <2> QED BY <1>2, <2>1, <2>2, <2>3, KeyLengthIs
<1>5. KeyOf(w) = SubSeq(q, b, e - 1)
  <2>1. 1 \in 1 .. n - b + 2 /\ k \in 1 - 1 .. n - b + 1 /\ b + 1 - 1 = b /\ b + k - 1 = e - 1
    BY <1>1, <1>3
  <2>2. SubSeq(w, 1, k) = SubSeq(q, b + 1 - 1, b + k - 1)
    <3> HIDE DEF k
    <3> QED BY <1>1, <2>1, SliceOfSlice
  <2> HIDE DEF w, k
  <2> QED BY <1>4, <2>1, <2>2 DEF KeyOf
<1>6. KeyOf(w) # w
  <2>1. Len(SubSeq(q, b, e - 1)) = e - b
    <3>1. e - 1 \in b - 1 .. Len(q) /\ (e - 1) - b + 1 = e - b
      BY <1>1
    <3> QED BY <1>1, <3>1, Slice
  <2>2. Len(w) # e - b
    <3> HIDE DEF w
    <3> QED BY <1>1, <1>2
  <2> QED BY <1>5, <2>1, <2>2
<1>7. From(w, KeyLength(w) + 2) = SubSeq(q, e + 1, n)
  <2> DEFINE i == k + 2
             j == n - b + 1
  <2>1. i \in 1 .. n - b + 2 /\ j \in i - 1 .. n - b + 1 /\ b + i - 1 = e + 1 /\ b + j - 1 = n
    BY <1>1, <1>3
  <2> HIDE DEF i, j
  <2>2. SubSeq(w, i, j) = SubSeq(q, b + i - 1, b + j - 1)
    BY <1>1, <2>1, SliceOfSlice
  <2> HIDE DEF w, k
  <2> QED BY <1>2, <1>4, <2>1, <2>2 DEF From, i, j
<1> QED BY <1>5, <1>6, <1>7 DEF ValueOf

\* The states of the loop over a query, which starts with none of it.
Values == Text \cup {<<"true">>}
ParameterMaps == UNION {[D -> Values] : D \in SUBSET Text}
Scans == [parameters : ParameterMaps, key : Text, val : Text, parsing_key : BOOLEAN]
NoScan == [parameters |-> <<>>, key |-> <<>>, val |-> <<>>, parsing_key |-> TRUE]

LEMMA InsertedParameter ==
  ASSUME NEW map \in ParameterMaps, NEW k \in Text, NEW v \in Values
  PROVE  Insert(map, k, v) \in ParameterMaps
<1>1. PICK D \in SUBSET Text : map \in [D -> Values]
  BY DEF ParameterMaps
<1> DEFINE E == D \cup {k}
<1>2. E \in SUBSET Text /\ Insert(map, k, v) \in [E -> Values]
  BY <1>1 DEF Insert
<1> HIDE DEF E
<1> QED BY <1>2 DEF ParameterMaps

LEMMA ScanType ==
  ASSUME NEW p \in Scans, NEW c \in Symbol
  PROVE  Scan(p, c) \in Scans
<1>1. /\ p = [parameters |-> p.parameters, key |-> p.key, val |-> p.val,
              parsing_key |-> p.parsing_key]
      /\ p.parameters \in ParameterMaps /\ p.key \in Text /\ p.val \in Text
      /\ p.parsing_key \in BOOLEAN
  BY DEF Scans
<1>2. Append(p.key, c) \in Text /\ Append(p.val, c) \in Text /\ <<>> \in Text
  BY <1>1, AppendProperties DEF Text
<1>3. /\ Insert(p.parameters, p.key, <<"true">>) \in ParameterMaps
      /\ Insert(p.parameters, p.key, p.val) \in ParameterMaps
  BY <1>1, InsertedParameter DEF Values
<1>4. CASE p.parsing_key /\ c = "="
  BY <1>1, <1>4 DEF Scan, Scans
<1>5. CASE p.parsing_key /\ c = "&"
  BY <1>1, <1>2, <1>3, <1>5 DEF Scan, Scans
<1>6. CASE p.parsing_key /\ c \notin {"=", "&"}
  BY <1>1, <1>2, <1>6 DEF Scan, Scans
<1>7. CASE ~p.parsing_key /\ c = "&"
  <2>1. Scan(p, c) = [parameters |-> Insert(p.parameters, p.key, p.val),
                      key |-> <<>>, val |-> <<>>, parsing_key |-> TRUE]
    BY <1>7 DEF Scan
  <2> QED BY <1>2, <1>3, <2>1 DEF Scans
<1>8. CASE ~p.parsing_key /\ c # "&"
  BY <1>1, <1>2, <1>8 DEF Scan, Scans
<1> QED BY <1>1, <1>4, <1>5, <1>6, <1>7, <1>8

\* The loop as a chain of scans.
LEMMA Scanning ==
  ASSUME NEW s \in Text, Separators(s) # {}
  PROVE  LET q == From(s, Separator(s) + 1)
         IN  /\ q \in Text
             /\ \E after \in [0 .. Len(q) -> Scans] :
                  /\ after[0] = NoScan
                  /\ \A n \in 1 .. Len(q) : after[n] = Scan(after[n - 1], q[n])
                  /\ ParseParameters(s) =
                       LET p == after[Len(q)]
                       IN  IF p.key = <<>> THEN p.parameters
                           ELSE Insert(p.parameters, p.key,
                                       IF p.val = <<>> THEN <<"true">> ELSE p.val)
<1> DEFINE q == From(s, Separator(s) + 1)
           N == Len(q)
           next == [i \in 1 .. N |-> [v \in Scans |-> Scan(v, q[i])]]
           Loop(f) == f = [n \in 0 .. N |-> IF n = 0 THEN NoScan ELSE Scan(f[n - 1], q[n])]
           after == CHOOSE f : Loop(f)
           Ends(p) == IF p.key = <<>> THEN p.parameters
                      ELSE Insert(p.parameters, p.key, IF p.val = <<>> THEN <<"true">> ELSE p.val)
<1>1. q \in Text
  <2>1. Separator(s) \in Nat
    BY SeparatorIs DEF Text
  <2> QED BY <2>1, FromIsText
<1>2. ParseParameters(s) = Ends(after[N])
  BY DEF ParseParameters, NoScan
<1> HIDE DEF q
<1>3. N \in Nat /\ \A i \in 1 .. N : q[i] \in Symbol
  BY <1>1 DEF Text
<1>4. NoScan \in Scans
  <2>1. <<>> \in Text /\ {} \in SUBSET Text
    BY DEF Text
  <2>2. <<>> \in ParameterMaps
    <3>1. <<>> \in [{} -> Values]
      OBVIOUS
    <3> QED BY <2>1, <3>1 DEF ParameterMaps
  <2> QED BY <2>1, <2>2 DEF NoScan, Scans
<1>5. next \in [1 .. N -> [Scans -> Scans]]
  BY <1>3, ScanType
<1>6. PICK f \in [0 .. N -> Scans] : Chain(f, N, NoScan, next)
  <2> HIDE DEF N, next
  <2> QED BY <1>3, <1>4, <1>5, Recursion
<1>7. f[0] = NoScan /\ \A n \in 1 .. N : f[n] = Scan(f[n - 1], q[n])
  <2>1. ASSUME NEW n \in 1 .. N PROVE f[n] = Scan(f[n - 1], q[n])
    <3> HIDE DEF N
    <3>1. f[n - 1] \in Scans
      BY <1>3
    <3>2. f[n] = next[n][f[n - 1]]
      <4> HIDE DEF next
      <4> QED BY <1>6 DEF Chain
    <3>3. next[n][f[n - 1]] = Scan(f[n - 1], q[n])
      BY <3>1
    <3> QED BY <3>2, <3>3
  <2> HIDE DEF next
  <2> QED BY <1>6, <2>1 DEF Chain
<1>8. Loop(f)
  <2> HIDE DEF N
  <2> QED BY <1>3, <1>7
<1>9. Loop(after)
  <2> HIDE DEF Loop
  <2> QED BY <1>8
<1> HIDE DEF after
<1>10. after[0] = NoScan /\ \A n \in 1 .. N : after[n] = Scan(after[n - 1], q[n])
  <2> HIDE DEF N
  <2>1. \A n \in 0 .. N : after[n] = IF n = 0 THEN NoScan ELSE Scan(after[n - 1], q[n])
    BY <1>9
  <2> QED BY <1>3, <2>1
<1>11. after = [n \in 0 .. N |-> after[n]]
  <2> HIDE DEF N
  <2> QED BY <1>9
<1> DEFINE T == {n \in Nat : n <= N => after[n] \in Scans}
<1>12. \A n \in Nat : n \in T
  <2> HIDE DEF N
  <2>1. 0 \in T
    BY <1>4, <1>10
  <2>2. ASSUME NEW n \in Nat \ {0}, n - 1 \in T PROVE n \in T
    BY <1>3, <1>10, <2>2, ScanType
  <2> HIDE DEF T
  <2> QED BY <2>1, <2>2, SetInduction
<1>13. after \in [0 .. N -> Scans]
  <2> HIDE DEF N
  <2>1. \A n \in 0 .. N : after[n] \in Scans
    BY <1>3, <1>12
  <2> QED BY <1>11, <2>1
<1> QED BY <1>1, <1>2, <1>10, <1>13 DEF q

\* A term starts at b, and goes on at n.
Starts(q, b, n) == b \in 1 .. n + 1 /\ (b = 1 \/ q[b - 1] = "&") /\ \A i \in b .. n : q[i] # "&"

\* The parameters are those of the terms before b.
Before(q, b) == {t \in Terms(q) : t[1] < b}
FirstOfKey(q, t) == \A u \in Terms(q) : KeyOf(Term(q, u)) = KeyOf(Term(q, t)) => t[1] <= u[1]
Known(q, b, map) ==
  /\ DOMAIN map = {KeyOf(Term(q, t)) : t \in Before(q, b)}
  /\ \A t \in Before(q, b) :
       FirstOfKey(q, t) => map[KeyOf(Term(q, t))] = ValueOf(Term(q, t))

LEMMA TermIs ==
  ASSUME NEW q \in Text, NEW t \in Terms(q)
  PROVE  /\ t = <<t[1], t[2]>> /\ t[1] \in 1 .. Len(q) /\ t[2] \in 0 .. Len(q)
         /\ t[1] <= t[2] + 1 /\ (t[1] = 1 \/ q[t[1] - 1] = "&")
         /\ (t[2] = Len(q) \/ q[t[2] + 1] = "&") /\ \A i \in t[1] .. t[2] : q[i] # "&"
  BY DEF Terms

LEMMA TermsDiffer ==
  ASSUME NEW q \in Text, NEW t \in Terms(q), NEW u \in Terms(q), t[1] = u[1]
  PROVE  t = u
<1>1. Len(q) \in Nat
  BY DEF Text
<1>2. ~ (t[2] < u[2])
  BY <1>1, TermIs
<1>3. ~ (u[2] < t[2])
  BY <1>1, TermIs
<1>4. t[2] = u[2]
  BY <1>1, <1>2, <1>3, TermIs
<1> QED BY <1>4, TermIs

\* A term that ends at n becomes known.
LEMMA KnownInsert ==
  ASSUME NEW q \in Text, NEW b \in 1 .. Len(q), NEW n \in b - 1 .. Len(q), Starts(q, b, n),
         n = Len(q) \/ q[n + 1] = "&", NEW map, Known(q, b, map)
  PROVE  LET w == SubSeq(q, b, n)
         IN  /\ <<b, n>> \in Terms(q) /\ Term(q, <<b, n>>) = w
             /\ Known(q, n + 2, Insert(map, KeyOf(w), ValueOf(w)))
<1> DEFINE t0 == <<b, n>>
           w == SubSeq(q, b, n)
           more == Insert(map, KeyOf(w), ValueOf(w))
<1>1. Len(q) \in Nat /\ b \in Nat /\ n \in Nat
  BY DEF Text
<1>2. t0 \in Terms(q)
  <2>1. t0 \in (1 .. Len(q)) \X (0 .. Len(q)) /\ t0[1] = b /\ t0[2] = n /\ b <= n + 1
    BY <1>1
  <2> HIDE DEF t0
  <2> QED BY <2>1 DEF Terms, Starts
<1>3. Term(q, t0) = w /\ t0[1] = b
  BY DEF Term
<1>4. Before(q, n + 2) = Before(q, b) \cup {t0}
  <2>1. ASSUME NEW u \in Terms(q), u[1] < n + 2, ~ (u[1] < b) PROVE u = t0
    <3>1. u[1] \in 1 .. Len(q) /\ (u[1] = 1 \/ q[u[1] - 1] = "&")
      BY TermIs
    <3>2. u[1] = b
      <4> SUFFICES ASSUME u[1] # b PROVE FALSE
        OBVIOUS
      <4>1. u[1] - 1 \in b .. n /\ u[1] # 1
        BY <1>1, <2>1, <3>1
      <4> QED BY <3>1, <4>1 DEF Starts
    <3> HIDE DEF t0
    <3> QED BY <1>2, <1>3, <3>2, TermsDiffer
  <2>2. t0[1] < n + 2
    BY <1>1
  <2>3. \A u \in Terms(q) : u[1] < b => u[1] < n + 2
    BY <1>1, TermIs
  <2> HIDE DEF t0
  <2> QED BY <1>2, <2>1, <2>2, <2>3 DEF Before
<1> HIDE DEF t0, w
<1>5. /\ DOMAIN more = DOMAIN map \cup {KeyOf(w)}
      /\ \A k \in DOMAIN map : more[k] = map[k]
      /\ KeyOf(w) \notin DOMAIN map => more[KeyOf(w)] = ValueOf(w)
  BY DEF Insert
<1> HIDE DEF more
<1>6. DOMAIN more = {KeyOf(Term(q, t)) : t \in Before(q, n + 2)}
  BY <1>3, <1>4, <1>5 DEF Known
<1>7. ASSUME NEW t \in Before(q, n + 2), FirstOfKey(q, t)
      PROVE  more[KeyOf(Term(q, t))] = ValueOf(Term(q, t))
  <2>1. CASE t \in Before(q, b)
    BY <1>5, <1>7, <2>1 DEF Known
  <2>2. CASE t \notin Before(q, b)
    <3>1. t = t0
      BY <1>4, <2>2
    <3>2. KeyOf(w) \notin DOMAIN map
      <4> SUFFICES ASSUME NEW u \in Before(q, b), KeyOf(Term(q, u)) = KeyOf(w) PROVE FALSE
        BY DEF Known
      <4>1. u \in Terms(q) /\ u[1] < b
        BY DEF Before
      <4>2. b <= u[1]
        BY <1>3, <1>7, <3>1, <4>1 DEF FirstOfKey
      <4> QED BY <1>1, <4>1, <4>2, TermIs
    <3> QED BY <1>3, <1>5, <3>1, <3>2
  <2> QED BY <2>1, <2>2
<1> QED BY <1>2, <1>3, <1>6, <1>7 DEF Known, t0, w, more

\* What the loop has read of a query before it goes on after n, in the term
\* that starts at b.
Reading(q, n, b, p) ==
  /\ Starts(q, b, n) /\ Known(q, b, p.parameters)
  /\ p.parsing_key =>
       (\A i \in b .. n : q[i] # "=") /\ p.key = SubSeq(q, b, n) /\ p.val = <<>>
  /\ ~p.parsing_key =>
       \E e \in b .. n : /\ q[e] = "=" /\ \A i \in b .. e - 1 : q[i] # "="
                         /\ p.key = SubSeq(q, b, e - 1) /\ p.val = SubSeq(q, e + 1, n)

WellFormed(q) == \A t \in Terms(q) : KeyOf(Term(q, t)) # <<>> /\ ValueOf(Term(q, t)) # <<>>

\* What is read when a term ends at n.
LEMMA TermRead ==
  ASSUME NEW q \in Text, WellFormed(q), NEW b \in 1 .. Len(q), NEW n \in b - 1 .. Len(q),
         n = Len(q) \/ q[n + 1] = "&", NEW p, Reading(q, n, b, p)
  PROVE  /\ p.key # <<>>
         /\ p.parsing_key => Known(q, n + 2, Insert(p.parameters, p.key, <<"true">>))
         /\ ~p.parsing_key => p.val # <<>> /\ Known(q, n + 2, Insert(p.parameters, p.key, p.val))
<1> DEFINE w == SubSeq(q, b, n)
<1>1. Len(q) \in Nat /\ b \in 1 .. Len(q) + 1
  BY DEF Text
<1>2. /\ KeyOf(w) # <<>> /\ ValueOf(w) # <<>>
      /\ Known(q, n + 2, Insert(p.parameters, KeyOf(w), ValueOf(w)))
  BY KnownInsert DEF Reading, WellFormed
<1>3. CASE p.parsing_key
  <2>1. p.key = w /\ \A i \in b .. n : q[i] # "="
    BY <1>3 DEF Reading
  <2>2. w \in Text /\ Len(w) = n - b + 1 /\ \A i \in 1 .. n - b + 1 : w[i] = q[b + i - 1]
    BY <1>1, Slice
  <2> HIDE DEF w
  <2>3. ASSUME NEW i \in 1 .. Len(w) PROVE w[i] # "="
    <3>1. i \in 1 .. n - b + 1 /\ b + i - 1 \in b .. n
      BY <1>1, <2>2
    <3> QED BY <2>1, <2>2, <3>1
  <2>4. KeyOf(w) = w /\ ValueOf(w) = <<"true">>
    BY <2>2, <2>3, KeyAlone
  <2> QED BY <1>2, <1>3, <2>1, <2>4
<1>4. CASE ~p.parsing_key
  <2>1. PICK e \in b .. n : /\ q[e] = "=" /\ \A i \in b .. e - 1 : q[i] # "="
                            /\ p.key = SubSeq(q, b, e - 1) /\ p.val = SubSeq(q, e + 1, n)
    BY <1>4 DEF Reading
  <2>2. n \in b .. Len(q)
    BY <1>1, <2>1
  <2>3. KeyOf(w) = p.key /\ ValueOf(w) = p.val
    BY <2>1, <2>2, KeyAndValue
  <2> HIDE DEF w
  <2> QED BY <1>2, <1>4, <2>3
<1> QED BY <1>3, <1>4

\* The loop goes on reading.
LEMMA ScanReads ==
  ASSUME NEW q \in Text, WellFormed(q), NEW n \in 1 .. Len(q), NEW p \in Scans, NEW b,
         Reading(q, n - 1, b, p)
  PROVE  \E c : Reading(q, n, c, Scan(p, q[n]))
<1> DEFINE r == Scan(p, q[n])
           k == n - 1
<1>1. Len(q) \in Nat /\ n \in Nat
  BY DEF Text
<1>2. /\ Starts(q, b, k) /\ Known(q, b, p.parameters)
      /\ p.parsing_key => (\A i \in b .. k : q[i] # "=") /\ p.key = SubSeq(q, b, k) /\ p.val = <<>>
  BY DEF Reading
<1>3. /\ b \in 1 .. Len(q) /\ b \in 1 .. Len(q) + 1 /\ b \in 1 .. n /\ k \in b - 1 .. Len(q)
      /\ n \in b .. Len(q) /\ k + 1 = n /\ k + 2 = n + 1
  BY <1>1, <1>2 DEF Starts
<1>4. p = [parameters |-> p.parameters, key |-> p.key, val |-> p.val,
           parsing_key |-> p.parsing_key] /\ p.parsing_key \in BOOLEAN
  BY DEF Scans
<1>5. q[n] # "&" => Starts(q, b, n)
  BY <1>1, <1>2, <1>3 DEF Starts
<1>6. q[n] = "&" => Starts(q, n + 1, n)
  BY <1>1 DEF Starts
<1>7. SubSeq(q, n + 1, n) = <<>>
  BY <1>1, SubSeqEmpty
<1>8. q[n] = "&" =>
        /\ p.key # <<>>
        /\ p.parsing_key => Known(q, n + 1, Insert(p.parameters, p.key, <<"true">>))
        /\ ~p.parsing_key => Known(q, n + 1, Insert(p.parameters, p.key, p.val))
  <2> HIDE DEF k
  <2> QED BY <1>3, TermRead DEF k
<1> HIDE DEF r, k
<1>9. CASE p.parsing_key /\ q[n] = "="
  <2>1. r = [parameters |-> p.parameters, key |-> p.key, val |-> p.val, parsing_key |-> FALSE]
    <3>1. r = [p EXCEPT !.parsing_key = FALSE]
      BY <1>9 DEF Scan, r
    <3> QED BY <1>4, <3>1
  <2>2. n \in b .. n /\ \A i \in b .. n - 1 : q[i] # "="
    BY <1>1, <1>2, <1>3, <1>9 DEF k
  <2>3. r.key = SubSeq(q, b, n - 1) /\ r.val = SubSeq(q, n + 1, n)
    BY <1>2, <1>7, <1>9, <2>1 DEF k
  <2>4. ~r.parsing_key /\ r.parameters = p.parameters
    BY <2>1
  <2>5. Reading(q, n, b, r)
    BY <1>2, <1>5, <1>9, <2>2, <2>3, <2>4 DEF Reading
  <2> QED BY <2>5 DEF r
<1>10. CASE p.parsing_key /\ q[n] = "&"
  <2>1. r = [parameters |-> Insert(p.parameters, p.key, <<"true">>), key |-> <<>>,
             val |-> p.val, parsing_key |-> p.parsing_key]
    <3>1. r = [p EXCEPT !.parameters = Insert(p.parameters, p.key, <<"true">>), !.key = <<>>]
      BY <1>4, <1>8, <1>10 DEF Scan, r
    <3> QED BY <1>4, <3>1
  <2>2. r.parsing_key /\ r.key = SubSeq(q, n + 1, n) /\ r.val = <<>>
    BY <1>2, <1>7, <1>10, <2>1
  <2>3. Known(q, n + 1, r.parameters)
    BY <1>8, <1>10, <2>1
  <2>4. \A i \in n + 1 .. n : q[i] # "="
    BY <1>1
  <2>5. Reading(q, n, n + 1, r)
    BY <1>6, <1>10, <2>2, <2>3, <2>4 DEF Reading
  <2> QED BY <2>5 DEF r
<1>11. CASE p.parsing_key /\ q[n] \notin {"=", "&"}
  <2>1. r = [parameters |-> p.parameters, key |-> Append(p.key, q[n]), val |-> p.val,
             parsing_key |-> p.parsing_key]
    <3>1. r = [p EXCEPT !.key = Append(@, q[n])]
      BY <1>11 DEF Scan, r
    <3> QED BY <1>4, <3>1
  <2>2. Append(p.key, q[n]) = SubSeq(q, b, n)
    BY <1>2, <1>3, <1>11, SliceGrows DEF k
  <2>3. \A i \in b .. n : q[i] # "="
    BY <1>1, <1>2, <1>3, <1>11 DEF k
  <2>4. r.parsing_key /\ r.key = SubSeq(q, b, n) /\ r.val = <<>> /\ r.parameters = p.parameters
    BY <1>2, <1>11, <2>1, <2>2
  <2>5. Reading(q, n, b, r)
    BY <1>2, <1>5, <1>11, <2>3, <2>4 DEF Reading
  <2> QED BY <2>5 DEF r
<1>12. CASE ~p.parsing_key /\ q[n] = "&"
  <2>1. r = [parameters |-> Insert(p.parameters, p.key, p.val), key |-> <<>>, val |-> <<>>,
             parsing_key |-> TRUE]
    BY <1>12 DEF Scan, r
  <2>2. r.parsing_key /\ r.key = SubSeq(q, n + 1, n) /\ r.val = <<>>
    BY <1>7, <2>1
  <2>3. Known(q, n + 1, r.parameters)
    BY <1>8, <1>12, <2>1
  <2>4. \A i \in n + 1 .. n : q[i] # "="
    BY <1>1
  <2>5. Reading(q, n, n + 1, r)
    BY <1>6, <1>12, <2>2, <2>3, <2>4 DEF Reading
  <2> QED BY <2>5 DEF r
<1>13. CASE ~p.parsing_key /\ q[n] # "&"
  <2>1. r = [parameters |-> p.parameters, key |-> p.key, val |-> Append(p.val, q[n]),
             parsing_key |-> p.parsing_key]
    <3>1. r = [p EXCEPT !.val = Append(@, q[n])]
      BY <1>13 DEF Scan, r
    <3> QED BY <1>4, <3>1
  <2>2. PICK e \in b .. k : /\ q[e] = "=" /\ \A i \in b .. e - 1 : q[i] # "="
                            /\ p.key = SubSeq(q, b, e - 1) /\ p.val = SubSeq(q, e + 1, k)
    BY <1>13 DEF Reading, k
  <2>3. e \in b .. n /\ e + 1 \in 1 .. Len(q) /\ n \in e + 1 .. Len(q)
    BY <1>1, <1>3, <2>2
  <2>4. Append(p.val, q[n]) = SubSeq(q, e + 1, n)
    BY <2>2, <2>3, SliceGrows DEF k
  <2>5. ~r.parsing_key /\ r.key = SubSeq(q, b, e - 1) /\ r.val = SubSeq(q, e + 1, n)
        /\ r.parameters = p.parameters
    BY <1>13, <2>1, <2>2, <2>4
  <2>6. Reading(q, n, b, r)
    BY <1>2, <1>5, <1>13, <2>2, <2>3, <2>5 DEF Reading
  <2> QED BY <2>6 DEF r
<1> QED BY <1>4, <1>9, <1>10, <1>11, <1>12, <1>13

\* A query that is well formed is parsed to what it means.
LEMMA ParsedAsMeant ==
  ASSUME NEW s \in Text, Separators(s) # {}, WellFormed(From(s, Separator(s) + 1))
  PROVE  LET q == From(s, Separator(s) + 1)
             map == ParseParameters(s)
         IN  /\ DOMAIN map = {KeyOf(Term(q, t)) : t \in Terms(q)}
             /\ \A t \in Terms(q) :
                  FirstOfKey(q, t) => map[KeyOf(Term(q, t))] = ValueOf(Term(q, t))
<1> DEFINE q == From(s, Separator(s) + 1)
           N == Len(q)
           Ended(p) == IF p.key = <<>> THEN p.parameters
                       ELSE Insert(p.parameters, p.key, IF p.val = <<>> THEN <<"true">> ELSE p.val)
           map == ParseParameters(s)
<1>1. q \in Text /\ WellFormed(q)
  BY Scanning
<1>2. PICK after \in [0 .. N -> Scans] :
        /\ after[0] = NoScan
        /\ \A n \in 1 .. N : after[n] = Scan(after[n - 1], q[n])
        /\ map = Ended(after[N])
  BY Scanning
<1> HIDE DEF q, map
<1>3. N \in Nat
  BY <1>1 DEF Text
<1> DEFINE T == {n \in Nat : n <= N => \E b : Reading(q, n, b, after[n])}
<1>4. 0 \in T
  <2>1. NoScan.parsing_key /\ NoScan.key = <<>> /\ NoScan.val = <<>> /\ NoScan.parameters = <<>>
    BY DEF NoScan
  <2>2. SubSeq(q, 1, 0) = <<>>
    BY SubSeqEmpty
  <2>3. Starts(q, 1, 0) /\ \A i \in 1 .. 0 : q[i] # "="
    BY DEF Starts
  <2>4. Before(q, 1) = {} /\ DOMAIN NoScan.parameters = {}
    BY <1>1, <1>3, <2>1, TermIs DEF Before
  <2>5. Known(q, 1, NoScan.parameters)
    BY <2>4 DEF Known
  <2>6. Reading(q, 0, 1, NoScan)
    BY <2>1, <2>2, <2>3, <2>5 DEF Reading
  <2> QED BY <1>2, <2>6
<1>5. ASSUME NEW n \in Nat \ {0}, n - 1 \in T PROVE n \in T
  <2> SUFFICES ASSUME n <= N PROVE \E b : Reading(q, n, b, after[n])
    OBVIOUS
  <2> HIDE DEF N
  <2>1. n \in 1 .. N /\ n - 1 \in 0 .. N
    BY <1>3
  <2>2. PICK b : Reading(q, n - 1, b, after[n - 1])
    BY <1>3, <1>5, <2>1
  <2>3. after[n - 1] \in Scans /\ after[n] = Scan(after[n - 1], q[n])
    BY <1>2, <2>1
  <2> QED BY <1>1, <2>1, <2>2, <2>3, ScanReads DEF N
<1>6. N \in T
  <2> HIDE DEF T, N
  <2> QED BY <1>3, <1>4, <1>5, SetInduction
<1> DEFINE p == after[N]
<1>7. PICK b : Reading(q, N, b, p)
  BY <1>3, <1>6
<1>8. p \in Scans
  BY <1>3
<1> HIDE DEF p
<1>9. b \in 1 .. N + 1
  BY <1>7 DEF Reading, Starts
<1>10. map = Ended(p)
  BY <1>2 DEF p
<1>11. ASSUME NEW c, c > N, c \in Nat, Known(q, c, map)
       PROVE  /\ DOMAIN map = {KeyOf(Term(q, t)) : t \in Terms(q)}
              /\ \A t \in Terms(q) :
                   FirstOfKey(q, t) => map[KeyOf(Term(q, t))] = ValueOf(Term(q, t))
  <2>1. Before(q, c) = Terms(q)
    BY <1>1, <1>3, <1>11, TermIs DEF Before
  <2> QED BY <1>11, <2>1 DEF Known
<1>12. CASE b = N + 1
  <2>1. p.parsing_key
    BY <1>3, <1>7, <1>12 DEF Reading
  <2>2. p.key = <<>>
    <3>1. p.key = SubSeq(q, b, N)
      BY <1>7, <2>1 DEF Reading
    <3>2. b \in Int /\ N \in Int /\ N < b
      BY <1>3, <1>12
    <3> HIDE DEF N
    <3>3. SubSeq(q, b, N) = <<>>
      BY <3>2, SubSeqEmpty
    <3> QED BY <3>1, <3>3
  <2>3. Known(q, N + 1, map)
    BY <1>7, <1>10, <1>12, <2>2 DEF Reading
  <2>4. N + 1 > N /\ N + 1 \in Nat
    BY <1>3
  <2> QED BY <1>11, <2>3, <2>4 DEF q, map
<1>13. CASE b # N + 1
  <2>1. b \in 1 .. N /\ N \in b - 1 .. N
    BY <1>3, <1>9, <1>13
  <2>2. /\ p.key # <<>>
        /\ p.parsing_key => Known(q, N + 2, Insert(p.parameters, p.key, <<"true">>))
        /\ ~p.parsing_key => p.val # <<>> /\ Known(q, N + 2, Insert(p.parameters, p.key, p.val))
    BY <1>1, <1>7, <2>1, TermRead
  <2>3. p.parsing_key => p.val = <<>>
    BY <1>7 DEF Reading
  <2>4. Known(q, N + 2, map)
    BY <1>10, <2>2, <2>3
  <2>5. N + 2 > N /\ N + 2 \in Nat
    BY <1>3
  <2> QED BY <1>11, <2>4, <2>5 DEF q, map
<1> QED BY <1>12, <1>13

\* Cutting off a route that a URI starts with leaves its query.
LEMMA QueryAfterRoute ==
  ASSUME NEW uri \in Text, NEW route \in Text, Separators(uri) # {},
         IsPrefixOf(route, WithoutParameters(uri))
  PROVE  LET s == From(uri, Len(route) + 1)
         IN  /\ s \in Text /\ Separators(s) # {}
             /\ From(s, Separator(s) + 1) = From(uri, Separator(uri) + 1)
<1> DEFINE L == Len(route)
           s == From(uri, L + 1)
           k == Separator(uri)
           j == Separator(s)
           N == Len(uri)
<1>1. N \in Nat /\ L \in Nat
  BY DEF Text
<1>2. k \in 1 .. N /\ uri[k] = "?" /\ \A i \in 1 .. k - 1 : uri[i] # "?"
  BY SeparatorIs
<1>3. L <= k - 1
  <2>1. WithoutParameters(uri) = SubSeq(uri, 1, k - 1)
    BY DEF WithoutParameters
  <2>2. k - 1 \in 0 .. N
    BY <1>1, <1>2
  <2> HIDE DEF k
  <2>3. Len(SubSeq(uri, 1, k - 1)) = k - 1
    BY <2>2, Beginning
  <2> QED BY <2>1, <2>3 DEF IsPrefixOf
<1>4. s \in Text /\ Len(s) = N - L /\ \A i \in 1 .. N - L : s[i] = uri[L + i]
  <2> DEFINE b == L + 1
  <2>1. b \in 1 .. N + 1 /\ N \in b - 1 .. N
    BY <1>1, <1>2, <1>3
  <2> HIDE DEF b
  <2>2. /\ SubSeq(uri, b, N) \in Text /\ Len(SubSeq(uri, b, N)) = N - b + 1
        /\ \A i \in 1 .. N - b + 1 : SubSeq(uri, b, N)[i] = uri[b + i - 1]
    BY <2>1, Slice
  <2>3. N - b + 1 = N - L
    BY <1>1 DEF b
  <2>4. ASSUME NEW i \in 1 .. N - L PROVE SubSeq(uri, b, N)[i] = uri[L + i]
    <3>1. b + i - 1 = L + i
      BY <1>1 DEF b
    <3>2. i \in 1 .. N - b + 1
      BY <2>3
    <3> QED BY <2>2, <3>1, <3>2
  <2> QED BY <2>2, <2>3, <2>4 DEF From, b
<1> HIDE DEF s, k
<1>5. k - L \in 1 .. N - L /\ s[k - L] = "?"
  <2>1. k - L \in 1 .. N - L /\ L + (k - L) = k
    BY <1>1, <1>2, <1>3
  <2> QED BY <1>2, <1>4, <2>1
<1>6. Separators(s) # {}
  BY <1>4, <1>5 DEF Separators
<1>7. j \in 1 .. N - L /\ s[j] = "?" /\ \A i \in 1 .. j - 1 : s[i] # "?"
  BY <1>4, <1>6, SeparatorIs
<1> HIDE DEF j
<1>8. j = k - L
  <2>1. ~ (j < k - L)
    <3> SUFFICES ASSUME j < k - L PROVE FALSE
      OBVIOUS
    <3>1. L + j \in 1 .. k - 1
      BY <1>1, <1>2, <1>7
    <3>2. s[j] = uri[L + j]
      BY <1>4, <1>7
    <3> QED BY <1>2, <1>7, <3>1, <3>2
  <2>2. ~ (k - L < j)
    <3> SUFFICES ASSUME k - L < j PROVE FALSE
      OBVIOUS
    <3>1. k - L \in 1 .. j - 1
      BY <1>1, <1>2, <1>5, <1>7
    <3> QED BY <1>5, <1>7, <3>1
  <2> QED BY <1>1, <1>2, <1>7, <2>1, <2>2
<1>9. From(s, j + 1) = From(uri, k + 1)
  <2>1. s = SubSeq(uri, L + 1, N)
    BY DEF s, From
  <2> DEFINE b == L + 1
             i == j + 1
             l == N - L
  <2>2. /\ b \in 1 .. N + 1 /\ N \in b - 1 .. N /\ i \in 1 .. N - b + 2 /\ l \in i - 1 .. N - b + 1
        /\ b + i - 1 = k + 1 /\ b + l - 1 = N
    BY <1>1, <1>2, <1>3, <1>7, <1>8
  <2> HIDE DEF b, i, l
  <2>3. SubSeq(SubSeq(uri, b, N), i, l) = SubSeq(uri, b + i - 1, b + l - 1)
    BY <2>2, SliceOfSlice
  <2>4. From(s, i) = SubSeq(s, i, l)
    BY <1>4 DEF From, l
  <2>5. From(uri, k + 1) = SubSeq(uri, k + 1, N)
    BY DEF From
  <2> QED BY <2>1, <2>2, <2>3, <2>4, <2>5 DEF b, i
<1> QED BY <1>4, <1>6, <1>9 DEF s, j, k

LEMMA ParametersStep ==
  ASSUME IInv, NEW uri \in Uri, NEW m \in Method, Serve(uri, m)
  PROVE  ParametersMeant'
<1>1. CASE Matching(uri) = {}
  BY <1>1, UnservedIs DEF ParametersMeant
<1>2. CASE Matching(uri) # {}
  <2>1. PICK path, r, s : Served(uri, m, path, r, s)
    BY <1>2, ServingIs
  <2> DEFINE a == Answers(r, s, m)
             route == LastRoute(r)
             rest == From(uri, Len(route) + 1)
             map == ParseParameters(rest)
             q == From(uri, Separator(uri) + 1)
  <2>2. /\ route \in Text /\ UNCHANGED setupVars
        /\ reply' = [status |-> a.status, uri |-> uri, method |-> m, router |-> r,
                     handler |-> a.handler, variables |-> a.variables, parameters |-> map]
    BY <2>1 DEF Served
  <2> HIDE DEF a, map
  <2>3. reply'.uri = uri /\ reply'.router = r /\ reply'.parameters = map
    BY <2>2
  <2>4. LastRoute(reply.router)' = route
    BY <2>2, <2>3 DEF LastRoute, Given, setupVars
  <2>5. Query' = q
    BY <2>3 DEF Query
  <2>6. uri \in Text
    BY UriAssumption DEF Text
  <2> HIDE DEF q, route
  <2>7. SUFFICES ASSUME IsPrefixOf(route, WithoutParameters(uri)), Separators(uri) # {},
                        WellFormed(q)
                 PROVE  /\ DOMAIN map = {KeyOf(Term(q, t)) : t \in Terms(q)}
                        /\ \A t \in Terms(q) : FirstOfKey(q, t) =>
                             (IF ~(KeyOf(Term(q, t)) \in DOMAIN map) THEN <<>>
                              ELSE map[KeyOf(Term(q, t))]) = ValueOf(Term(q, t))
    BY <2>3, <2>4, <2>5
       DEF ParametersMeant, GetParameter, ExistsParameter, WellFormed, FirstOfKey
  <2>8. rest \in Text /\ Separators(rest) # {} /\ From(rest, Separator(rest) + 1) = q
    BY <2>2, <2>6, <2>7, QueryAfterRoute DEF q
  <2> HIDE DEF rest
  <2>9. /\ DOMAIN map = {KeyOf(Term(q, t)) : t \in Terms(q)}
        /\ \A t \in Terms(q) : FirstOfKey(q, t) => map[KeyOf(Term(q, t))] = ValueOf(Term(q, t))
    BY <2>7, <2>8, ParsedAsMeant DEF map
  <2> QED BY <2>9
<1> QED BY <1>1, <1>2

\* A query is parsed to what it means.
THEOREM ParametersParsed == Spec => []ParametersMeant
<1>1. Init => ParametersMeant
  BY DEF Init, ParametersMeant
<1>2. IInv /\ ParametersMeant /\ [Next]_vars => ParametersMeant'
  <2> SUFFICES ASSUME IInv, ParametersMeant, [Next]_vars PROVE ParametersMeant'
    OBVIOUS
  <2>1. CASE \E uri \in Uri, m \in Method : Serve(uri, m)
    BY <2>1, ParametersStep
  <2>2. CASE ~ \E uri \in Uri, m \in Method : Serve(uri, m)
    <3>1. CASE reply.status = "none" /\ reply' = reply
      BY <3>1 DEF ParametersMeant
    <3>2. CASE UNCHANGED vars
      BY <3>2 DEF vars, setupVars, ParametersMeant, LastRoute, Given, Query, GetParameter,
                  ExistsParameter
    <3> QED BY <2>2, <3>1, <3>2, SetupHasNoReply
  <2> QED BY <2>1, <2>2
<1> QED BY <1>1, <1>2, Invariance, PTL DEF Spec
=============================================================================
