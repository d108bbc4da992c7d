------------------------------ MODULE JsonProofs ------------------------------
(***************************************************************************)
(* Proofs about the JSON library, for any number of objects and arrays,    *)
(* any keys, values and letters and both widths of replace_: what the      *)
(* null_ of an object says of its elements_, which other objects may       *)
(* share; that Parser reads what ToString writes, in step with it from     *)
(* element to element; and that a document without quotes in its keys      *)
(* comes back exactly if it is kept.                                       *)
(***************************************************************************)
EXTENDS JsonDocument, FiniteSetTheorems, SequenceTheorems, TLAPS

\* Two objects hold the same elements_ only after a copy was made of them.
SharingIsKnown ==
  \A x, y \in Object : x # y /\ map[x] = map[y] => map[x] \in shared

\* The inductive invariant of objects and arrays.
IInv == TypeOK /\ SharingIsKnown /\ NullIsEmpty
-----------------------------------------------------------------------------
(* Elements. *)

\* The elements of a new object.
LEMMA NothingType == Nothing \in Elements /\ DOMAIN Nothing = {}
BY DEF Nothing, Elements

\* Elements with one more.
LEMMA PutType ==
  ASSUME NEW m \in Elements, NEW k \in Key, NEW e \in Scalars \cup Reference
  PROVE  [j \in DOMAIN m \cup {k} |-> IF j \in DOMAIN m THEN m[j] ELSE e] \in Elements
<1>1. PICK keys \in SUBSET Key : m \in [keys -> Scalars \cup Reference]
  BY DEF Elements
<1>2. [j \in DOMAIN m \cup {k} |-> IF j \in DOMAIN m THEN m[j] ELSE e]
        \in [keys \cup {k} -> Scalars \cup Reference]
  BY <1>1
<1>3. keys \cup {k} \in SUBSET Key
  OBVIOUS
<1>. QED
  BY <1>2, <1>3, Zenon DEF Elements

\* Elements with one less.
LEMMA DeleteType ==
  ASSUME NEW m \in Elements, NEW k
  PROVE  [j \in DOMAIN m \ {k} |-> m[j]] \in Elements
<1>1. PICK keys \in SUBSET Key : m \in [keys -> Scalars \cup Reference]
  BY DEF Elements
<1>2. [j \in DOMAIN m \ {k} |-> m[j]] \in [keys \ {k} -> Scalars \cup Reference]
  BY <1>1
<1>3. keys \ {k} \in SUBSET Key
  OBVIOUS
<1>. QED
  BY <1>2, <1>3, Zenon DEF Elements
-----------------------------------------------------------------------------
(* Each call keeps the invariant. *)

\* A new element: the object is not null any more; another that shares its
\* elements_ may still say it is.
LEMMA PutValueStep ==
  ASSUME IInv, NEW x \in Object, NEW k \in Key, NEW e \in Scalars \cup Reference,
         PutValueIn(x, k, e)
  PROVE  IInv'
<1> USE DEF IInv, PutValueIn
<1>1. map[x] \in Object /\ elements[map[x]] \in Elements
  BY DEF TypeOK
<1>2. elements' \in [Object -> Elements]
  BY ZenonT(30), <1>1, PutType DEF TypeOK
<1>3. TypeOK'
  BY <1>2 DEF TypeOK
<1>4. SharingIsKnown'
  BY DEF SharingIsKnown
<1>5. ASSUME NEW y \in Object, null'[y], DOMAIN elements'[map'[y]] # {}
      PROVE  map'[y] \in shared'
  <2>1. y # x /\ null[y]
    BY <1>5 DEF TypeOK
  <2>2. CASE map[y] = map[x]
    BY <2>1, <2>2 DEF SharingIsKnown
  <2>3. CASE map[y] # map[x]
    <3>1. map[y] \in Object /\ elements'[map[y]] = elements[map[y]]
      BY <2>3 DEF TypeOK
    <3>. QED
      BY <1>5, <2>1, <3>1 DEF NullIsEmpty
  <2>. QED
    BY <2>2, <2>3
<1>. QED
  BY <1>3, <1>4, <1>5 DEF NullIsEmpty

\* Taking an element away takes none from others.
LEMMA DeleteStep ==
  ASSUME IInv, NEW x \in Object, NEW k \in Key, DeleteKey(x, k)
  PROVE  IInv'
<1> USE DEF IInv, DeleteKey
<1>1. map[x] \in Object /\ elements[map[x]] \in Elements
  BY DEF TypeOK
<1>2. elements' \in [Object -> Elements]
  BY <1>1, DeleteType, Zenon DEF TypeOK
<1>3. TypeOK'
  BY <1>2 DEF TypeOK
<1>4. SharingIsKnown'
  BY DEF SharingIsKnown
<1>5. ASSUME NEW y \in Object, DOMAIN elements'[map[y]] # {}
      PROVE  DOMAIN elements[map[y]] # {}
  <2>1. map[y] \in Object
    BY DEF TypeOK
  <2>2. CASE map[y] = map[x]
    BY <1>1, <1>5, <2>2 DEF TypeOK
  <2>3. CASE map[y] # map[x]
    BY <1>5, <2>1, <2>3 DEF TypeOK
  <2>. QED
    BY <2>2, <2>3
<1>. QED
  BY <1>3, <1>4, <1>5 DEF NullIsEmpty

\* An object that becomes null empties what it shares.
LEMMA SetNullStep ==
  ASSUME IInv, NEW x \in Object, NEW val \in BOOLEAN, SetNull(x, val)
  PROVE  IInv'
<1> USE DEF IInv, SetNull
<1>1. map[x] \in Object
  BY DEF TypeOK
<1>2. elements' \in [Object -> Elements]
  BY <1>1, NothingType DEF TypeOK
<1>3. TypeOK'
  BY <1>2 DEF TypeOK
<1>4. SharingIsKnown'
  BY DEF SharingIsKnown
<1>5. ASSUME NEW y \in Object, null'[y], DOMAIN elements'[map'[y]] # {}
      PROVE  map'[y] \in shared'
  <2>1. CASE y = x
    <3>1. val
      BY <1>5, <2>1 DEF TypeOK
    <3>2. elements'[map[x]] = Nothing
      BY <1>1, <3>1 DEF TypeOK
    <3>. QED
      BY <1>5, <2>1, <3>2, NothingType
  <2>2. CASE y # x
    <3>1. null[y] /\ map[y] \in Object
      BY <1>5, <2>2 DEF TypeOK
    <3>2. elements'[map[y]] \in {elements[map[y]], Nothing}
      BY <3>1 DEF TypeOK
    <3>. QED
      BY <1>5, <3>1, <3>2, NothingType, Zenon DEF NullIsEmpty
  <2>. QED
    BY <2>1, <2>2
<1>. QED
  BY <1>3, <1>4, <1>5 DEF NullIsEmpty

\* A copy has the null_ and the elements_ of its original.
LEMMA CopyStep ==
  ASSUME IInv, NEW x \in Object, NEW y \in Object, Copy(x, y)
  PROVE  IInv'
<1> USE DEF IInv, Copy
<1>1. elements' \in [Object -> Elements]
  BY NothingType DEF TypeOK
<1>2. TypeOK'
  BY <1>1 DEF TypeOK
<1>3. SharingIsKnown'
  BY DEF SharingIsKnown, TypeOK
<1>4. ASSUME NEW z \in Object, null'[z], DOMAIN elements'[map'[z]] # {}
      PROVE  map'[z] \in shared'
  <2>1. CASE z = x
    BY <2>1 DEF TypeOK
  <2>2. CASE z # x
    <3>1. null[z] /\ map'[z] = map[z] /\ map[z] \in Object
      BY <1>4, <2>2 DEF TypeOK
    <3>2. elements'[map[z]] \in {elements[map[z]], Nothing}
      BY <3>1
    <3>. QED
      BY SMTT(30), <1>4, <3>1, <3>2, NothingType DEF NullIsEmpty
  <2>. QED
    BY <2>1, <2>2
<1>. QED
  BY <1>2, <1>3, <1>4, Zenon DEF NullIsEmpty

\* An array is none of the objects' business.
LEMMA PutItemStep ==
  ASSUME IInv, NEW a \in Array, NEW e \in Items \cup Reference, PutItem(a, e)
  PROVE  IInv'
<1> USE DEF IInv, PutItem
<1>1. items[a] \in Seq(Items \cup Reference)
  BY DEF TypeOK
<1>2. items' \in [Array -> Seq(Items \cup Reference)]
  BY <1>1 DEF TypeOK
<1>3. TypeOK'
  BY <1>2 DEF TypeOK
<1>. QED
  BY <1>3, Zenon DEF SharingIsKnown, NullIsEmpty
-----------------------------------------------------------------------------
\* The invariant holds whatever calls a program makes.
THEOREM Invariance == BuildSpec => []IInv
<1>1. BuildInit => IInv
  BY NothingType DEF BuildInit, IInv, TypeOK, SharingIsKnown, NullIsEmpty
<1>2. IInv /\ [Build \/ Forget]_building => IInv'
  <2> SUFFICES ASSUME IInv, [Build \/ Forget]_building PROVE IInv'
    OBVIOUS
  <2>1. CASE UNCHANGED building
    BY <2>1 DEF building, IInv, TypeOK, SharingIsKnown, NullIsEmpty
  <2>2. CASE Forget
    BY <2>2, NothingType DEF Forget, IInv, TypeOK, SharingIsKnown, NullIsEmpty
  <2>. QED
    BY <2>1, <2>2, PutValueStep, DeleteStep, SetNullStep, CopyStep, PutItemStep DEF Build
<1>. QED
  BY <1>1, <1>2, PTL DEF BuildSpec

\* Objects and arrays hold what was put in them, and nothing else.
THEOREM TypeCorrect == BuildSpec => []TypeOK
<1>1. IInv => TypeOK
  BY DEF IInv
<1>. QED
  BY <1>1, Invariance, PTL

\* An object that says it is null holds nothing, unless what it holds was shared
\* with a copy.
THEOREM UnsharedNullIsEmpty == BuildSpec => []NullIsEmpty
<1>1. IInv => NullIsEmpty
  BY DEF IInv
<1>. QED
  BY <1>1, Invariance, PTL

-----------------------------------------------------------------------------
(* Induction and recursion: what the recursive definitions define.         *)

\* Induction over the numbers, as membership in a set.
LEMMA SetInduction ==
  ASSUME NEW S, 0 \in S, \A n \in Nat \ {0} : n - 1 \in S => n \in S
  PROVE  \A n \in Nat : n \in S
<1> SUFFICES ASSUME NEW m \in Nat, m \notin S PROVE FALSE
  OBVIOUS
<1> DEFINE T == {n \in 0 .. m : n \in S}
           up == [n \in T |-> n + 1]
<1>1. IsFiniteSet(T) /\ Cardinality(T) \in Nat
  <2>1. IsFiniteSet(0 .. m)
    BY FS_Interval
  <2> QED
    BY <2>1, FS_Subset, FS_CardinalityType
<1>2. IsFiniteSet(T \ {0}) /\ Cardinality(T \ {0}) = Cardinality(T) - 1
  <2>1. 0 \in T
    OBVIOUS
  <2> QED
    BY <2>1, <1>1, FS_RemoveElement
<1>3. up \in Injection(T, T \ {0})
  <2>1. \A n \in T : n + 1 \in T \ {0}
    OBVIOUS
  <2> QED
    BY <2>1 DEF Injection, IsInjective
<1>4. Cardinality(T) <= Cardinality(T \ {0})
  BY <1>2, <1>3, FS_Injection
<1> QED
  BY <1>1, <1>2, <1>4

\* The symbols.
LEMMA Literals ==
  /\ {LeftBrace, RightBrace, "[", "]", Comma, ":", Quote, Backslash, Space, "\n", "\r", "\t", "n", "r", "t", "f",
      "true", "false", "null"} \subseteq Symbol
  /\ NumberText \subseteq Symbol
BY DEF Symbol

\* A symbol as a text.
LEMMA OneSymbol ==
  ASSUME NEW c \in Symbol
  PROVE  <<c>> \in Seq(Symbol)
OBVIOUS

\* The text without symbols.
LEMMA EmptyText == <<>> \in Seq(Symbol)
BY EmptySeq

\* What separates members and items is a text.
LEMMA SeparatorType ==
  ASSUME NEW first \in BOOLEAN
  PROVE  Separator(first) \in Seq(Symbol)
<1>1. <<Comma>> \in Seq(Symbol)
  BY Literals, OneSymbol
<1>2. CASE first
  BY <1>2, EmptyText DEF Separator
<1>3. CASE ~first
  BY <1>1, <1>3 DEF Separator
<1> QED BY <1>2, <1>3

\* Induction from lower ranks to higher ones.
LEMMA RankInduction ==
  ASSUME NEW D, NEW rank \in [D -> Nat], NEW T,
         \A d \in D : (\A c \in D : rank[c] < rank[d] => c \in T) => d \in T
  PROVE  D \subseteq T
<1> DEFINE S == {k \in Nat : \A d \in D : rank[d] < k => d \in T}
<1>1. 0 \in S
  OBVIOUS
<1>2. ASSUME NEW k \in Nat \ {0}, k - 1 \in S PROVE k \in S
  <2> SUFFICES ASSUME NEW d \in D, rank[d] < k PROVE d \in T
    OBVIOUS
  <2>1. \A c \in D : rank[c] < rank[d] => c \in T
    BY <1>2
  <2> QED BY <2>1
<1>3. \A k \in Nat : k \in S
  <2> HIDE DEF S
  <2> QED BY <1>1, <1>2, SetInduction
<1> QED
  <2> SUFFICES ASSUME NEW d \in D PROVE d \in T
    OBVIOUS
  <2>1. rank[d] + 1 \in S
    BY <1>3
  <2> QED BY <2>1

\* What step makes of a function at d depends on its values of lower ranks.
WellRanked(D, N, rank, V, step) ==
  /\ N \in Nat /\ rank \in [D -> 0 .. N] /\ V # {} /\ step \in [[D -> V] -> [D -> V]]
  /\ \A f, g \in [D -> V], d \in D :
       (\A c \in D : rank[c] < rank[d] => f[c] = g[c]) => step[f][d] = step[g][d]

\* Then it has a fixed point.
LEMMA Recursion ==
  ASSUME NEW D, NEW N, NEW rank, NEW V, NEW step, WellRanked(D, N, rank, V, step)
  PROVE  \E f \in [D -> V] : f = step[f]
<1>0. /\ N \in Nat /\ rank \in [D -> 0 .. N] /\ V # {} /\ step \in [[D -> V] -> [D -> V]]
      /\ \A f, g \in [D -> V], d \in D :
           (\A c \in D : rank[c] < rank[d] => f[c] = g[c]) => step[f][d] = step[g][d]
  BY DEF WellRanked
<1> DEFINE Good(f, k) == \A d \in D : rank[d] < k => f[d] = step[f][d]
           S == {k \in Nat : \E f \in [D -> V] : Good(f, k)}
<1>1. 0 \in S
  <2>1. PICK v : v \in V
    BY <1>0
  <2>2. [d \in D |-> v] \in [D -> V]
    BY <2>1
  <2>3. \A f \in [D -> V] : Good(f, 0)
    BY <1>0
  <2> HIDE DEF Good
  <2> QED BY <2>2, <2>3, Zenon
<1>2. ASSUME NEW k \in Nat \ {0}, k - 1 \in S PROVE k \in S
  <2>1. PICK g \in [D -> V] : Good(g, k - 1)
    BY <1>2
  <2>2. step[g] \in [D -> V]
    BY <1>0
  <2>3. ASSUME NEW d \in D, rank[d] < k PROVE step[g][d] = step[step[g]][d]
    <3>1. \A c \in D : rank[c] < rank[d] => g[c] = step[g][c]
      BY <1>0, <2>1, <2>3
    <3> QED BY <1>0, <2>2, <3>1
  <2>4. Good(step[g], k)
    BY <2>3
  <2> HIDE DEF Good
  <2> QED BY <2>2, <2>4
<1>3. \A k \in Nat : k \in S
  <2> HIDE DEF S
  <2> QED BY <1>1, <1>2, SetInduction
<1>4. N + 1 \in Nat
  BY <1>0
<1>5. PICK f \in [D -> V] : Good(f, N + 1)
  <2> HIDE DEF Good
  <2> QED BY <1>3, <1>4
<1>6. \A d \in D : f[d] = step[f][d]
  BY <1>0, <1>5
<1> QED BY <1>0, <1>6

\* Induction down to the first of some places.
LEMMA Downward ==
  ASSUME NEW M \in Nat, NEW T,
         \A i \in 1 .. M : (\A j \in 1 .. M : j > i => j \in T) => i \in T
  PROVE  \A i \in 1 .. M : i \in T
<1> DEFINE D == 1 .. M
           rank == [i \in D |-> M - i]
<1>1. rank \in [D -> Nat]
  OBVIOUS
<1>2. \A i \in D : (\A j \in D : rank[j] < rank[i] => j \in T) => i \in T
  OBVIOUS
<1>3. D \subseteq T
  <2> HIDE DEF D, rank
  <2> QED BY <1>1, <1>2, RankInduction
<1> QED BY <1>3

\* The recursive definitions define functions.
LEMMA ReplacingIs ==
  ASSUME NEW str \in Seq(Symbol), NEW symbol, NEW rep \in Seq(Symbol), NEW width \in {1, 2}
  PROVE  LET r == Replacing(str, symbol, rep, width)
         IN  /\ r \in [1 .. Len(str) + 2 -> Seq(Symbol)]
             /\ \A i \in 1 .. Len(str) + 2 : r[i] = IF i > Len(str) THEN <<>> ELSE IF str[i] = symbol THEN rep \o r[i + width] ELSE <<str[i]>> \o r[i + 1]
<1> DEFINE M == Len(str) + 2
           D == 1 .. M
           V == Seq(Symbol)
           Body(f, i) == IF i > Len(str) THEN <<>> ELSE IF str[i] = symbol THEN rep \o f[i + width] ELSE <<str[i]>> \o f[i + 1]
           step == [f \in [D -> V] |-> [i \in D |-> Body(f, i)]]
           rank == [i \in D |-> M - i]
<1>0. M \in Nat \ {0}
  OBVIOUS
<1>1. ASSUME NEW f, NEW i \in D, \A j \in D : j > i => f[j] \in V
      PROVE  Body(f, i) \in V
  <2>1. CASE i > Len(str)
    BY <2>1
  <2>2. CASE i <= Len(str)
    <3>1. f[i + 1] \in V /\ f[i + width] \in V /\ str[i] \in Symbol
      BY <1>1, <2>2
    <3>2. <<str[i]>> \in Seq(Symbol)
      BY <3>1
    <3>3. rep \o f[i + width] \in V /\ <<str[i]>> \o f[i + 1] \in V
      BY <3>1, <3>2, ConcatProperties
    <3> QED BY <2>2, <3>3
  <2> QED BY <2>1, <2>2
<1>2. ASSUME NEW f, NEW g, NEW i \in D, \A j \in D : j > i => f[j] = g[j]
      PROVE  Body(f, i) = Body(g, i)
  <2>1. CASE i > Len(str)
    BY <2>1
  <2>2. CASE i <= Len(str)
    <3>1. f[i + 1] = g[i + 1] /\ f[i + 2] = g[i + 2]
      BY <1>2, <2>2
    <3> QED BY <2>2, <3>1
  <2> QED BY <2>1, <2>2
<1>3. V # {}
  BY EmptyText
<1>4. rank \in [D -> 0 .. M] /\ \A i, j \in D : rank[j] < rank[i] <=> j > i
  BY <1>0
<1> DEFINE r == Replacing(str, symbol, rep, width)
<1>5. ASSUME NEW h, h = [i \in D |-> Body(h, i)] PROVE r = [i \in D |-> Body(r, i)]
  BY <1>5, Zenon DEF Replacing
<1> HIDE DEF Body, D, V, rank, r
<1>6. step \in [[D -> V] -> [D -> V]]
  BY <1>1
<1>7. ASSUME NEW f \in [D -> V], NEW g \in [D -> V], NEW i \in D,
             \A j \in D : rank[j] < rank[i] => f[j] = g[j]
      PROVE  step[f][i] = step[g][i]
  <2>1. Body(f, i) = Body(g, i)
    BY <1>2, <1>4, <1>7
  <2> QED BY <2>1
<1>8. PICK h \in [D -> V] : h = step[h]
  <2> HIDE DEF step, M
  <2>1. WellRanked(D, M, rank, V, step)
    BY <1>0, <1>3, <1>4, <1>6, <1>7, Zenon DEF WellRanked
  <2> QED BY <2>1, Recursion
<1>9. r = [i \in D |-> Body(r, i)]
  BY <1>5, <1>8
<1>10. \A i \in D : r[i] \in V
  <2> DEFINE T == {i \in D : r[i] \in V}
  <2>1. ASSUME NEW i \in D, \A j \in D : j > i => j \in T PROVE i \in T
    <3>1. r[i] = Body(r, i) /\ \A j \in D : j > i => r[j] \in V
      BY <1>9, <2>1
    <3> QED BY <1>1, <3>1
  <2>2. \A i \in D : i \in T
    <3> HIDE DEF T, M
    <3> QED BY <1>0, <2>1, Downward, Zenon DEF D
  <2> QED BY <2>2
<1>11. r \in [D -> V] /\ \A i \in D : r[i] = Body(r, i)
  BY <1>9, <1>10
<1> QED BY <1>11, Zenon DEF Body, D, V, r

\* A string, and the place where it ends.
LEMMA StringRestsIs ==
  ASSUME NEW t \in Seq(Symbol)
  PROVE  LET r == StringRests(t)
         IN  /\ r \in [1 .. Len(t) + 2 -> [how : {"returned"}, value : Seq(Symbol), at : 1 .. Len(t) + 2]]
             /\ \A i \in 1 .. Len(t) + 2 : r[i] = IF i > Len(t) \/ At(t, i) = Quote THEN Returns(<<>>, i)
                ELSE LET isEscape == t[i] = Backslash
                         rest == r[IF isEscape THEN i + 2 ELSE i + 1]
                     IN  Returns((IF isEscape THEN Escape(At(t, i + 1)) ELSE <<t[i]>>)
                                   \o rest.value, rest.at)
<1> DEFINE M == Len(t) + 2
           D == 1 .. M
           V == [how : {"returned"}, value : Seq(Symbol), at : 1 .. Len(t) + 2]
           Body(f, i) == IF i > Len(t) \/ At(t, i) = Quote THEN Returns(<<>>, i)
                ELSE LET isEscape == t[i] = Backslash
                         rest == f[IF isEscape THEN i + 2 ELSE i + 1]
                     IN  Returns((IF isEscape THEN Escape(At(t, i + 1)) ELSE <<t[i]>>)
                                   \o rest.value, rest.at)
           step == [f \in [D -> V] |-> [i \in D |-> Body(f, i)]]
           rank == [i \in D |-> M - i]
<1>0. M \in Nat \ {0}
  OBVIOUS
<1>1. ASSUME NEW f, NEW i \in D, \A j \in D : j > i => f[j] \in V
      PROVE  Body(f, i) \in V
  <2>0. <<>> \in Seq(Symbol)
    BY EmptyText
  <2>1. CASE i > Len(t) \/ At(t, i) = Quote
    BY <2>0, <2>1 DEF Returns
  <2>2. CASE ~(i > Len(t) \/ At(t, i) = Quote)
    <3> DEFINE rest == f[IF t[i] = Backslash THEN i + 2 ELSE i + 1]
               c == IF t[i] = Backslash THEN Escape(At(t, i + 1)) ELSE <<t[i]>>
    <3>1. rest \in V
      BY <1>1, <2>2
    <3>2. rest.value \in Seq(Symbol) /\ rest.at \in 1 .. Len(t) + 2
      BY <3>1
    <3>4. c \in Seq(Symbol)
      <4>1. <<t[i]>> \in Seq(Symbol)
        BY <2>2
      <4>2. Escape(At(t, i + 1)) \in Seq(Symbol)
        BY <2>0, Literals, OneSymbol DEF Escape
      <4> QED BY <4>1, <4>2
    <3>5. c \o rest.value \in Seq(Symbol)
      BY <3>2, <3>4, ConcatProperties
    <3>6. Body(f, i) = Returns(c \o rest.value, rest.at)
      BY <2>2
    <3> HIDE DEF c, rest
    <3> QED BY <3>2, <3>5, <3>6, Zenon DEF Returns
  <2> QED BY <2>1, <2>2
<1>2. ASSUME NEW f, NEW g, NEW i \in D, \A j \in D : j > i => f[j] = g[j]
      PROVE  Body(f, i) = Body(g, i)
  <2>1. CASE i > Len(t)
    BY <2>1
  <2>2. CASE i <= Len(t)
    <3>1. f[i + 1] = g[i + 1] /\ f[i + 2] = g[i + 2]
      BY <1>2, <2>2
    <3> QED BY <2>2, <3>1
  <2> QED BY <2>1, <2>2
<1>3. V # {}
  <2>1. <<>> \in Seq(Symbol) /\ 1 \in 1 .. Len(t) + 2
    BY EmptyText
  <2>2. [how |-> "returned", value |-> <<>>, at |-> 1] \in V
    BY <2>1
  <2> QED BY <2>2, Zenon
<1>4. rank \in [D -> 0 .. M] /\ \A i, j \in D : rank[j] < rank[i] <=> j > i
  BY <1>0
<1> DEFINE r == StringRests(t)
<1>5. ASSUME NEW h, h = [i \in D |-> Body(h, i)] PROVE r = [i \in D |-> Body(r, i)]
  BY <1>5, Zenon DEF StringRests
<1> HIDE DEF Body, D, V, rank, r
<1>6. step \in [[D -> V] -> [D -> V]]
  BY <1>1
<1>7. ASSUME NEW f \in [D -> V], NEW g \in [D -> V], NEW i \in D,
             \A j \in D : rank[j] < rank[i] => f[j] = g[j]
      PROVE  step[f][i] = step[g][i]
  <2>1. Body(f, i) = Body(g, i)
    BY <1>2, <1>4, <1>7
  <2> QED BY <2>1
<1>8. PICK h \in [D -> V] : h = step[h]
  <2> HIDE DEF step, M
  <2>1. WellRanked(D, M, rank, V, step)
    BY <1>0, <1>3, <1>4, <1>6, <1>7, Zenon DEF WellRanked
  <2> QED BY <2>1, Recursion
<1>9. r = [i \in D |-> Body(r, i)]
  BY <1>5, <1>8
<1>10. \A i \in D : r[i] \in V
  <2> DEFINE T == {i \in D : r[i] \in V}
  <2>1. ASSUME NEW i \in D, \A j \in D : j > i => j \in T PROVE i \in T
    <3>1. r[i] = Body(r, i) /\ \A j \in D : j > i => r[j] \in V
      BY <1>9, <2>1
    <3> QED BY <1>1, <3>1
  <2>2. \A i \in D : i \in T
    <3> HIDE DEF T, M
    <3> QED BY <1>0, <2>1, Downward, Zenon DEF D
  <2> QED BY <2>2
<1>11. r \in [D -> V] /\ \A i \in D : r[i] = Body(r, i)
  BY <1>9, <1>10
<1> QED BY <1>11 DEF Body, D, V, r

\* The text of an array.
LEMMA ArrayRestsIs ==
  ASSUME NEW texts \in Seq(Seq(Symbol))
  PROVE  LET r == ArrayRests(texts)
         IN  /\ r \in [1 .. Len(texts) + 1 -> Seq(Symbol)]
             /\ \A i \in 1 .. Len(texts) + 1 : r[i] = IF i > Len(texts) THEN <<"]">> ELSE Separator(i = 1) \o texts[i] \o r[i + 1]
<1> DEFINE M == Len(texts) + 1
           D == 1 .. M
           V == Seq(Symbol)
           Body(f, i) == IF i > Len(texts) THEN <<"]">> ELSE Separator(i = 1) \o texts[i] \o f[i + 1]
           step == [f \in [D -> V] |-> [i \in D |-> Body(f, i)]]
           rank == [i \in D |-> M - i]
<1>0. M \in Nat \ {0}
  OBVIOUS
<1>1. ASSUME NEW f, NEW i \in D, \A j \in D : j > i => f[j] \in V
      PROVE  Body(f, i) \in V
  <2>1. CASE i > Len(texts)
    BY <2>1, Literals, OneSymbol
  <2>2. CASE i <= Len(texts)
    <3>1. f[i + 1] \in V /\ texts[i] \in Seq(Symbol)
      BY <1>1, <2>2
    <3>2. Separator(i = 1) \in Seq(Symbol)
      BY SeparatorType, Zenon
    <3>3. Separator(i = 1) \o texts[i] \in Seq(Symbol)
      BY <3>1, <3>2, ConcatProperties
    <3>4. Separator(i = 1) \o texts[i] \o f[i + 1] \in Seq(Symbol)
      BY <3>1, <3>3, ConcatProperties
    <3> QED BY <2>2, <3>4
  <2> QED BY <2>1, <2>2
<1>2. ASSUME NEW f, NEW g, NEW i \in D, \A j \in D : j > i => f[j] = g[j]
      PROVE  Body(f, i) = Body(g, i)
  <2>0. Len(texts) \in Nat
    OBVIOUS
  <2>1. CASE i > Len(texts)
    BY <2>1
  <2>2. CASE i <= Len(texts)
    <3>1. f[i + 1] = g[i + 1]
      BY <1>2, <2>0, <2>2
    <3> QED BY <2>0, <2>2, <3>1
  <2> QED BY <2>0, <2>1, <2>2
<1>3. V # {}
  BY EmptyText
<1>4. rank \in [D -> 0 .. M] /\ \A i, j \in D : rank[j] < rank[i] <=> j > i
  BY <1>0
<1> DEFINE r == ArrayRests(texts)
<1>5. ASSUME NEW h, h = [i \in D |-> Body(h, i)] PROVE r = [i \in D |-> Body(r, i)]
  BY <1>5, Zenon DEF ArrayRests
<1> HIDE DEF Body, D, V, rank, r
<1>6. step \in [[D -> V] -> [D -> V]]
  BY <1>1
<1>7. ASSUME NEW f \in [D -> V], NEW g \in [D -> V], NEW i \in D,
             \A j \in D : rank[j] < rank[i] => f[j] = g[j]
      PROVE  step[f][i] = step[g][i]
  <2>1. Body(f, i) = Body(g, i)
    BY <1>2, <1>4, <1>7
  <2> QED BY <2>1
<1>8. PICK h \in [D -> V] : h = step[h]
  <2> HIDE DEF step, M
  <2>1. WellRanked(D, M, rank, V, step)
    BY <1>0, <1>3, <1>4, <1>6, <1>7, Zenon DEF WellRanked
  <2> QED BY <2>1, Recursion
<1>9. r = [i \in D |-> Body(r, i)]
  BY <1>5, <1>8
<1>10. \A i \in D : r[i] \in V
  <2> DEFINE T == {i \in D : r[i] \in V}
  <2>1. ASSUME NEW i \in D, \A j \in D : j > i => j \in T PROVE i \in T
    <3>1. r[i] = Body(r, i) /\ \A j \in D : j > i => r[j] \in V
      BY <1>9, <2>1
    <3> QED BY <1>1, <3>1
  <2>2. \A i \in D : i \in T
    <3> HIDE DEF T, M
    <3> QED BY <1>0, <2>1, Downward, Zenon DEF D
  <2> QED BY <2>2
<1>11. r \in [D -> V] /\ \A i \in D : r[i] = Body(r, i)
  BY <1>9, <1>10
<1> QED BY <1>11, Zenon DEF Body, D, V, r

\* The text of a member.
LEMMA MemberTextType ==
  ASSUME NEW keys \in SUBSET Key, NEW texts \in [keys -> Seq(Symbol)], NEW i \in 1 .. Len(KeyOrder)
  PROVE  MemberText(texts, i) \in Seq(Symbol)
<1> DEFINE k == KeyOrder[i]
           first == \A j \in 1 .. i - 1 : KeyOrder[j] \notin DOMAIN texts
<1>1. k \in Seq(Symbol) /\ k \in Key
  BY KeysAssumption DEF ToSet
<1>2. CASE k \notin DOMAIN texts
  BY <1>2 DEF MemberText
<1>3. CASE k \in DOMAIN texts
  <2>1. texts[k] \in Seq(Symbol)
    BY <1>3
  <2>0. first \in BOOLEAN
    OBVIOUS
  <2> HIDE DEF k, first
  <2>2. Separator(first) \in Seq(Symbol) /\ <<Quote>> \in Seq(Symbol) /\ <<":">> \in Seq(Symbol)
    BY <2>0, SeparatorType, Literals, OneSymbol
  <2>3. <<Quote>> \o k \in Seq(Symbol)
    BY <1>1, <2>2, ConcatProperties
  <2>4. Quoted(k) \in Seq(Symbol)
    BY <2>2, <2>3, ConcatProperties DEF Quoted
  <2>5. Separator(first) \o Quoted(k) \in Seq(Symbol)
    BY <2>2, <2>4, ConcatProperties
  <2>6. Separator(first) \o Quoted(k) \o <<":">> \in Seq(Symbol)
    BY <2>2, <2>5, ConcatProperties
  <2>7. Separator(first) \o Quoted(k) \o <<":">> \o texts[k] \in Seq(Symbol)
    BY <2>1, <2>6, ConcatProperties
  <2> QED BY <1>3, <2>7, Zenon DEF MemberText, k, first
<1> QED BY <1>2, <1>3

\* The text of an object.
LEMMA ObjectRestsIs ==
  ASSUME NEW keys \in SUBSET Key, NEW texts \in [keys -> Seq(Symbol)]
  PROVE  LET r == ObjectRests(texts)
         IN  /\ r \in [1 .. Len(KeyOrder) + 1 -> Seq(Symbol)]
             /\ \A i \in 1 .. Len(KeyOrder) + 1 : r[i] = IF i > Len(KeyOrder) THEN <<RightBrace>> ELSE MemberText(texts, i) \o r[i + 1]
<1> DEFINE M == Len(KeyOrder) + 1
           D == 1 .. M
           V == Seq(Symbol)
           Body(f, i) == IF i > Len(KeyOrder) THEN <<RightBrace>> ELSE MemberText(texts, i) \o f[i + 1]
           step == [f \in [D -> V] |-> [i \in D |-> Body(f, i)]]
           rank == [i \in D |-> M - i]
<1>0. M \in Nat \ {0}
  BY KeysAssumption
<1>1. ASSUME NEW f, NEW i \in D, \A j \in D : j > i => f[j] \in V
      PROVE  Body(f, i) \in V
  <2>0. Len(KeyOrder) \in Nat
    BY KeysAssumption
  <2>1. CASE i > Len(KeyOrder)
    BY <2>1, Literals, OneSymbol
  <2>2. CASE i <= Len(KeyOrder)
    <3>1. f[i + 1] \in V /\ MemberText(texts, i) \in Seq(Symbol)
      <4>1. i \in 1 .. Len(KeyOrder) /\ i + 1 \in D
        BY <2>0, <2>2
      <4>2. f[i + 1] \in V
        BY <1>1, <2>0, <4>1
      <4>3. MemberText(texts, i) \in Seq(Symbol)
        BY <4>1, MemberTextType
      <4> QED BY <4>2, <4>3
    <3>2. MemberText(texts, i) \o f[i + 1] \in Seq(Symbol)
      BY <3>1, ConcatProperties
    <3> QED BY <2>0, <2>2, <3>2
  <2> QED BY <2>0, <2>1, <2>2
<1>2. ASSUME NEW f, NEW g, NEW i \in D, \A j \in D : j > i => f[j] = g[j]
      PROVE  Body(f, i) = Body(g, i)
  <2>0. Len(KeyOrder) \in Nat
    BY KeysAssumption
  <2>1. CASE i > Len(KeyOrder)
    BY <2>1
  <2>2. CASE i <= Len(KeyOrder)
    <3>1. f[i + 1] = g[i + 1]
      BY <1>2, <2>0, <2>2
    <3> QED BY <2>0, <2>2, <3>1
  <2> QED BY <2>0, <2>1, <2>2
<1>3. V # {}
  BY EmptyText, Zenon
<1>4. rank \in [D -> 0 .. M] /\ \A i, j \in D : rank[j] < rank[i] <=> j > i
  BY <1>0
<1> DEFINE r == ObjectRests(texts)
<1>5. ASSUME NEW h, h = [i \in D |-> Body(h, i)] PROVE r = [i \in D |-> Body(r, i)]
  BY <1>5, Zenon DEF ObjectRests
<1> HIDE DEF Body, D, V, rank, r
<1>6. step \in [[D -> V] -> [D -> V]]
  BY <1>1
<1>7. ASSUME NEW f \in [D -> V], NEW g \in [D -> V], NEW i \in D,
             \A j \in D : rank[j] < rank[i] => f[j] = g[j]
      PROVE  step[f][i] = step[g][i]
  <2>1. Body(f, i) = Body(g, i)
    BY <1>2, <1>4, <1>7
  <2> QED BY <2>1
<1>8. PICK h \in [D -> V] : h = step[h]
  <2> HIDE DEF step, M
  <2>1. WellRanked(D, M, rank, V, step)
    BY <1>0, <1>3, <1>4, <1>6, <1>7, Zenon DEF WellRanked
  <2> QED BY <2>1, Recursion
<1>9. r = [i \in D |-> Body(r, i)]
  BY <1>5, <1>8
<1>10. \A i \in D : r[i] \in V
  <2> DEFINE T == {i \in D : r[i] \in V}
  <2>1. ASSUME NEW i \in D, \A j \in D : j > i => j \in T PROVE i \in T
    <3>1. r[i] = Body(r, i) /\ \A j \in D : j > i => r[j] \in V
      BY <1>9, <2>1
    <3> QED BY <1>1, <3>1
  <2>2. \A i \in D : i \in T
    <3> HIDE DEF T, M
    <3> QED BY <1>0, <2>1, Downward, Zenon DEF D
  <2> QED BY <2>2
<1>11. r \in [D -> V] /\ \A i \in D : r[i] = Body(r, i)
  BY <1>9, <1>10
<1> QED BY <1>11 DEF Body, D, V, r

-----------------------------------------------------------------------------
(* Searches in a text.                                                     *)

\* A set of numbers has a least one.
LEMMA Least ==
  ASSUME NEW S, S \subseteq Nat, S # {}
  PROVE  \E m \in S : \A n \in S : m <= n
<1> SUFFICES ASSUME \A m \in S : \E n \in S : n < m PROVE FALSE
  OBVIOUS
<1> DEFINE T == {m \in Nat : \A n \in S : m <= n}
<1>1. 0 \in T
  OBVIOUS
<1>2. ASSUME NEW m \in Nat \ {0}, m - 1 \in T PROVE m \in T
  <2>1. m - 1 \notin S
    BY <1>2
  <2> QED
    BY <1>2, <2>1
<1>3. \A m \in Nat : m \in T
  <2> HIDE DEF T
  <2> QED BY <1>1, <1>2, SetInduction
<1>4. PICK n : n \in S
  OBVIOUS
<1>5. n + 1 \in T
  BY <1>3, <1>4
<1> QED
  BY <1>4, <1>5

\* The first of some places of a text.
LEMMA FirstOfIs ==
  ASSUME NEW t \in Seq(Symbol), NEW places, places \subseteq 1 .. Len(t)
  PROVE  /\ FirstOf(t, places) \in 1 .. Len(t) + 1
         /\ \A q \in places : FirstOf(t, places) <= q
         /\ FirstOf(t, places) <= Len(t) => FirstOf(t, places) \in places
<1>0. Len(t) \in Nat
  OBVIOUS
<1>1. CASE places = {}
  BY <1>0, <1>1 DEF FirstOf
<1>2. CASE places # {}
  <2>1. places \subseteq Nat
    BY <1>0
  <2>2. \E p \in places : \A q \in places : p <= q
    BY <1>2, <2>1, Least, Zenon
  <2>3. FirstOf(t, places) = CHOOSE p \in places : \A q \in places : p <= q
    BY <1>2, Zenon DEF FirstOf
  <2>4. FirstOf(t, places) \in places /\ \A q \in places : FirstOf(t, places) <= q
    BY <2>2, <2>3, Zenon
  <2>5. PICK f : f = FirstOf(t, places)
    OBVIOUS
  <2>6. f \in places
    BY <2>4, <2>5
  <2>7. f \in 1 .. Len(t)
    BY <2>6
  <2>8. f \in 1 .. Len(t) + 1
    BY <1>0, <2>7
  <2> QED BY <2>4, <2>5, <2>6, <2>8
<1> QED BY <1>1, <1>2

\* The first place that has another symbol than these, or the one after the text.
LEMMA PastIs ==
  ASSUME NEW t \in Seq(Symbol), NEW p \in Nat \ {0}, NEW symbols
  PROVE  LET q == Past(t, p, symbols)
         IN  /\ q \in 1 .. Len(t) + 1
             /\ p <= Len(t) + 1 => p <= q
             /\ p > Len(t) => q = Len(t) + 1
             /\ \A j \in p .. q - 1 : t[j] \in symbols
             /\ q <= Len(t) => t[q] \notin symbols
<1> DEFINE places == {q \in p .. Len(t) : t[q] \notin symbols}
           f == FirstOf(t, places)
<1>0. Len(t) \in Nat
  OBVIOUS
<1>1. /\ f \in 1 .. Len(t) + 1
      /\ \A q \in places : f <= q
      /\ f <= Len(t) => f \in places
  <2>1. places \subseteq 1 .. Len(t)
    BY <1>0
  <2> HIDE DEF places
  <2> QED BY <2>1, FirstOfIs, Zenon
<1>2. Past(t, p, symbols) = f
  BY DEF Past
<1> HIDE DEF f
<1>3. \A j \in p .. f - 1 : t[j] \in symbols
  BY <1>0, <1>1
<1> QED BY <1>0, <1>1, <1>2, <1>3

\* The first place that has one of these symbols, or the one after the text.
LEMMA UntilIs ==
  ASSUME NEW t \in Seq(Symbol), NEW p \in Nat \ {0}, NEW symbols
  PROVE  LET q == Until(t, p, symbols)
         IN  /\ q \in 1 .. Len(t) + 1
             /\ p <= Len(t) + 1 => p <= q
             /\ p > Len(t) => q = Len(t) + 1
             /\ \A j \in p .. q - 1 : t[j] \notin symbols
             /\ q <= Len(t) => t[q] \in symbols
<1> DEFINE places == {q \in p .. Len(t) : t[q] \in symbols}
           f == FirstOf(t, places)
<1>0. Len(t) \in Nat
  OBVIOUS
<1>1. /\ f \in 1 .. Len(t) + 1
      /\ \A q \in places : f <= q
      /\ f <= Len(t) => f \in places
  <2>1. places \subseteq 1 .. Len(t)
    BY <1>0
  <2> HIDE DEF places
  <2> QED BY <2>1, FirstOfIs, Zenon
<1>2. Until(t, p, symbols) = f
  BY DEF Until
<1> HIDE DEF f
<1>3. \A j \in p .. f - 1 : t[j] \notin symbols
  BY <1>0, <1>1
<1> QED BY <1>0, <1>1, <1>2, <1>3

-----------------------------------------------------------------------------
(* Strings, from each place on.                                            *)

\* The parts of what is returned.
LEMMA ReturnsIs ==
  ASSUME NEW value, NEW at
  PROVE  /\ Returns(value, at).how = "returned"
         /\ Returns(value, at).value = value /\ Returns(value, at).at = at
BY DEF Returns

\* The rest of a string, one step of it.
StringAt(r, t, i) ==
  /\ r[i].value \in Seq(Symbol) /\ r[i].at \in i .. Len(t) + 2
  /\ r[i] = Returns(r[i].value, r[i].at)
  /\ i > Len(t) \/ t[i] = Quote => r[i].value = <<>> /\ r[i].at = i
  /\ i <= Len(t) /\ t[i] = Backslash =>
       r[i].value = Escape(At(t, i + 1)) \o r[i + 2].value /\ r[i].at = r[i + 2].at
  /\ i <= Len(t) /\ t[i] \notin {Quote, Backslash} =>
       r[i].value = Cons(t[i], r[i + 1].value) /\ r[i].at = r[i + 1].at

\* What is read of a string is so everywhere.
LEMMA StringStep ==
  ASSUME NEW t \in Seq(Symbol)
  PROVE  \A i \in 1 .. Len(t) + 2 : StringAt(StringRests(t), t, i)
<1> DEFINE r == StringRests(t)
           D == 1 .. Len(t) + 2
           isEnd(i) == i > Len(t) \/ At(t, i) = Quote
           rest(i) == r[IF t[i] = Backslash THEN i + 2 ELSE i + 1]
           c(i) == IF t[i] = Backslash THEN Escape(At(t, i + 1)) ELSE <<t[i]>>
<1>0. Len(t) \in Nat /\ Len(t) + 2 \in Nat
  OBVIOUS
<1>1. r \in [D -> [how : {"returned"}, value : Seq(Symbol), at : D]]
  BY StringRestsIs
<1>2. \A i \in D : r[i] = IF isEnd(i) THEN Returns(<<>>, i) ELSE Returns(c(i) \o rest(i).value, rest(i).at)
  <2>1. \A i \in D : r[i] = IF i > Len(t) \/ At(t, i) = Quote THEN Returns(<<>>, i)
              ELSE LET isEscape == t[i] = Backslash
                       rst == r[IF isEscape THEN i + 2 ELSE i + 1]
                   IN  Returns((IF isEscape THEN Escape(At(t, i + 1)) ELSE <<t[i]>>)
                                 \o rst.value, rst.at)
    BY StringRestsIs
  <2> QED BY <2>1
<1> HIDE DEF r, isEnd, rest, c, D
<1>3. \A i \in D : r[i] \in [how : {"returned"}, value : Seq(Symbol), at : D]
  BY <1>1
<1>4. ASSUME NEW i \in D, \A j \in D : j > i => r[j].at >= j PROVE r[i].at >= i
  <2>1. CASE isEnd(i)
    <3>1. r[i] = Returns(<<>>, i)
      BY <1>2, <2>1
    <3>2. r[i].at = i
      BY <3>1, ReturnsIs
    <3> QED BY <1>0, <3>2 DEF D
  <2>2. CASE ~isEnd(i)
    <3>0. r[i] = Returns(c(i) \o rest(i).value, rest(i).at)
      BY <1>2, <2>2
    <3>1. r[i].at = rest(i).at
      BY <3>0, ReturnsIs
    <3>2. i + 1 \in D /\ i + 2 \in D /\ i \in Nat
      BY <1>0, <2>2 DEF D, isEnd
    <3>3. r[i + 1].at \in Nat /\ r[i + 1].at >= i + 1 /\ r[i + 2].at \in Nat /\ r[i + 2].at >= i + 2
      <4>1. r[i + 1].at \in D /\ r[i + 2].at \in D
        BY <1>3, <3>2
      <4>2. i + 1 > i /\ i + 2 > i
        BY <3>2
      <4>3. r[i + 1].at >= i + 1 /\ r[i + 2].at >= i + 2
        BY <1>4, <3>2, <4>2
      <4> QED BY <1>0, <4>1, <4>3 DEF D
    <3>4. CASE t[i] = Backslash
      BY <3>1, <3>2, <3>3, <3>4 DEF rest
    <3>5. CASE t[i] # Backslash
      BY <3>1, <3>2, <3>3, <3>5 DEF rest
    <3> QED BY <3>4, <3>5
  <2> QED BY <2>1, <2>2
<1>5. \A i \in D : i \in {j \in D : r[j].at >= j}
  <2> DEFINE T == {j \in D : r[j].at >= j}
  <2>1. ASSUME NEW i \in D, \A j \in D : j > i => j \in T PROVE i \in T
    BY <1>4, <2>1
  <2>2. \A i \in D : i \in T
    <3> HIDE DEF T
    <3> QED BY <1>0, <2>1, Downward, Zenon DEF D
  <2> QED BY <2>2
<1> SUFFICES ASSUME NEW i \in D PROVE StringAt(r, t, i)
  BY DEF D, r
<1>6. /\ r[i].value \in Seq(Symbol) /\ r[i].at \in i .. Len(t) + 2
      /\ r[i] = Returns(r[i].value, r[i].at)
  <2>1. r[i] \in [how : {"returned"}, value : Seq(Symbol), at : D] /\ r[i].at >= i
    BY <1>3, <1>5
  <2>2. r[i].value \in Seq(Symbol) /\ r[i].at \in D /\ r[i] = Returns(r[i].value, r[i].at)
    BY <2>1 DEF Returns
  <2> QED BY <1>0, <2>1, <2>2 DEF D
<1>7. i > Len(t) \/ t[i] = Quote => r[i].value = <<>> /\ r[i].at = i
  <2>1. i > Len(t) \/ t[i] = Quote => isEnd(i)
    BY <1>0 DEF isEnd, At, D
  <2>2. isEnd(i) => r[i] = Returns(<<>>, i)
    BY <1>2
  <2> QED BY <2>1, <2>2 DEF Returns
<1>8. i <= Len(t) /\ t[i] # Quote => r[i].value = c(i) \o rest(i).value /\ r[i].at = rest(i).at
  <2>1. i <= Len(t) /\ t[i] # Quote => ~isEnd(i)
    BY <1>0 DEF isEnd, At, D
  <2>2. ~isEnd(i) => r[i] = Returns(c(i) \o rest(i).value, rest(i).at)
    BY <1>2
  <2> QED BY <2>1, <2>2 DEF Returns
<1>9. Quote # Backslash
  BY DEF Quote, Backslash
<1>10. t[i] = Backslash => c(i) = Escape(At(t, i + 1)) /\ rest(i) = r[i + 2]
  BY DEF c, rest
<1>11. t[i] # Backslash => c(i) \o r[i + 1].value = Cons(t[i], r[i + 1].value) /\ rest(i) = r[i + 1]
  BY Zenon DEF c, rest, Cons
<1>12. i <= Len(t) /\ t[i] = Backslash =>
         r[i].value = Escape(At(t, i + 1)) \o r[i + 2].value /\ r[i].at = r[i + 2].at
  BY <1>8, <1>9, <1>10, Zenon
<1>13. i <= Len(t) /\ t[i] \notin {Quote, Backslash} =>
         r[i].value = Cons(t[i], r[i + 1].value) /\ r[i].at = r[i + 1].at
  BY <1>8, <1>11, Zenon
<1> QED BY <1>6, <1>7, <1>12, <1>13, Zenon DEF StringAt

\* A string ends after where it begins.
LEMMA ParseStringIs ==
  ASSUME NEW t \in Seq(Symbol), NEW p \in 1 .. Len(t) + 1
  PROVE  /\ ParseString(t, p).how = "returned"
         /\ ParseString(t, p).value \in Seq(Symbol)
         /\ ParseString(t, p).at \in p + 1 .. Len(t) + 2
         /\ ParseString(t, p) = Returns(ParseString(t, p).value, ParseString(t, p).at)
<1> DEFINE r == StringRests(t)
           i == p + 1
<1>1. i \in 1 .. Len(t) + 2
  OBVIOUS
<1> HIDE DEF r, i
<1>2. StringAt(r, t, i)
  BY <1>1, StringStep DEF r
<1>3. ParseString(t, p) = r[i]
  BY DEF ParseString, r, i
<1> QED BY <1>2, <1>3 DEF StringAt, Returns, i

\* A text that has another one from some place on.
Holds(t, p, w) == p + Len(w) - 1 <= Len(t) /\ \A i \in 1 .. Len(w) : t[p + i - 1] = w[i]

\* A text of two parts is held where its parts are held one after the other.
LEMMA HoldsConcat ==
  ASSUME NEW t \in Seq(Symbol), NEW p \in Nat \ {0}, NEW u \in Seq(Symbol), NEW v \in Seq(Symbol)
  PROVE  /\ u \o v \in Seq(Symbol) /\ Len(u \o v) = Len(u) + Len(v)
         /\ Holds(t, p, u \o v) <=> Holds(t, p, u) /\ Holds(t, p + Len(u), v)
<1>0. Len(t) \in Nat /\ Len(u) \in Nat /\ Len(v) \in Nat
  OBVIOUS
<1>1. /\ u \o v \in Seq(Symbol)
      /\ Len(u \o v) = Len(u) + Len(v)
      /\ \A i \in 1 .. Len(u) + Len(v) :
           (u \o v)[i] = IF i <= Len(u) THEN u[i] ELSE v[i - Len(u)]
  BY ConcatProperties
<1> DEFINE w == u \o v
<1>2. /\ w \in Seq(Symbol)
      /\ Len(w) = Len(u) + Len(v)
      /\ \A i \in 1 .. Len(u) : w[i] = u[i]
      /\ \A i \in 1 .. Len(v) : w[Len(u) + i] = v[i]
  BY <1>0, <1>1
<1> HIDE DEF w
<1>3. ASSUME Holds(t, p, w) PROVE Holds(t, p, u) /\ Holds(t, p + Len(u), v)
  <2>1. \A i \in 1 .. Len(v) : t[p + (Len(u) + i) - 1] = w[Len(u) + i]
    BY <1>0, <1>2, <1>3 DEF Holds
  <2>2. \A i \in 1 .. Len(v) : t[(p + Len(u)) + i - 1] = v[i]
    BY <1>0, <1>2, <2>1
  <2>3. \A i \in 1 .. Len(u) : i \in 1 .. Len(w)
    BY <1>0, <1>2
  <2>4. \A i \in 1 .. Len(u) : t[p + i - 1] = u[i]
    BY <1>2, <1>3, <2>3, Zenon DEF Holds
  <2>5. p + Len(w) - 1 <= Len(t)
    BY <1>3 DEF Holds
  <2>6. p + Len(u) - 1 <= Len(t) /\ p + Len(u) + Len(v) - 1 <= Len(t)
    BY <1>0, <1>2, <2>5
  <2> QED BY <2>2, <2>4, <2>6 DEF Holds
<1>4. ASSUME Holds(t, p, u), Holds(t, p + Len(u), v) PROVE Holds(t, p, w)
  <2>1. ASSUME NEW i \in 1 .. Len(w) PROVE t[p + i - 1] = w[i]
    <3>1. CASE i <= Len(u)
      BY <1>0, <1>2, <1>4, <3>1 DEF Holds
    <3>2. CASE i > Len(u)
      <4> DEFINE j == i - Len(u)
      <4>1. j \in 1 .. Len(v) /\ i = Len(u) + j
        BY <1>0, <1>2, <3>2
      <4>2. t[(p + Len(u)) + j - 1] = v[j]
        BY <1>4, <4>1, Zenon DEF Holds
      <4>3. (p + Len(u)) + j - 1 = p + i - 1
        BY <1>0, <4>1
      <4> QED BY <1>2, <4>1, <4>2, <4>3, Zenon
    <3> QED BY <1>0, <1>2, <3>1, <3>2
  <2>2. p + Len(w) - 1 <= Len(t)
    BY <1>0, <1>2, <1>4 DEF Holds
  <2> QED BY <2>1, <2>2 DEF Holds
<1> QED BY <1>1, <1>3, <1>4 DEF w

\* A text of one symbol.
LEMMA HoldsOne ==
  ASSUME NEW t \in Seq(Symbol), NEW p \in Nat \ {0}, NEW c
  PROVE  /\ Len(<<c>>) = 1
         /\ Holds(t, p, <<c>>) <=> p <= Len(t) /\ t[p] = c
<1>1. Len(<<c>>) = 1 /\ <<c>>[1] = c /\ Len(t) \in Nat
  OBVIOUS
<1> DEFINE w == <<c>>
<1> HIDE DEF w
<1>2. Len(w) = 1 /\ w[1] = c
  BY <1>1 DEF w
<1>3. Holds(t, p, w) <=> p <= Len(t) /\ t[p] = c
  <2>1. 1 .. Len(w) = {1} /\ p + 1 - 1 = p
    BY <1>2
  <2> QED BY <1>1, <1>2, <2>1 DEF Holds
<1> QED BY <1>2, <1>3 DEF w

\* What holds at the end of a string of symbols, and with one more in front, holds
\* of all.
LEMMA StringInduction ==
  ASSUME NEW T, <<>> \in T,
         \A c \in Symbol, s \in Seq(Symbol) : s \in T => <<c>> \o s \in T
  PROVE  Seq(Symbol) \subseteq T
<1> DEFINE S == {n \in Nat : \A s \in Seq(Symbol) : Len(s) = n => s \in T}
<1>1. 0 \in S
  BY EmptySeq
<1>2. ASSUME NEW n \in Nat \ {0}, n - 1 \in S PROVE n \in S
  <2> SUFFICES ASSUME NEW s \in Seq(Symbol), Len(s) = n PROVE s \in T
    OBVIOUS
  <2>1. s # <<>>
    BY <1>2
  <2>2. Head(s) \in Symbol /\ Tail(s) \in Seq(Symbol) /\ Len(Tail(s)) = n - 1
    BY <2>1, HeadTailProperties
  <2>3. <<Head(s)>> \o Tail(s) = s
    BY <2>1, HeadTailProperties, ConcatProperties
  <2>4. Tail(s) \in T
    BY <1>2, <2>2, Zenon
  <2> QED BY <2>2, <2>3, <2>4, Zenon
<1>3. \A n \in Nat : n \in S
  <2> HIDE DEF S
  <2> QED BY <1>1, <1>2, SetInduction
<1> QED BY <1>3

-----------------------------------------------------------------------------
(* Sanitizing, from each symbol on.                                        *)

\* What ToString writes for a symbol of a string.
Shown(c) ==
  IF c = Quote THEN <<Backslash, Quote>> ELSE IF c = "\n" THEN <<Backslash, "n">> ELSE <<c>>

\* A symbol in front of a text.
LEMMA InFront ==
  ASSUME NEW c \in Symbol, NEW s \in Seq(Symbol)
  PROVE  /\ Cons(c, s) \in Seq(Symbol) /\ Len(Cons(c, s)) = Len(s) + 1
         /\ Cons(c, s)[1] = c
         /\ \A i \in 1 .. Len(s) : Cons(c, s)[i + 1] = s[i]
<1>1. <<c>> \in Seq(Symbol) /\ Len(<<c>>) = 1 /\ <<c>>[1] = c
  OBVIOUS
<1>2. Len(s) \in Nat
  OBVIOUS
<1> DEFINE u == <<c>>
<1> HIDE DEF u
<1>3. u \in Seq(Symbol) /\ Len(u) = 1 /\ u[1] = c
  BY <1>1 DEF u
<1>4. /\ u \o s \in Seq(Symbol)
      /\ Len(u \o s) = Len(u) + Len(s)
      /\ \A i \in 1 .. Len(u) + Len(s) :
           (u \o s)[i] = IF i <= Len(u) THEN u[i] ELSE s[i - Len(u)]
  BY <1>3, ConcatProperties, Zenon
<1>5. (u \o s)[1] = c /\ Len(u \o s) = Len(s) + 1
  BY <1>2, <1>3, <1>4
<1>6. \A i \in 1 .. Len(s) : (u \o s)[i + 1] = s[i]
  BY <1>2, <1>3, <1>4
<1> QED BY <1>4, <1>5, <1>6 DEF u, Cons

\* Replacing, one step of it.
ReplacingAt(r, str, symbol, rep, width, i) ==
  /\ r[i] \in Seq(Symbol)
  /\ i > Len(str) => r[i] = <<>>
  /\ i <= Len(str) /\ str[i] = symbol => r[i] = rep \o r[i + width]
  /\ i <= Len(str) /\ str[i] # symbol => r[i] = Cons(str[i], r[i + 1])

\* Replacing is so everywhere.
LEMMA ReplacingStep ==
  ASSUME NEW str \in Seq(Symbol), NEW symbol, NEW rep \in Seq(Symbol), NEW width \in {1, 2},
         NEW i \in 1 .. Len(str) + 2
  PROVE  ReplacingAt(Replacing(str, symbol, rep, width), str, symbol, rep, width, i)
<1> DEFINE r == Replacing(str, symbol, rep, width)
<1>1. r \in [1 .. Len(str) + 2 -> Seq(Symbol)]
  BY ReplacingIs
<1>2. r[i] = IF i > Len(str) THEN <<>> ELSE IF str[i] = symbol THEN rep \o r[i + width] ELSE <<str[i]>> \o r[i + 1]
  BY ReplacingIs
<1>0. Len(str) \in Nat /\ i \in Nat
  OBVIOUS
<1> HIDE DEF r
<1>3. r[i] \in Seq(Symbol)
  BY <1>1
<1>4. i > Len(str) => r[i] = <<>>
  BY <1>2
<1>5. i <= Len(str) /\ str[i] = symbol => r[i] = rep \o r[i + width]
  BY <1>0, <1>2
<1>6. i <= Len(str) /\ str[i] # symbol => r[i] = Cons(str[i], r[i + 1])
  BY <1>0, <1>2 DEF Cons
<1> QED BY <1>3, <1>4, <1>5, <1>6 DEF r, ReplacingAt

\* A symbol in front moves what follows it.
LEMMA ReplacingMoves ==
  ASSUME NEW c \in Symbol, NEW s \in Seq(Symbol), NEW symbol, NEW rep \in Seq(Symbol),
         NEW width \in {1, 2}
  PROVE  \A i \in 1 .. Len(s) + 2 :
           Replacing(Cons(c, s), symbol, rep, width)[i + 1] = Replacing(s, symbol, rep, width)[i]
<1> DEFINE w == Cons(c, s)
           f == Replacing(w, symbol, rep, width)
           g == Replacing(s, symbol, rep, width)
           T == {i \in 1 .. Len(s) + 2 : f[i + 1] = g[i]}
<1>0. Len(s) \in Nat /\ Len(s) + 2 \in Nat
  OBVIOUS
<1>1. /\ w \in Seq(Symbol) /\ Len(w) = Len(s) + 1
      /\ \A i \in 1 .. Len(s) : w[i + 1] = s[i]
  BY InFront
<1> HIDE DEF w
<1>2. ASSUME NEW i \in 1 .. Len(s) + 2, \A j \in 1 .. Len(s) + 2 : j > i => j \in T
      PROVE  i \in T
  <2>1. i + 1 \in 1 .. Len(w) + 2
    BY <1>0, <1>1
  <2>2. ReplacingAt(g, s, symbol, rep, width, i)
    BY ReplacingStep
  <2>3. ReplacingAt(f, w, symbol, rep, width, i + 1)
    BY <1>1, <2>1, ReplacingStep
  <2> HIDE DEF f, g
  <2>4. CASE i > Len(s)
    BY <1>0, <1>1, <2>2, <2>3, <2>4 DEF ReplacingAt
  <2>5. CASE i <= Len(s)
    <3>1. i + width \in T /\ i + 1 \in T
      BY <1>0, <1>2, <2>5
    <3>2. f[i + 1 + width] = g[i + width] /\ f[i + 1 + 1] = g[i + 1]
      <4>1. i + 1 + width = (i + width) + 1
        BY <1>0
      <4> QED BY <3>1, <4>1
    <3>3. i \in 1 .. Len(s) /\ w[i + 1] = s[i] /\ i + 1 <= Len(w)
      BY <1>0, <1>1, <2>5
    <3> QED BY <2>2, <2>3, <2>5, <3>2, <3>3, Zenon DEF ReplacingAt
  <2> QED BY <1>0, <2>4, <2>5
<1>3. \A i \in 1 .. Len(s) + 2 : i \in T
  <2> HIDE DEF T
  <2> QED BY <1>0, <1>2, Downward, Zenon
<1> QED BY <1>3 DEF w

\* A symbol that is not replaced stays in front.
LEMMA ReplaceCons ==
  ASSUME NEW c \in Symbol, NEW s \in Seq(Symbol), NEW symbol, NEW rep \in Seq(Symbol),
         NEW width \in {1, 2}
  PROVE  /\ Replace(s, symbol, rep, width) \in Seq(Symbol)
         /\ Replace(<<>>, symbol, rep, width) = <<>>
         /\ c # symbol => Replace(Cons(c, s), symbol, rep, width) = Cons(c, Replace(s, symbol, rep, width))
<1> DEFINE w == Cons(c, s)
           f == Replacing(w, symbol, rep, width)
           g == Replacing(s, symbol, rep, width)
<1>0. Len(s) \in Nat /\ 1 \in 1 .. Len(s) + 2 /\ 2 \in 1 .. Len(s) + 2
  OBVIOUS
<1>1. w \in Seq(Symbol) /\ Len(w) = Len(s) + 1 /\ w[1] = c
  BY InFront
<1>2. g[1] \in Seq(Symbol) /\ (s = <<>> => g[1] = <<>> /\ g[2] = <<>>)
  <2>1. ReplacingAt(g, s, symbol, rep, width, 1) /\ ReplacingAt(g, s, symbol, rep, width, 2)
    BY <1>0, ReplacingStep
  <2>2. s = <<>> => Len(s) = 0
    OBVIOUS
  <2> HIDE DEF g
  <2> QED BY <2>1, <2>2 DEF ReplacingAt
<1>3. Replace(<<>>, symbol, rep, width) = <<>>
  <2> DEFINE e == <<>>
             h == Replacing(e, symbol, rep, width)
  <2>1. e \in Seq(Symbol) /\ Len(e) = 0 /\ 1 \in 1 .. Len(e) + 2
    BY EmptyText
  <2> HIDE DEF e
  <2>2. ReplacingAt(h, e, symbol, rep, width, 1)
    BY <2>1, ReplacingStep, Zenon
  <2> HIDE DEF h
  <2>3. h[1] = <<>>
    BY <2>1, <2>2 DEF ReplacingAt
  <2> QED BY <2>3 DEF Replace, e, h
<1>4. f[1 + 1] = g[1] /\ f[2 + 1] = g[2]
  BY <1>0, ReplacingMoves
<1> HIDE DEF w
<1>5. ReplacingAt(f, w, symbol, rep, width, 1)
  <2>1. 1 \in 1 .. Len(w) + 2
    BY <1>0, <1>1
  <2> QED BY <1>1, <2>1, ReplacingStep
<1>6. Replace(w, symbol, rep, width) = f[1] /\ Replace(s, symbol, rep, width) = g[1]
  BY DEF Replace
<1>7. 1 <= Len(w)
  BY <1>0, <1>1
<1> HIDE DEF f, g
<1>9. c # symbol => f[1] = Cons(c, g[1])
  BY <1>1, <1>4, <1>5, <1>7 DEF ReplacingAt
<1> QED BY <1>2, <1>3, <1>6, <1>9 DEF w

\* Replacing makes texts of texts.
LEMMA ReplaceType ==
  ASSUME NEW s \in Seq(Symbol), NEW symbol, NEW rep \in Seq(Symbol), NEW width \in {1, 2}
  PROVE  /\ Replace(s, symbol, rep, width) \in Seq(Symbol)
         /\ Replace(<<>>, symbol, rep, width) = <<>>
<1>1. Quote \in Symbol
  BY Literals
<1> QED BY <1>1, ReplaceCons

\* A symbol that is not replaced.
LEMMA ReplaceOther ==
  ASSUME NEW c \in Symbol, NEW s \in Seq(Symbol), NEW symbol, NEW rep \in Seq(Symbol),
         NEW width \in {1, 2}, c # symbol
  PROVE  Replace(Cons(c, s), symbol, rep, width) = Cons(c, Replace(s, symbol, rep, width))
BY ReplaceCons

\* A symbol that is replaced, if none after it is dropped.
LEMMA ReplaceFound ==
  ASSUME NEW c \in Symbol, NEW s \in Seq(Symbol), NEW rep \in Seq(Symbol),
         NEW width \in {1, 2}, width = 1 \/ s = <<>>
  PROVE  Replace(Cons(c, s), c, rep, width) = rep \o Replace(s, c, rep, width)
<1> DEFINE symbol == c
<1> HIDE DEF symbol
<1> DEFINE w == Cons(c, s)
           f == Replacing(w, symbol, rep, width)
           g == Replacing(s, symbol, rep, width)
<1>0. Len(s) \in Nat /\ 1 \in 1 .. Len(s) + 2 /\ 2 \in 1 .. Len(s) + 2
  OBVIOUS
<1>1. w \in Seq(Symbol) /\ Len(w) = Len(s) + 1 /\ w[1] = c
  BY InFront
<1>2. g[1] \in Seq(Symbol) /\ (s = <<>> => g[1] = <<>> /\ g[2] = <<>>)
  <2>1. ReplacingAt(g, s, symbol, rep, width, 1) /\ ReplacingAt(g, s, symbol, rep, width, 2)
    BY <1>0, ReplacingStep
  <2>2. s = <<>> => Len(s) = 0
    OBVIOUS
  <2> HIDE DEF g
  <2> QED BY <2>1, <2>2 DEF ReplacingAt
<1>4. f[1 + 1] = g[1] /\ f[2 + 1] = g[2]
  BY <1>0, ReplacingMoves
<1> HIDE DEF w
<1>5. ReplacingAt(f, w, symbol, rep, width, 1)
  <2>1. 1 \in 1 .. Len(w) + 2
    BY <1>0, <1>1
  <2> QED BY <1>1, <2>1, ReplacingStep
<1>6. Replace(w, symbol, rep, width) = f[1] /\ Replace(s, symbol, rep, width) = g[1]
  BY DEF Replace
<1>7. 1 <= Len(w)
  BY <1>0, <1>1
<1> HIDE DEF f, g
<1>8. ASSUME c = symbol, width = 1 \/ s = <<>> PROVE f[1] = rep \o g[1]
  <2>1. f[1] = rep \o f[1 + width]
    BY <1>1, <1>5, <1>7, <1>8 DEF ReplacingAt
  <2>2. f[1 + width] = g[1]
    BY <1>2, <1>4, <1>8
  <2> QED BY <2>1, <2>2
<1>9. c = symbol
  BY DEF symbol
<1> QED BY <1>6, <1>8, <1>9, Zenon DEF w

\* Sanitizing takes one symbol after the other if it need not take two.
LEMMA SanitizedCons ==
  ASSUME NEW c \in Symbol, NEW s \in Seq(Symbol), NEW width \in {1, 2}
  PROVE  /\ Sanitized(s, width) \in Seq(Symbol)
         /\ Sanitized(<<>>, width) = <<>>
         /\ width = 1 \/ s = <<>> \/ c \notin {Quote, "\n"} =>
              Sanitized(Cons(c, s), width) = Shown(c) \o Sanitized(s, width)
<1> DEFINE rep1 == <<Backslash, Quote>>
           rep2 == <<Backslash, "n">>
           line == "\n"
           R1(u) == Replace(u, Quote, rep1, width)
           R2(u) == Replace(u, line, rep2, width)
<1>0. rep1 \in Seq(Symbol) /\ rep2 \in Seq(Symbol) /\ Quote \in Symbol /\ Backslash \in Symbol /\ line \in Symbol
  <2>1. {Quote, Backslash, "\n", "n"} \subseteq Symbol
    BY Literals
  <2> QED BY <2>1
<1>4. Quote # line /\ Backslash # line
  BY DEF Quote, Backslash
<1>6. \A u \in Seq(Symbol) : rep1 \o u = Cons(Backslash, Cons(Quote, u))
  BY <1>0 DEF Cons
<1>7. Shown(c) = IF c = Quote THEN rep1 ELSE IF c = line THEN rep2 ELSE <<c>>
  BY DEF Shown
<1>1. \A u : Sanitized(u, width) = R2(R1(u))
  BY DEF Sanitized
<1> HIDE DEF rep1, rep2, line
<1>2. R1(s) \in Seq(Symbol) /\ R1(<<>>) = <<>>
  BY <1>0, ReplaceType
<1>3. R2(R1(s)) \in Seq(Symbol) /\ R2(<<>>) = <<>>
  <2> HIDE DEF R1
  <2>1. R2(R1(s)) \in Seq(Symbol)
    BY <1>0, <1>2, ReplaceType
  <2>2. R2(<<>>) = <<>>
    BY <1>0, <1>2, ReplaceType
  <2> QED BY <2>1, <2>2
<1>5. ASSUME width = 1 \/ s = <<>> \/ c \notin {Quote, line}
      PROVE  R2(R1(Cons(c, s))) = Shown(c) \o R2(R1(s))
  <2>1. CASE c = Quote
    <3>1. R1(Cons(c, s)) = rep1 \o R1(s)
      BY <1>0, <1>5, <2>1, ReplaceFound, ZenonT(120)
    <3>2. rep1 \o R1(s) = Cons(Backslash, Cons(Quote, R1(s)))
      BY <1>2, <1>6
    <3>3. Cons(Quote, R1(s)) \in Seq(Symbol)
      BY <1>0, <1>2, InFront
    <3>4. R2(Cons(Backslash, Cons(Quote, R1(s)))) = Cons(Backslash, R2(Cons(Quote, R1(s))))
      BY <1>0, <1>4, <3>3, ReplaceOther
    <3>5. R2(Cons(Quote, R1(s))) = Cons(Quote, R2(R1(s)))
      BY <1>0, <1>2, <1>4, ReplaceOther
    <3>6. rep1 \o R2(R1(s)) = Cons(Backslash, Cons(Quote, R2(R1(s))))
      BY <1>3, <1>6
    <3>7. Shown(c) = rep1
      BY <1>7, <2>1
    <3> HIDE DEF R1, R2
    <3> QED BY <3>1, <3>2, <3>4, <3>5, <3>6, <3>7
  <2>2. CASE c # Quote
    <3>1. R1(Cons(c, s)) = Cons(c, R1(s))
      BY <1>0, <2>2, ReplaceOther
    <3>2. CASE c = line
      <4>1. width = 1 \/ R1(s) = <<>>
        BY <1>2, <1>5, <3>2
      <4>2. R2(Cons(c, R1(s))) = rep2 \o R2(R1(s))
        <5>1. Replace(Cons(c, R1(s)), c, rep2, width) = rep2 \o Replace(R1(s), c, rep2, width)
          <6> HIDE DEF R1
          <6> QED BY <1>0, <1>2, <4>1, ReplaceFound, ZenonT(30)
        <5> QED BY <3>2, <5>1
      <4>3. Shown(c) = rep2
        BY <1>7, <2>2, <3>2
      <4> HIDE DEF R1, R2
      <4> QED BY <3>1, <4>2, <4>3
    <3>3. CASE c # line
      <4>1. R2(Cons(c, R1(s))) = Cons(c, R2(R1(s)))
        BY <1>0, <1>2, <3>3, ReplaceOther
      <4>2. Shown(c) = <<c>>
        BY <1>7, <2>2, <3>3
      <4> HIDE DEF R1, R2
      <4> QED BY <3>1, <4>1, <4>2, Zenon DEF Cons
    <3> QED BY <3>2, <3>3
  <2> QED BY <2>1, <2>2
<1> HIDE DEF R1, R2
<1> QED BY <1>1, <1>2, <1>3, <1>5, Zenon DEF line

-----------------------------------------------------------------------------
(* Strings are read back.                                                  *)

\* A string is read as in a text of its own if it ends there.
LEMMA StringIsLocal ==
  ASSUME NEW u \in Seq(Symbol), NEW t \in Seq(Symbol), NEW p \in Nat \ {0}, Holds(t, p, u)
  PROVE  \A i \in 1 .. Len(u) + 2 :
           StringRests(u)[i].at <= Len(u) =>
             StringRests(t)[p + i - 1] = Returns(StringRests(u)[i].value, StringRests(u)[i].at + p - 1)
<1> DEFINE f == StringRests(u)
           g == StringRests(t)
           D == 1 .. Len(u) + 2
           T == {i \in D : f[i].at <= Len(u) => g[p + i - 1] = Returns(f[i].value, f[i].at + p - 1)}
<1>0. Len(u) \in Nat /\ Len(t) \in Nat /\ Len(u) + 2 \in Nat
  OBVIOUS
<1>1. ASSUME NEW i \in D, \A j \in D : j > i => j \in T PROVE i \in T
  <2> SUFFICES ASSUME f[i].at <= Len(u) PROVE g[p + i - 1] = Returns(f[i].value, f[i].at + p - 1)
    OBVIOUS
  <2>1. StringAt(f, u, i)
    BY StringStep
  <2>2. p + Len(u) - 1 <= Len(t) /\ \A j \in 1 .. Len(u) : t[p + j - 1] = u[j]
    BY DEF Holds
  <2> DEFINE q == p + i - 1
  <2>3. q \in 1 .. Len(t) + 2 /\ q \in Nat
    BY <1>0, <2>2
  <2>4. StringAt(g, t, q)
    BY <2>3, StringStep
  <2>5. f[i].at \in i .. Len(u) + 2
    BY <2>1 DEF StringAt
  <2>6. i <= Len(u)
    BY <1>0, <2>5
  <2>7. t[q] = u[i] /\ q <= Len(t)
    BY <1>0, <2>2, <2>6
  <2>8. q + 1 = p + (i + 1) - 1 /\ q + 2 = p + (i + 2) - 1 /\ i + 1 \in D /\ i + 2 \in D
    BY <1>0, <2>6
  <2>13. i \in Nat /\ i + 1 > i /\ i + 2 > i /\ q = p + i - 1
    BY <1>0
  <2>9. g[q] = Returns(g[q].value, g[q].at)
    BY <2>4 DEF StringAt
  <2> HIDE DEF q, f, g, D
  <2>10. CASE u[i] = Quote
    <3>1. f[i].value = <<>> /\ f[i].at = i
      BY <2>1, <2>10 DEF StringAt
    <3>2. g[q].value = <<>> /\ g[q].at = q
      BY <2>4, <2>7, <2>10 DEF StringAt
    <3> QED BY <2>9, <2>13, <3>1, <3>2
  <2>11. CASE u[i] = Backslash
    <3>1. f[i].value = Escape(At(u, i + 1)) \o f[i + 2].value /\ f[i].at = f[i + 2].at
      BY <2>1, <2>6, <2>11, Zenon DEF StringAt
    <3>2. g[q].value = Escape(At(t, q + 1)) \o g[q + 2].value /\ g[q].at = g[q + 2].at
      BY <2>4, <2>7, <2>11, Zenon DEF StringAt
    <3>3. i + 2 \in T
      BY <1>1, <2>8, <2>13
    <3>4. f[i + 2].at \in i + 2 .. Len(u) + 2
      <4>1. StringAt(f, u, i + 2)
        BY <2>8, StringStep DEF f, D
      <4> QED BY <4>1 DEF StringAt
    <3>5. i + 2 <= Len(u)
      <4>1. f[i + 2].at <= Len(u)
        BY <3>1 DEF f
      <4> QED BY <1>0, <2>13, <3>4, <4>1
    <3>6. g[q + 2] = Returns(f[i + 2].value, f[i + 2].at + p - 1)
      BY <2>8, <3>1, <3>3
    <3>7. At(u, i + 1) = At(t, q + 1)
      <4>1. i + 1 \in 1 .. Len(u) /\ p + (i + 1) - 1 = q + 1 /\ q + 1 <= Len(t)
        BY <1>0, <2>2, <2>13, <3>5
      <4>2. t[q + 1] = u[i + 1]
        BY <2>2, <4>1
      <4> QED BY <4>1, <4>2 DEF At
    <3>9. g[q + 2].value = f[i + 2].value /\ g[q + 2].at = f[i + 2].at + p - 1
      BY <3>6, ReturnsIs
    <3>8. g[q].value = f[i].value /\ g[q].at = f[i].at + p - 1
      BY <3>1, <3>2, <3>9, <3>7, Zenon
    <3> QED BY <2>9, <3>8 DEF q
  <2>12. CASE u[i] \notin {Quote, Backslash}
    <3>1. f[i].value = Cons(u[i], f[i + 1].value) /\ f[i].at = f[i + 1].at
      BY <2>1, <2>6, <2>12 DEF StringAt
    <3>2. g[q].value = Cons(t[q], g[q + 1].value) /\ g[q].at = g[q + 1].at
      BY <2>4, <2>7, <2>12 DEF StringAt
    <3>3. i + 1 \in T
      BY <1>1, <2>8, <2>13, Zenon
    <3>6. g[q + 1] = Returns(f[i + 1].value, f[i + 1].at + p - 1)
      BY <2>8, <3>1, <3>3
    <3>8. g[q].value = f[i].value /\ g[q].at = f[i].at + p - 1
      BY <2>7, <3>1, <3>2, <3>6, ReturnsIs
    <3> QED BY <2>9, <3>8 DEF q
  <2> QED BY <2>10, <2>11, <2>12
<1>2. \A i \in 1 .. Len(u) + 2 : i \in T
  <2> HIDE DEF T
  <2> QED BY <1>0, <1>1, Downward, Zenon DEF D
<1> QED BY <1>2

\* What is shown for a symbol is read as that symbol.
LEMMA ShownIsRead ==
  ASSUME NEW t \in Seq(Symbol), NEW q \in 1 .. Len(t), NEW c \in Symbol \ {Backslash},
         Holds(t, q, Shown(c))
  PROVE  /\ Shown(c) \in Seq(Symbol) /\ Len(Shown(c)) \in {1, 2}
         /\ q + Len(Shown(c)) \in 1 .. Len(t) + 2
         /\ StringRests(t)[q].value = Cons(c, StringRests(t)[q + Len(Shown(c))].value)
         /\ StringRests(t)[q].at = StringRests(t)[q + Len(Shown(c))].at
<1> DEFINE r == StringRests(t)
           line == "\n"
           n == "n"
<1>0. Len(t) \in Nat
  OBVIOUS
<1>1. StringAt(r, t, q)
  <2>1. q \in 1 .. Len(t) + 2
    BY <1>0
  <2> QED BY <2>1, StringStep
<1>2. {Quote, Backslash, line, n} \subseteq Symbol
  BY Literals
<1>3. Escape(Quote) = <<Quote>> /\ Escape(n) = <<line>>
  BY DEF Escape, Quote
<1>4. Backslash # Quote /\ line # Quote
  BY DEF Backslash, Quote
<1>5. Shown(c) = IF c = Quote THEN <<Backslash, Quote>> ELSE IF c = line THEN <<Backslash, n>> ELSE <<c>>
  BY DEF Shown
<1> HIDE DEF r, line, n
<1>6. ASSUME NEW d \in Symbol, NEW e \in Symbol, Shown(c) = <<Backslash, e>>, Escape(e) = <<d>>
      PROVE  /\ Shown(c) \in Seq(Symbol) /\ Len(Shown(c)) = 2 /\ q + 2 \in 1 .. Len(t) + 2
             /\ r[q].value = Cons(d, r[q + 2].value) /\ r[q].at = r[q + 2].at
  <2>1. Shown(c) \in Seq(Symbol) /\ Len(Shown(c)) = 2 /\ Shown(c)[1] = Backslash /\ Shown(c)[2] = e
    BY <1>2, <1>6
  <2>2. q + 2 - 1 <= Len(t) /\ t[q + 1 - 1] = Backslash /\ t[q + 2 - 1] = e
    BY <2>1 DEF Holds
  <2>3. t[q] = Backslash /\ At(t, q + 1) = e /\ q + 2 \in 1 .. Len(t) + 2
    BY <1>0, <2>2 DEF At
  <2>4. r[q].value = Escape(At(t, q + 1)) \o r[q + 2].value /\ r[q].at = r[q + 2].at
    <3>1. q <= Len(t)
      BY <1>0
    <3> QED BY <1>1, <2>3, <3>1, Zenon DEF StringAt
  <2> QED BY <1>6, <2>1, <2>3, <2>4, Zenon DEF Cons
<1>7. CASE c = Quote
  BY <1>2, <1>3, <1>5, <1>6, <1>7 DEF r
<1>8. CASE c # Quote /\ c = line
  BY <1>2, <1>3, <1>5, <1>6, <1>8 DEF r
<1>9. CASE c # Quote /\ c # line
  <2>1. Shown(c) = <<c>>
    BY <1>5, <1>9
  <2>2. Shown(c) \in Seq(Symbol) /\ Len(Shown(c)) = 1 /\ t[q] = c
    BY <2>1, HoldsOne
  <2>3. r[q].value = Cons(t[q], r[q + 1].value) /\ r[q].at = r[q + 1].at
    BY <1>1, <1>9, <2>2 DEF StringAt
  <2> QED BY <1>0, <2>2, <2>3 DEF r
<1> QED BY <1>7, <1>8, <1>9

\* A string that is kept is read as it was written.
LEMMA KeptIsRead ==
  ASSUME NEW t \in Seq(Symbol), NEW str \in Seq(Symbol), NEW width \in {1, 2},
         KeptString(str, width), NEW q \in Nat \ {0}, Holds(t, q, Sanitized(str, width)),
         q + Len(Sanitized(str, width)) <= Len(t), t[q + Len(Sanitized(str, width))] = Quote
  PROVE  StringRests(t)[q] = Returns(str, q + Len(Sanitized(str, width)))
<1> DEFINE r == StringRests(t)
           San(s) == Sanitized(s, width)
           Fits(s, p) == Holds(t, p, San(s)) /\ p + Len(San(s)) <= Len(t) /\ t[p + Len(San(s))] = Quote
           Good(s) == KeptString(s, width) =>
                        \A p \in Nat \ {0} : Fits(s, p) => r[p].value = s /\ r[p].at = p + Len(San(s))
           T == {s \in Seq(Symbol) : Good(s)}
<1>0. Len(t) \in Nat
  OBVIOUS
<1>1. <<>> \in Seq(Symbol) /\ San(<<>>) = <<>>
  <2>1. Quote \in Symbol
    BY Literals
  <2> QED BY <2>1, EmptyText, SanitizedCons
<1>2. \A p \in 1 .. Len(t) : StringAt(r, t, p)
  <2>1. \A p \in 1 .. Len(t) : p \in 1 .. Len(t) + 2
    BY <1>0
  <2> QED BY <2>1, StringStep
<1>3. <<>> \in T
  <2> SUFFICES ASSUME NEW p \in Nat \ {0}, Fits(<<>>, p) PROVE r[p].value = <<>> /\ r[p].at = p + Len(San(<<>>))
    BY <1>1
  <2>1. Len(San(<<>>)) = 0 /\ p \in 1 .. Len(t) /\ t[p] = Quote
    BY <1>0, <1>1
  <2>2. StringAt(r, t, p)
    BY <1>2, <2>1
  <2>3. r[p].value = <<>> /\ r[p].at = p
    BY <2>1, <2>2 DEF StringAt
  <2> QED BY <2>1, <2>3
<1>4. ASSUME NEW c \in Symbol, NEW s \in Seq(Symbol), s \in T PROVE <<c>> \o s \in T
  <2> DEFINE w == Cons(c, s)
  <2>1. /\ w \in Seq(Symbol) /\ Len(w) = Len(s) + 1 /\ w[1] = c
        /\ \A i \in 1 .. Len(s) : w[i + 1] = s[i]
    BY InFront
  <2>0. w = <<c>> \o s /\ Len(s) \in Nat
    BY DEF Cons
  <2> HIDE DEF w
  <2> SUFFICES ASSUME KeptString(w, width), NEW p \in Nat \ {0}, Fits(w, p)
               PROVE  r[p].value = w /\ r[p].at = p + Len(San(w))
    BY <2>0, <2>1, Zenon
  <2>2. c # Backslash
    BY <2>0, <2>1 DEF KeptString, Contains
  <2>3. KeptString(s, width)
    <3>1. ~Contains(s, Backslash)
      BY <2>0, <2>1 DEF KeptString, Contains
    <3>2. ASSUME width = 2, NEW i \in 1 .. Len(s) - 1 PROVE s[i] \notin {Quote, "\n"}
      <4>1. i + 1 \in 1 .. Len(w) - 1 /\ w[i + 1] = s[i]
        BY <2>0, <2>1
      <4> QED BY <3>2, <4>1, Zenon DEF KeptString
    <3> QED BY <3>1, <3>2 DEF KeptString
  <2>4. width = 1 \/ s = <<>> \/ c \notin {Quote, "\n"}
    <3> SUFFICES ASSUME width = 2, s # <<>> PROVE c \notin {Quote, "\n"}
      OBVIOUS
    <3>1. 1 \in 1 .. Len(w) - 1
      BY <2>0, <2>1, EmptySeq
    <3> QED BY <2>1, <3>1 DEF KeptString
  <2>5. San(w) = Shown(c) \o San(s)
    BY <2>4, SanitizedCons, Zenon DEF w
  <2>6. San(s) \in Seq(Symbol) /\ Shown(c) \in Seq(Symbol) /\ Len(Shown(c)) \in {1, 2}
    <3>1. San(s) \in Seq(Symbol)
      BY SanitizedCons
    <3>2. {Quote, Backslash, "\n", "n"} \subseteq Symbol
      BY Literals
    <3> QED BY <3>1, <3>2 DEF Shown
  <2> DEFINE q2 == p + Len(Shown(c))
  <2>7. /\ Holds(t, p, Shown(c)) /\ Holds(t, q2, San(s))
        /\ Len(San(w)) = Len(Shown(c)) + Len(San(s))
    BY <2>5, <2>6, HoldsConcat
  <2>8. q2 \in Nat \ {0} /\ q2 + Len(San(s)) = p + Len(San(w)) /\ Len(San(s)) \in Nat
    BY <2>6, <2>7
  <2>9. Fits(s, q2)
    BY <2>7, <2>8
  <2>10. r[q2].value = s /\ r[q2].at = q2 + Len(San(s))
    <3> HIDE DEF q2, Fits
    <3> QED BY <1>4, <2>3, <2>8, <2>9
  <2>11. p \in 1 .. Len(t)
    BY <1>0, <2>6, <2>8
  <2>12. r[p].value = Cons(c, r[q2].value) /\ r[p].at = r[q2].at
    BY <2>2, <2>7, <2>11, ShownIsRead
  <2> QED BY <2>8, <2>10, <2>12 DEF w
<1>5. Seq(Symbol) \subseteq T
  <2> HIDE DEF T
  <2> QED BY <1>3, <1>4, StringInduction
<1>6. Fits(str, q) /\ Good(str)
  BY <1>5
<1>7. r[q].value = str /\ r[q].at = q + Len(San(str))
  <2> HIDE DEF Fits
  <2> QED BY <1>6
<1>8. q \in 1 .. Len(t)
  <2>1. San(str) \in Seq(Symbol)
    <3>1. Quote \in Symbol
      BY Literals
    <3> QED BY <3>1, SanitizedCons
  <2>2. Len(San(str)) \in Nat
    BY <2>1
  <2> QED BY <1>0, <2>2
<1>9. StringAt(r, t, q)
  BY <1>2, <1>8
<1> QED BY <1>7, <1>9 DEF StringAt

-----------------------------------------------------------------------------
(* The functions of Parser are defined by each other.                      *)

\* What was read goes on from a place, and ends at most after the NUL.
Far(r, t, p) == r.how = "returned" => r.at \in p .. Len(t) + 2

\* Two functions agree on what is read after a place.
AgreeAfter(f, g, t, p) ==
  \A s \in ReadState, q \in p + 1 .. Len(t) + 1 : f[<<s, q>>] = g[<<s, q>>] /\ Far(f[<<s, q>>], t, q)

\* The states that Parser's functions are read in.
LEMMA StateNames ==
  {"FETCH_KEY", "FETCH_KEY_AFTER_COMMA", "FETCH_VALUE", "FIRST_ITEM", "NEXT_ITEM"} = ReadState
BY DEF ReadState

\* What does not return a value.
LEMMA ThrowsIs == Throws.how = "threw" /\ Undefined.how = "undefined"
BY DEF Throws, Undefined

\* What the loop of ParseArray makes of a text depends on what is read after its place.
LEMMA ItemsDepend ==
  ASSUME NEW t \in Seq(Symbol), NEW p \in 1 .. Len(t) + 1, NEW f, NEW g, AgreeAfter(f, g, t, p),
         f[<<"FETCH_VALUE", p>>] = g[<<"FETCH_VALUE", p>>], Far(f[<<"FETCH_VALUE", p>>], t, p),
         NEW s \in {"FIRST_ITEM", "NEXT_ITEM"}
  PROVE  MoreItems(f, t, s, p) = MoreItems(g, t, s, p) /\ Far(MoreItems(f, t, s, p), t, p)
<1> DEFINE val == f[<<"FETCH_VALUE", p>>]
           c == Past(t, val.at + 1, ArrayBlank)
           rest(h) == h[<<"NEXT_ITEM", c + 1>>]
           more(r) == IF At(t, p) = "]"
                        THEN IF s = "FIRST_ITEM" THEN Returns(<<>>, p) ELSE Throws
                      ELSE IF val.how # "returned" THEN val
                      ELSE IF val.at > Len(t) THEN Undefined
                      ELSE IF At(t, c) = "]" THEN Returns(<<val.value>>, c)
                      ELSE IF At(t, c) # Comma THEN Throws
                      ELSE IF r.how # "returned" THEN r
                      ELSE Returns(<<val.value>> \o r.value, r.at)
<1>0. Len(t) \in Nat
  OBVIOUS
<1>1. MoreItems(f, t, s, p) = more(rest(f)) /\ MoreItems(g, t, s, p) = more(rest(g))
  BY DEF MoreItems
<1>2. ASSUME val.how = "returned", val.at <= Len(t)
      PROVE  c \in p + 1 .. Len(t) + 1 /\ (c <= Len(t) => c + 1 \in p + 1 .. Len(t) + 1)
  <2>1. val.at \in p .. Len(t)
    BY <1>0, <1>2 DEF Far
  <2>2. val.at + 1 \in Nat \ {0} /\ val.at + 1 <= Len(t) + 1
    BY <1>0, <2>1
  <2>3. c \in 1 .. Len(t) + 1 /\ val.at + 1 <= c
    BY <2>2, PastIs
  <2> QED BY <1>0, <2>1, <2>3
<1>3. c \in Nat /\ c > Len(t) => At(t, c) # Comma /\ At(t, c) # "]"
  <2>1. c \in Nat /\ c > Len(t) => At(t, c) = "NUL"
    BY <1>0 DEF At
  <2> QED BY <2>1 DEF Comma
<1>4. ASSUME val.how = "returned", val.at <= Len(t), c <= Len(t)
      PROVE  rest(f) = rest(g) /\ Far(rest(f), t, c + 1)
  BY <1>2, <1>4, StateNames, Zenon DEF AgreeAfter
<1>5. Far(val, t, p)
  OBVIOUS
<1> HIDE DEF val, c, rest
<1>6. more(rest(f)) = more(rest(g))
  <2>1. CASE val.how = "returned" /\ val.at <= Len(t) /\ c <= Len(t)
    BY <1>4, <2>1
  <2>2. CASE val.how = "returned" /\ val.at <= Len(t) /\ c > Len(t)
    BY <1>2, <1>3, <2>2
  <2>3. CASE val.how = "returned" /\ val.at > Len(t)
    BY <2>3
  <2>4. CASE val.how # "returned"
    BY <2>4
  <2>5. val.how = "returned" => val.at \in Nat
    BY <1>0, <1>5 DEF Far
  <2>6. val.how = "returned" /\ val.at <= Len(t) => c \in Nat
    BY <1>0, <1>2
  <2> HIDE DEF more
  <2> QED BY <1>0, <2>1, <2>2, <2>3, <2>4, <2>5, <2>6
<1>7. Far(more(rest(f)), t, p)
  <2>0. p \in p .. Len(t) + 2
    BY <1>0
  <2>1. CASE At(t, p) = "]"
    BY <2>0, <2>1, ReturnsIs, ThrowsIs DEF Far
  <2>2. CASE At(t, p) # "]" /\ val.how # "returned"
    BY <1>5, <2>2 DEF Far
  <2>3. CASE At(t, p) # "]" /\ val.how = "returned" /\ val.at > Len(t)
    BY <2>3, ThrowsIs DEF Far
  <2>4. CASE At(t, p) # "]" /\ val.how = "returned" /\ val.at <= Len(t) /\ At(t, c) = "]"
    <3>1. more(rest(f)) = Returns(<<val.value>>, c)
      BY <1>0, <1>5, <2>4 DEF Far
    <3> HIDE DEF more
    <3>2. c \in p .. Len(t) + 2
      BY <1>0, <1>2, <2>4
    <3> QED BY <3>1, <3>2, ReturnsIs DEF Far
  <2>5. CASE At(t, p) # "]" /\ val.how = "returned" /\ val.at <= Len(t) /\ At(t, c) # "]" /\ At(t, c) # Comma
    <3>1. more(rest(f)) = Throws
      BY <1>0, <1>5, <2>5 DEF Far
    <3> HIDE DEF more
    <3> QED BY <3>1, ThrowsIs DEF Far
  <2>6. CASE At(t, p) # "]" /\ val.how = "returned" /\ val.at <= Len(t) /\ At(t, c) # "]" /\ At(t, c) = Comma
    <3>1. c <= Len(t) /\ c + 1 \in p + 1 .. Len(t) + 1
      BY <1>0, <1>2, <1>3, <2>6
    <3>2. Far(rest(f), t, c + 1)
      BY <1>4, <2>6, <3>1
    <3>3. more(rest(f)) = IF rest(f).how # "returned" THEN rest(f) ELSE Returns(<<val.value>> \o rest(f).value, rest(f).at)
      BY <1>0, <1>5, <2>6 DEF Far
    <3> HIDE DEF more
    <3>4. CASE rest(f).how # "returned"
      BY <3>3, <3>4 DEF Far
    <3>5. CASE rest(f).how = "returned"
      <4>1. rest(f).at \in p .. Len(t) + 2
        BY <1>0, <3>1, <3>2, <3>5 DEF Far
      <4>2. more(rest(f)) = Returns(<<val.value>> \o rest(f).value, rest(f).at)
        BY <3>3, <3>5
      <4> QED BY <4>1, <4>2, ReturnsIs DEF Far
    <3> QED BY <3>4, <3>5
  <2>7. val.how = "returned" => val.at \in Nat
    BY <1>0, <1>5 DEF Far
  <2> HIDE DEF more
  <2> QED BY <1>0, <2>1, <2>2, <2>3, <2>4, <2>5, <2>6, <2>7
<1> QED BY <1>1, <1>6, <1>7

\* So does what the loop of ParseObject makes of it.
LEMMA MembersDepend ==
  ASSUME NEW t \in Seq(Symbol), NEW p \in 1 .. Len(t) + 1, NEW f, NEW g, AgreeAfter(f, g, t, p),
         NEW s \in {"FETCH_KEY", "FETCH_KEY_AFTER_COMMA"}
  PROVE  MoreMembers(f, t, s, p) = MoreMembers(g, t, s, p) /\ Far(MoreMembers(f, t, s, p), t, p)
<1> DEFINE q == Past(t, p, Blank)
           key == ParseString(t, q)
           u == Until(t, key.at + 1, {":"})
           v == Past(t, u + 1, Blank)
           val(h) == h[<<"FETCH_VALUE", v>>]
           c == Past(t, val(f).at + 1, Blank)
           rest(h) == h[<<"FETCH_KEY_AFTER_COMMA", c + 1>>]
           end(x) == c > Len(t) \/ At(t, c) = RightBrace
           more(r) == IF At(t, q) = RightBrace /\ q <= Len(t)
                        THEN IF s = "FETCH_KEY" THEN Returns(Null, q) ELSE Throws
                      ELSE IF q <= Len(t) /\ At(t, q) # Quote THEN Throws
                      ELSE IF q > Len(t) \/ v > Len(t) THEN Returns(Null, Len(t) + 1)
                      ELSE IF val(f).how # "returned" THEN val(f)
                      ELSE IF c > Len(t) \/ At(t, c) = RightBrace
                        THEN Returns(PutBefore(key.value, val(f).value, Null), c)
                      ELSE IF At(t, c) # Comma THEN Throws
                      ELSE IF r.how # "returned" THEN r
                      ELSE Returns(PutBefore(key.value, val(f).value, r.value), r.at)
<1>0. Len(t) \in Nat
  OBVIOUS
<1>1. q \in 1 .. Len(t) + 1 /\ p <= q
  BY PastIs
<1>2. key.at \in q + 1 .. Len(t) + 2
  <2> HIDE DEF q
  <2> QED BY <1>1, ParseStringIs
<1>3. u \in 1 .. Len(t) + 1 /\ (key.at <= Len(t) => u >= key.at + 1)
  <2> HIDE DEF key, q
  <2>1. key.at + 1 \in Nat \ {0}
    BY <1>0, <1>1, <1>2
  <2> QED BY <1>0, <1>1, <1>2, <2>1, UntilIs
<1>4. v \in 1 .. Len(t) + 1 /\ (u <= Len(t) => v >= u + 1) /\ (u > Len(t) => v = Len(t) + 1)
  <2> HIDE DEF u
  <2>1. u + 1 \in Nat \ {0}
    BY <1>0, <1>3
  <2> QED BY <1>0, <1>3, <2>1, PastIs
<1>5. v <= Len(t) => v \in p + 1 .. Len(t) + 1
  <2> HIDE DEF q, key, u, v
  <2>1. key.at > Len(t) => u = Len(t) + 1
    BY <1>0, <1>1, <1>2, UntilIs DEF u
  <2> QED BY <1>0, <1>1, <1>2, <1>3, <1>4, <2>1
<1>6. v <= Len(t) => val(f) = val(g) /\ Far(val(f), t, v)
  <2> HIDE DEF v
  <2> QED BY <1>5, StateNames, Zenon DEF AgreeAfter
<1>7. ASSUME v <= Len(t), val(f).how = "returned"
      PROVE  c \in p + 1 .. Len(t) + 1 /\ (c <= Len(t) => c + 1 \in p + 1 .. Len(t) + 1)
  <2>1. val(f).at \in v .. Len(t) + 2
    BY <1>6, <1>7 DEF Far
  <2> HIDE DEF v
  <2>2. val(f).at + 1 \in Nat \ {0}
    BY <1>0, <1>4, <2>1
  <2> HIDE DEF val
  <2>3. /\ c \in 1 .. Len(t) + 1
        /\ val(f).at + 1 <= Len(t) + 1 => val(f).at + 1 <= c
        /\ val(f).at + 1 > Len(t) => c = Len(t) + 1
    BY <2>2, PastIs
  <2> HIDE DEF c
  <2> QED BY <1>0, <1>4, <1>5, <1>7, <2>1, <2>3
<1>8. ASSUME v <= Len(t), val(f).how = "returned", c <= Len(t)
      PROVE  rest(f) = rest(g) /\ Far(rest(f), t, c + 1)
  <2>1. c + 1 \in p + 1 .. Len(t) + 1
    BY <1>7, <1>8
  <2> HIDE DEF c
  <2> QED BY <2>1, StateNames DEF AgreeAfter
<1>9. MoreMembers(f, t, s, p) = more(rest(f))
  BY DEF MoreMembers
<1>10. MoreMembers(g, t, s, p) = more(rest(g))
  <2>1. CASE v <= Len(t)
    <3>1. val(f) = val(g)
      BY <1>6, <2>1
    <3> HIDE DEF q, v
    <3> QED BY <3>1 DEF MoreMembers, q, v
  <2>2. CASE v > Len(t)
    <3>1. MoreMembers(g, t, s, p) =
            IF At(t, q) = RightBrace /\ q <= Len(t)
                        THEN IF s = "FETCH_KEY" THEN Returns(Null, q) ELSE Throws
                      ELSE IF q <= Len(t) /\ At(t, q) # Quote THEN Throws
                      ELSE Returns(Null, Len(t) + 1)
      BY <2>2 DEF MoreMembers
    <3> HIDE DEF q, v, val, key, c, rest
    <3> QED BY <2>2, <3>1
  <2> HIDE DEF v
  <2> QED BY <1>0, <1>4, <2>1, <2>2
<1> DEFINE ends == c > Len(t) \/ At(t, c) = RightBrace
<1> HIDE DEF q, key, u, v, val, c, rest
<1>11. more(rest(f)) = more(rest(g))
  <2>1. CASE v <= Len(t) /\ val(f).how = "returned" /\ c <= Len(t)
    BY <1>8, <2>1
  <2>2. CASE v <= Len(t) /\ val(f).how = "returned" /\ c > Len(t)
    BY <2>2
  <2>3. CASE v <= Len(t) /\ val(f).how # "returned"
    BY <2>3
  <2>4. CASE v > Len(t)
    BY <2>4
  <2>5. v <= Len(t) /\ val(f).how = "returned" => c \in Nat
    BY <1>0, <1>7
  <2> HIDE DEF more
  <2> QED BY <1>0, <1>4, <2>1, <2>2, <2>3, <2>4, <2>5
<1>12. Far(more(rest(f)), t, p)
  <2> DEFINE Early == \/ At(t, q) = RightBrace /\ q <= Len(t)
                      \/ q <= Len(t) /\ At(t, q) # Quote
                      \/ q > Len(t) \/ v > Len(t)
  <2>0. q \in p .. Len(t) + 2 /\ Len(t) + 1 \in p .. Len(t) + 2
    BY <1>0, <1>1
  <2>1. CASE Early
    <3>1. more(rest(f)) \in {Returns(Null, q), Throws, Returns(Null, Len(t) + 1)}
      BY <2>1
    <3> HIDE DEF more
    <3> QED BY <2>0, <3>1, ReturnsIs, ThrowsIs DEF Far
  <2>2. CASE ~Early /\ val(f).how # "returned"
    <3>1. more(rest(f)) = val(f)
      BY <2>2
    <3> HIDE DEF more
    <3> QED BY <2>2, <3>1 DEF Far
  <2>3. CASE ~Early /\ val(f).how = "returned"
    <3>1. v <= Len(t)
      BY <1>0, <1>4, <2>3
    <3>2. c \in p + 1 .. Len(t) + 1 /\ (c <= Len(t) => c + 1 \in p + 1 .. Len(t) + 1)
      BY <1>7, <2>3, <3>1
    <3>3. CASE ends
      <4>1. more(rest(f)) = Returns(PutBefore(key.value, val(f).value, Null), c)
        BY <2>3, <3>3
      <4> HIDE DEF more
      <4>2. c \in p .. Len(t) + 2
        BY <1>0, <3>2
      <4> QED BY <4>1, <4>2, ReturnsIs DEF Far
    <3>4. CASE ~ends /\ At(t, c) # Comma
      <4>1. more(rest(f)) = Throws
        BY <2>3, <3>4
      <4> HIDE DEF more
      <4> QED BY <4>1, ThrowsIs DEF Far
    <3>5. CASE ~ends /\ At(t, c) = Comma
      <4>1. c <= Len(t)
        BY <1>0, <3>2, <3>5
      <4>2. Far(rest(f), t, c + 1)
        BY <1>8, <2>3, <3>1, <4>1
      <4>3. more(rest(f)) = IF rest(f).how # "returned" THEN rest(f)
                            ELSE Returns(PutBefore(key.value, val(f).value, rest(f).value), rest(f).at)
        BY <2>3, <3>5
      <4> HIDE DEF more
      <4>4. CASE rest(f).how # "returned"
        BY <4>3, <4>4 DEF Far
      <4>5. CASE rest(f).how = "returned"
        <5>1. rest(f).at \in p .. Len(t) + 2
          BY <1>0, <3>2, <4>1, <4>2, <4>5 DEF Far
        <5>2. more(rest(f)) = Returns(PutBefore(key.value, val(f).value, rest(f).value), rest(f).at)
          BY <4>3, <4>5
        <5> QED BY <5>1, <5>2, ReturnsIs DEF Far
      <4> QED BY <4>4, <4>5
    <3> QED BY <3>3, <3>4, <3>5
  <2> HIDE DEF Early, more
  <2> QED BY <2>1, <2>2, <2>3
<1> QED BY <1>9, <1>10, <1>11, <1>12

\* And what ParseValue does.
LEMMA ValueDepends ==
  ASSUME NEW t \in Seq(Symbol), NEW p \in 1 .. Len(t) + 1, NEW f, NEW g, AgreeAfter(f, g, t, p)
  PROVE  ParseValue(f, t, p) = ParseValue(g, t, p) /\ Far(ParseValue(f, t, p), t, p)
<1> DEFINE c == At(t, p)
<1>0. Len(t) \in Nat
  OBVIOUS
<1>1. c # "NUL" => p <= Len(t)
  BY DEF At
<1>2. ASSUME NEW type, NEW r PROVE Far(r, t, p) => Far(Typed(type, r), t, p)
  BY ReturnsIs DEF Far, Typed
<1>3. Far(ParseString(t, p), t, p)
  <2>1. ParseString(t, p).at \in p + 1 .. Len(t) + 2
    BY ParseStringIs
  <2> QED BY <1>0, <2>1 DEF Far
<1>4. ASSUME c \in {LeftBrace, "null"}
      PROVE  ParseObject(f, t, p) = ParseObject(g, t, p) /\ Far(ParseObject(f, t, p), t, p)
  <2>1. p <= Len(t)
    BY <1>1, <1>4 DEF LeftBrace
  <2>2. p + 1 \in p + 1 .. Len(t) + 1
    BY <1>0, <2>1
  <2>3. f[<<"FETCH_KEY", p + 1>>] = g[<<"FETCH_KEY", p + 1>>] /\ Far(f[<<"FETCH_KEY", p + 1>>], t, p + 1)
    BY <2>2, StateNames, Zenon DEF AgreeAfter
  <2>4. Far(f[<<"FETCH_KEY", p + 1>>], t, p)
    BY <1>0, <2>3 DEF Far
  <2>5. Far(Returns(Null, p), t, p) /\ Far(Throws, t, p)
    BY <1>0, ReturnsIs, ThrowsIs DEF Far
  <2> QED BY <2>3, <2>4, <2>5 DEF ParseObject
<1>5. ASSUME c = "["
      PROVE  ParseArray(f, t, p) = ParseArray(g, t, p) /\ Far(ParseArray(f, t, p), t, p)
  <2>1. p <= Len(t)
    BY <1>1, <1>5
  <2>2. p + 1 \in p + 1 .. Len(t) + 1
    BY <1>0, <2>1
  <2>3. f[<<"FIRST_ITEM", p + 1>>] = g[<<"FIRST_ITEM", p + 1>>] /\ Far(f[<<"FIRST_ITEM", p + 1>>], t, p + 1)
    BY <2>2, StateNames, Zenon DEF AgreeAfter
  <2>4. Far(f[<<"FIRST_ITEM", p + 1>>], t, p)
    BY <1>0, <2>3 DEF Far
  <2> QED BY <2>3, <2>4 DEF ParseArray
<1>6. ASSUME c \in NumberText PROVE Far(ParseNumber(t, p), t, p)
  <2> DEFINE last == Until(t, p, NumberEnds) - 1
  <2>1. p <= Len(t) /\ t[p] \in NumberText
    BY <1>1, <1>6 DEF At, NumberText
  <2>2. t[p] \notin NumberEnds
    BY <2>1 DEF NumberText, NumberEnds, Comma, Space, RightBrace
  <2>3. Until(t, p, NumberEnds) \in p + 1 .. Len(t) + 1
    <3>1. /\ Until(t, p, NumberEnds) \in 1 .. Len(t) + 1 /\ p <= Until(t, p, NumberEnds)
          /\ Until(t, p, NumberEnds) <= Len(t) => t[Until(t, p, NumberEnds)] \in NumberEnds
      BY <1>0, <2>1, UntilIs
    <3> QED BY <1>0, <2>1, <2>2, <3>1
  <2>4. last \in p .. Len(t) + 2
    BY <1>0, <2>3
  <2>5. \/ ParseNumber(t, p) = Undefined
        \/ \E value : ParseNumber(t, p) = Returns(value, last)
    BY DEF ParseNumber
  <2> HIDE DEF last
  <2> QED BY <2>4, <2>5, ReturnsIs, ThrowsIs DEF Far
<1>7. Far(ParseBoolean(t, p), t, p) /\ Far(Throws, t, p)
  <2>0. p \in p .. Len(t) + 2
    BY <1>0
  <2>3. \A value : Far(Returns(value, p), t, p)
    BY <2>0, ReturnsIs DEF Far
  <2>1. Far(Returns(TRUE, p), t, p) /\ Far(Returns(FALSE, p), t, p) /\ Far(Throws, t, p)
    BY <2>3, ThrowsIs, Zenon DEF Far
  <2>2. ParseBoolean(t, p) \in {Returns(TRUE, p), Returns(FALSE, p), Throws}
    BY DEF ParseBoolean
  <2> QED BY <2>1, <2>2, Zenon
<1>8. ParseValue(f, t, p) = ParseValue(g, t, p)
  BY <1>4, <1>5 DEF ParseValue
<1>9. Far(ParseValue(f, t, p), t, p)
  <2>1. ParseValue(f, t, p) =
          CASE c = Quote            -> Typed("STRING", ParseString(t, p))
            [] c \in {LeftBrace, "null"} -> Typed("OBJECT", ParseObject(f, t, p))
            [] c \in NumberText     -> ParseNumber(t, p)
            [] c \in {"t", "f", "true", "false"} -> Typed("BOOLEAN", ParseBoolean(t, p))
            [] c = "["              -> Typed("ARRAY", ParseArray(f, t, p))
            [] OTHER                -> Throws
    BY DEF ParseValue
  <2> HIDE DEF c
  <2>2. CASE c = Quote
    <3>1. ParseValue(f, t, p) = Typed("STRING", ParseString(t, p))
      BY <2>1, <2>2 DEF Quote, LeftBrace, NumberText
    <3> QED BY <1>2, <1>3, <3>1
  <2>3. CASE c \in {LeftBrace, "null"}
    <3>1. ParseValue(f, t, p) = Typed("OBJECT", ParseObject(f, t, p))
      BY <2>1, <2>3 DEF Quote, LeftBrace, NumberText
    <3> QED BY <1>2, <1>4, <2>3, <3>1
  <2>4. CASE c \in NumberText
    <3>1. ParseValue(f, t, p) = ParseNumber(t, p)
      BY <2>1, <2>4 DEF Quote, LeftBrace, NumberText
    <3> QED BY <1>6, <2>4, <3>1
  <2>5. CASE c \in {"t", "f", "true", "false"}
    <3>1. ParseValue(f, t, p) = Typed("BOOLEAN", ParseBoolean(t, p))
      BY <2>1, <2>5 DEF Quote, LeftBrace, NumberText
    <3> QED BY <1>2, <1>7, <3>1
  <2>6. CASE c = "["
    <3>1. ParseValue(f, t, p) = Typed("ARRAY", ParseArray(f, t, p))
      BY <2>1, <2>6 DEF Quote, LeftBrace, NumberText
    <3> QED BY <1>2, <1>5, <2>6, <3>1
  <2>7. CASE c \notin {Quote, LeftBrace, "null", "t", "f", "true", "false", "["} \cup NumberText
    <3>1. ParseValue(f, t, p) = Throws
      BY <2>1, <2>7
    <3> QED BY <1>7, <3>1
  <2> QED BY <2>2, <2>3, <2>4, <2>5, <2>6, <2>7
<1> QED BY <1>8, <1>9

\* What is read from a place.
ReadingAt(r, t, p) ==
  /\ r[<<"FETCH_VALUE", p>>] = ParseValue(r, t, p)
  /\ \A s \in {"FIRST_ITEM", "NEXT_ITEM"} : r[<<s, p>>] = MoreItems(r, t, s, p)
  /\ \A s \in {"FETCH_KEY", "FETCH_KEY_AFTER_COMMA"} : r[<<s, p>>] = MoreMembers(r, t, s, p)
  /\ \A s \in ReadState : Far(r[<<s, p>>], t, p)

\* The functions of Parser call each other: each is what it makes of the others.
LEMMA ReadingStep ==
  ASSUME NEW t \in Seq(Symbol)
  PROVE  \A p \in 1 .. Len(t) + 1 : ReadingAt(Reading(t), t, p)
<1> DEFINE M == Len(t) + 1
           D == ReadState \X (1 .. M)
           Body(f, a) ==
             CASE a[1] = "FETCH_VALUE"                -> ParseValue(f, t, a[2])
               [] a[1] \in {"FIRST_ITEM", "NEXT_ITEM"} -> MoreItems(f, t, a[1], a[2])
               [] OTHER                               -> MoreMembers(f, t, a[1], a[2])
           rank == [a \in D |-> 2 * (M - a[2]) + (IF a[1] = "FETCH_VALUE" THEN 0 ELSE 1)]
           Below(f, g, a) == \A b \in D : rank[b] < rank[a] => f[b] = g[b] /\ Far(f[b], t, b[2])
<1>0. M \in Nat /\ M = Len(t) + 1
  OBVIOUS
<1>1. \A a \in D : a[1] \in ReadState /\ a[2] \in 1 .. M /\ a = <<a[1], a[2]>>
  OBVIOUS
<1>2. rank \in [D -> Nat] /\ \A a \in D : rank[a] <= 2 * M + 1
  <2> HIDE DEF M
  <2>1. \A a \in D : rank[a] \in Nat /\ rank[a] <= 2 * M + 1
    BY <1>0, <1>1
  <2> QED BY <2>1
<1>3. \A s1, s2 \in ReadState, p, q \in 1 .. M :
        /\ <<s1, p>> \in D
        /\ q > p => rank[<<s1, q>>] < rank[<<s2, p>>]
        /\ s2 # "FETCH_VALUE" => rank[<<"FETCH_VALUE", p>>] < rank[<<s2, p>>]
  <2> HIDE DEF M
  <2>1. \A s \in ReadState, p \in 1 .. M :
          <<s, p>> \in D /\ rank[<<s, p>>] = 2 * (M - p) + (IF s = "FETCH_VALUE" THEN 0 ELSE 1)
    OBVIOUS
  <2>2. "FETCH_VALUE" \in ReadState
    BY DEF ReadState
  <2> HIDE DEF D, rank
  <2> QED BY <1>0, <2>1, <2>2
<1> HIDE DEF M, D, rank
<1>4. ASSUME NEW f, NEW g, NEW a \in D, Below(f, g, a)
      PROVE  Body(f, a) = Body(g, a) /\ Far(Body(f, a), t, a[2])
  <2> DEFINE s == a[1]
             p == a[2]
  <2>1. s \in ReadState /\ p \in 1 .. M /\ a = <<s, p>>
    BY <1>1
  <2> HIDE DEF s, p
  <2>2. AgreeAfter(f, g, t, p)
    <3> SUFFICES ASSUME NEW x \in ReadState, NEW q \in p + 1 .. Len(t) + 1
                 PROVE  f[<<x, q>>] = g[<<x, q>>] /\ Far(f[<<x, q>>], t, q)
      BY Zenon DEF AgreeAfter
    <3>1. q \in 1 .. M /\ q > p
      BY <1>0, <2>1
    <3>2. <<x, q>> \in D /\ rank[<<x, q>>] < rank[a] /\ <<x, q>>[2] = q
      BY <1>3, <2>1, <3>1, Zenon
    <3> QED BY <1>4, <3>2
  <2>3. CASE s = "FETCH_VALUE"
    <3>1. Body(f, a) = ParseValue(f, t, p) /\ Body(g, a) = ParseValue(g, t, p)
      BY <2>3 DEF s, p
    <3> HIDE DEF Body
    <3> QED BY <1>0, <2>1, <2>2, <3>1, ValueDepends DEF p
  <2>4. CASE s # "FETCH_VALUE"
    <3>1. f[<<"FETCH_VALUE", p>>] = g[<<"FETCH_VALUE", p>>] /\ Far(f[<<"FETCH_VALUE", p>>], t, p)
      <4>1. "FETCH_VALUE" \in ReadState
        BY DEF ReadState
      <4>2. <<"FETCH_VALUE", p>> \in D /\ rank[<<"FETCH_VALUE", p>>] < rank[a] /\ <<"FETCH_VALUE", p>>[2] = p
        BY <1>3, <2>1, <2>4, <4>1
      <4> QED BY <1>4, <4>2
    <3>2. CASE s \in {"FIRST_ITEM", "NEXT_ITEM"}
      <4>1. Body(f, a) = MoreItems(f, t, s, p) /\ Body(g, a) = MoreItems(g, t, s, p)
        BY <2>4, <3>2 DEF s, p
      <4> HIDE DEF Body
      <4>2. MoreItems(f, t, s, p) = MoreItems(g, t, s, p) /\ Far(MoreItems(f, t, s, p), t, p)
        BY <1>0, <2>1, <2>2, <3>1, <3>2, ItemsDepend
      <4> QED BY <4>1, <4>2 DEF p
    <3>3. CASE s \notin {"FIRST_ITEM", "NEXT_ITEM"}
      <4>1. Body(f, a) = MoreMembers(f, t, s, p) /\ Body(g, a) = MoreMembers(g, t, s, p)
        BY <2>4, <3>3 DEF s, p
      <4> HIDE DEF Body
      <4>2. s \in {"FETCH_KEY", "FETCH_KEY_AFTER_COMMA"}
        BY <2>1, <2>4, <3>3 DEF ReadState
      <4>3. MoreMembers(f, t, s, p) = MoreMembers(g, t, s, p) /\ Far(MoreMembers(f, t, s, p), t, p)
        BY <1>0, <2>1, <2>2, <4>2, MembersDepend, ZenonT(30)
      <4> QED BY <4>1, <4>3 DEF p
    <3> QED BY <3>2, <3>3
  <2> QED BY <2>3, <2>4
<1> DEFINE r == Reading(t)
<1>5. ASSUME NEW h, h = [a \in D |-> Body(h, a)] PROVE r = [a \in D |-> Body(r, a)]
  BY <1>5, Zenon DEF Reading, D, M
<1> HIDE DEF Body, r
<1> DEFINE Good(f, k) == \A a \in D : rank[a] < k => f[a] = Body(f, a) /\ Far(f[a], t, a[2])
           S == {k \in Nat : \E f : f = [a \in D |-> f[a]] /\ \A a \in D : Far(f[a], t, a[2]) /\ (rank[a] < k => f[a] = Body(f, a))}
<1>6. \E h : h = [a \in D |-> Body(h, a)]
  <2>1. 0 \in S
    <3> DEFINE z == [a \in D |-> Throws]
    <3>1. z = [a \in D |-> z[a]]
      OBVIOUS
    <3>2. \A a \in D : Far(z[a], t, a[2]) /\ ~(rank[a] < 0)
      BY <1>2, ThrowsIs DEF Far
    <3> HIDE DEF z
    <3> QED BY <3>1, <3>2
  <2>2. ASSUME NEW k \in Nat \ {0}, k - 1 \in S PROVE k \in S
    <3>1. PICK f : f = [a \in D |-> f[a]] /\ \A a \in D : Far(f[a], t, a[2]) /\ (rank[a] < k - 1 => f[a] = Body(f, a))
      BY <2>2
    <3> DEFINE g == [a \in D |-> IF rank[a] < k THEN Body(f, a) ELSE f[a]]
    <3>2. \A a \in D : g[a] = IF rank[a] < k THEN Body(f, a) ELSE f[a]
      OBVIOUS
    <3>3. g = [a \in D |-> g[a]]
      OBVIOUS
    <3> HIDE DEF g
    <3>4. ASSUME NEW a \in D PROVE Far(g[a], t, a[2]) /\ (rank[a] < k => g[a] = Body(g, a))
      <4>1. ASSUME rank[a] < k PROVE Below(f, g, a)
        <5> SUFFICES ASSUME NEW b \in D, rank[b] < rank[a] PROVE f[b] = g[b] /\ Far(f[b], t, b[2])
          OBVIOUS
        <5>1. rank[b] < k - 1 /\ rank[b] < k
          <6>1. rank[b] \in Nat /\ rank[a] \in Nat
            BY <1>2
          <6> QED BY <4>1, <6>1
        <5> QED BY <3>1, <3>2, <5>1, Zenon
      <4>2. CASE rank[a] < k
        <5>1. Body(f, a) = Body(g, a) /\ Far(Body(f, a), t, a[2])
          BY <1>4, <4>1, <4>2
        <5> QED BY <3>2, <4>2, <5>1
      <4>3. CASE ~(rank[a] < k)
        BY <3>1, <3>2, <4>3, Zenon
      <4> QED BY <4>2, <4>3
    <3> QED BY <3>3, <3>4, Zenon
  <2>3. \A k \in Nat : k \in S
    <3> HIDE DEF S
    <3> QED BY <2>1, <2>2, SetInduction
  <2>4. 2 * M + 2 \in S
    <3> HIDE DEF S
    <3>1. 2 * M + 2 \in Nat
      BY <1>0
    <3> QED BY <2>3, <3>1
  <2>5. PICK f : f = [a \in D |-> f[a]] /\ \A a \in D : (rank[a] < 2 * M + 2 => f[a] = Body(f, a))
    BY <2>4
  <2>6. \A a \in D : f[a] = Body(f, a)
    <3> SUFFICES ASSUME NEW a \in D PROVE f[a] = Body(f, a)
      OBVIOUS
    <3>1. rank[a] \in Nat /\ rank[a] <= 2 * M + 1
      BY <1>2
    <3>2. rank[a] < 2 * M + 2
      BY <1>0, <3>1
    <3> QED BY <2>5, <3>2
  <2> QED BY <2>5, <2>6
<1>7. r = [a \in D |-> Body(r, a)]
  BY <1>5, <1>6
<1>8. \A a \in D : r[a] = Body(r, a)
  BY <1>7
<1>9. \A a \in D : Far(r[a], t, a[2])
  <2> DEFINE T == {a \in D : Far(r[a], t, a[2])}
  <2>1. ASSUME NEW a \in D, \A b \in D : rank[b] < rank[a] => b \in T PROVE a \in T
    <3>1. Below(r, r, a)
      BY <2>1
    <3> QED BY <1>4, <1>8, <3>1
  <2>2. D \subseteq T
    <3> HIDE DEF T
    <3> QED BY <1>2, <2>1, RankInduction
  <2> QED BY <2>2
<1> SUFFICES ASSUME NEW p \in 1 .. M PROVE ReadingAt(r, t, p)
  BY <1>0 DEF r
<1>10. \A s \in ReadState : <<s, p>> \in D /\ <<s, p>>[1] = s /\ <<s, p>>[2] = p
  BY <1>3, Zenon
<1>11. \A s \in ReadState : r[<<s, p>>] = Body(r, <<s, p>>) /\ Far(r[<<s, p>>], t, p)
  BY <1>8, <1>9, <1>10
<1>12. Body(r, <<"FETCH_VALUE", p>>) = ParseValue(r, t, p)
  BY DEF Body
<1>13. \A s \in {"FIRST_ITEM", "NEXT_ITEM"} : Body(r, <<s, p>>) = MoreItems(r, t, s, p)
  BY DEF Body
<1>14. \A s \in {"FETCH_KEY", "FETCH_KEY_AFTER_COMMA"} : Body(r, <<s, p>>) = MoreMembers(r, t, s, p)
  BY DEF Body
<1> QED BY <1>11, <1>12, <1>13, <1>14, StateNames DEF ReadingAt

-----------------------------------------------------------------------------
(* The parser keeps in step with the writer: scalars.                      *)

\* Nothing is skipped where there is nothing to skip.
LEMMA PastHere ==
  ASSUME NEW t \in Seq(Symbol), NEW p \in 1 .. Len(t), NEW symbols, t[p] \notin symbols
  PROVE  Past(t, p, symbols) = p
<1> DEFINE q == Past(t, p, symbols)
<1>0. Len(t) \in Nat /\ p \in Nat \ {0}
  OBVIOUS
<1>1. q \in 1 .. Len(t) + 1 /\ p <= q /\ \A j \in p .. q - 1 : t[j] \in symbols
  BY <1>0, PastIs
<1> HIDE DEF q
<1>2. q = p
  BY <1>0, <1>1
<1> QED BY <1>2 DEF q

\* Where a search ends.
LEMMA UntilTo ==
  ASSUME NEW t \in Seq(Symbol), NEW p \in 1 .. Len(t), NEW n \in p .. Len(t), NEW symbols,
         t[n] \in symbols, \A j \in p .. n - 1 : t[j] \notin symbols
  PROVE  Until(t, p, symbols) = n
<1> DEFINE q == Until(t, p, symbols)
<1>0. Len(t) \in Nat /\ p \in Nat \ {0}
  OBVIOUS
<1>1. /\ q \in 1 .. Len(t) + 1 /\ p <= q /\ \A j \in p .. q - 1 : t[j] \notin symbols
      /\ q <= Len(t) => t[q] \in symbols
  BY <1>0, UntilIs
<1> HIDE DEF q
<1>2. ~(q > n)
  BY <1>0, <1>1
<1>3. ~(q < n)
  BY <1>0, <1>1
<1> QED BY <1>0, <1>1, <1>2, <1>3 DEF q

\* What a value is read as, by its first symbol.
LEMMA ValueCases ==
  ASSUME NEW f, NEW t, NEW p
  PROVE  /\ At(t, p) = Quote => ParseValue(f, t, p) = Typed("STRING", ParseString(t, p))
         /\ At(t, p) \in {LeftBrace, "null"} => ParseValue(f, t, p) = Typed("OBJECT", ParseObject(f, t, p))
         /\ At(t, p) \in NumberText => ParseValue(f, t, p) = ParseNumber(t, p)
         /\ At(t, p) \in {"t", "f", "true", "false"} => ParseValue(f, t, p) = Typed("BOOLEAN", ParseBoolean(t, p))
         /\ At(t, p) = "[" => ParseValue(f, t, p) = Typed("ARRAY", ParseArray(f, t, p))
         /\ At(t, p) \notin {Quote, LeftBrace, "null", "t", "f", "true", "false", "["} \cup NumberText
              => ParseValue(f, t, p) = Throws
<1> DEFINE c == At(t, p)
<1>1. ParseValue(f, t, p) =
        CASE c = Quote            -> Typed("STRING", ParseString(t, p))
          [] c \in {LeftBrace, "null"} -> Typed("OBJECT", ParseObject(f, t, p))
          [] c \in NumberText     -> ParseNumber(t, p)
          [] c \in {"t", "f", "true", "false"} -> Typed("BOOLEAN", ParseBoolean(t, p))
          [] c = "["              -> Typed("ARRAY", ParseArray(f, t, p))
          [] OTHER                -> Throws
  BY DEF ParseValue
<1> HIDE DEF c
<1>2. c = Quote => ParseValue(f, t, p) = Typed("STRING", ParseString(t, p))
  BY <1>1 DEF Quote, LeftBrace, NumberText
<1>3. c \in {LeftBrace, "null"} => ParseValue(f, t, p) = Typed("OBJECT", ParseObject(f, t, p))
  BY <1>1 DEF Quote, LeftBrace, NumberText
<1>4. c \in NumberText => ParseValue(f, t, p) = ParseNumber(t, p)
  BY <1>1 DEF Quote, LeftBrace, NumberText
<1>5. c \in {"t", "f", "true", "false"} => ParseValue(f, t, p) = Typed("BOOLEAN", ParseBoolean(t, p))
  BY <1>1 DEF Quote, LeftBrace, NumberText
<1>6. c = "[" => ParseValue(f, t, p) = Typed("ARRAY", ParseArray(f, t, p))
  BY <1>1 DEF Quote, LeftBrace, NumberText
<1>7. c \notin {Quote, LeftBrace, "null", "t", "f", "true", "false", "["} \cup NumberText
              => ParseValue(f, t, p) = Throws
  BY <1>1
<1> QED BY <1>2, <1>3, <1>4, <1>5, <1>6, <1>7 DEF c

\* A number is read where it ends.
Followed(t, p, type) == type \in {"INTEGER", "DOUBLE"} => p <= Len(t) /\ t[p] \in NumberEnds

\* The getters tell no element from another of its type; a double that was shown
\* without a point comes back as an integer.
Alike(v, e) == Type(v) = Type(e) \/ (Type(e) = "DOUBLE" /\ DoubleText[Value(e)] \notin Dotted)

\* A value that was read has the type of what was written, and is the same where
\* that is kept.
Found(v, r, width) ==
  /\ Alike(v, r.tree)
  /\ Type(r.tree) = "OBJECT" =>
       /\ DOMAIN Value(v).elements = DOMAIN Value(r.tree).elements
       /\ \A k \in DOMAIN Value(r.tree).elements : Alike(Value(v).elements[k], Value(r.tree).elements[k])
  /\ Kept(r.nodes, width) => v = r.tree

\* What was written is read where it stands, and no further.
ReadsAt(r, width, t, p) ==
  Holds(t, p, r.text) /\ Followed(t, p + Len(r.text), Type(r.tree)) =>
    LET res == Reading(t)[<<"FETCH_VALUE", p>>]
    IN  res.how = "returned" /\ res.at = p + Len(r.text) - 1 /\ Found(res.value, r, width)

\* Nothing in these elements keeps what follows from being found.
Leads(nodes, width) == \A e \in nodes : ~Misleads(e, width)

\* What an element begins with: no blank, and not the end of an array.
Starts == Symbol \ {Space, "\n", "\r", "\t", "]"}

\* The parser keeps in step with the writer: wherever the text of an element stands,
\* the parser reads it to its end and finds the element.
Synced(r, width) ==
  /\ r.text \in Seq(Symbol) /\ Len(r.text) > 0 /\ r.text[1] \in Starts
  /\ r.tree \in r.nodes
  /\ Leads(r.nodes, width) => \A t \in Seq(Symbol) : \A p \in 1 .. Len(t) : ReadsAt(r, width, t, p)

\* A sanitized string is a text.
LEMMA SanitizedType ==
  ASSUME NEW s \in Seq(Symbol), NEW width \in {1, 2}
  PROVE  Sanitized(s, width) \in Seq(Symbol)
<1>1. Quote \in Symbol
  BY Literals
<1> QED BY <1>1, SanitizedCons

\* A text between quotes.
LEMMA QuotedIs ==
  ASSUME NEW s \in Seq(Symbol)
  PROVE  /\ Quoted(s) \in Seq(Symbol) /\ Len(Quoted(s)) = Len(s) + 2 /\ Quoted(s)[1] = Quote
         /\ \A t \in Seq(Symbol), p \in Nat \ {0} :
              Holds(t, p, Quoted(s)) =>
                /\ p + Len(s) + 1 <= Len(t)
                /\ t[p] = Quote /\ Holds(t, p + 1, s) /\ t[p + Len(s) + 1] = Quote
<1> DEFINE q == <<Quote>>
<1>1. q \in Seq(Symbol) /\ Len(q) = 1 /\ q[1] = Quote
  BY Literals, OneSymbol
<1>0. Len(s) \in Nat
  OBVIOUS
<1>2. \A t \in Seq(Symbol), p \in Nat \ {0} : Holds(t, p, q) => p <= Len(t) /\ t[p] = Quote
  BY HoldsOne
<1>3. Quoted(s) = (q \o s) \o q
  BY DEF Quoted
<1> HIDE DEF q
<1>4. q \o s \in Seq(Symbol) /\ Len(q \o s) = 1 + Len(s)
  BY <1>1, ConcatProperties
<1>5. Quoted(s) \in Seq(Symbol) /\ Len(Quoted(s)) = Len(s) + 2 /\ Quoted(s)[1] = Quote
  <2>1. (q \o s) \o q \in Seq(Symbol) /\ Len((q \o s) \o q) = Len(q \o s) + 1
    BY <1>1, <1>4, ConcatProperties
  <2>2. ((q \o s) \o q)[1] = (q \o s)[1]
    BY <1>0, <1>1, <1>4, ConcatProperties
  <2>3. (q \o s)[1] = q[1]
    BY <1>0, <1>1, ConcatProperties
  <2> QED BY <1>0, <1>1, <1>3, <1>4, <2>1, <2>2, <2>3
<1>6. ASSUME NEW t \in Seq(Symbol), NEW p \in Nat \ {0}, Holds(t, p, Quoted(s))
      PROVE  /\ p + Len(s) + 1 <= Len(t)
             /\ t[p] = Quote /\ Holds(t, p + 1, s) /\ t[p + Len(s) + 1] = Quote
  <2>1. Holds(t, p, q \o s) /\ Holds(t, p + Len(q \o s), q)
    <3> DEFINE w == q \o s
    <3>1. Holds(t, p, w \o q) /\ w \in Seq(Symbol)
      BY <1>3, <1>4, <1>6
    <3> HIDE DEF w
    <3>2. Holds(t, p, w) /\ Holds(t, p + Len(w), q)
      BY <1>1, <3>1, HoldsConcat
    <3> QED BY <3>2 DEF w
  <2>2. Holds(t, p, q) /\ Holds(t, p + Len(q), s)
    BY <1>1, <2>1, HoldsConcat, Zenon
  <2>3. p + Len(q \o s) \in Nat \ {0} /\ p + Len(q \o s) = p + Len(s) + 1
    BY <1>0, <1>4
  <2> QED BY <1>1, <1>2, <2>1, <2>2, <2>3
<1> QED BY <1>5, <1>6

\* Strings are read to their end.
LEMMA StringIsSynced ==
  ASSUME NEW str \in Seq(Symbol), NEW width \in {1, 2}
  PROVE  Synced(WrittenScalar(<<"STRING", str>>, width), width)
<1> DEFINE e == <<"STRING", str>>
           r == WrittenScalar(e, width)
           san == Sanitized(str, width)
           quoted == Quoted(san)
<1>1. r.text = quoted /\ r.tree = e /\ r.nodes = {e} /\ Type(e) = "STRING" /\ Value(e) = str
  BY DEF WrittenScalar, ScalarText, Type, Value
<1>2. san \in Seq(Symbol)
  BY SanitizedType
<1> HIDE DEF san, r, e
<1>3. quoted \in Seq(Symbol) /\ Len(quoted) = Len(san) + 2 /\ quoted[1] = Quote
  BY <1>2, QuotedIs
<1>4. Len(san) \in Nat /\ Len(quoted) > 0 /\ Quote \in Starts
  <2>1. Quote \in Symbol
    BY Literals
  <2> QED BY <1>2, <1>3, <2>1 DEF Starts, Quote, Space
<1>5. ASSUME Leads(r.nodes, width), NEW t \in Seq(Symbol), NEW p \in 1 .. Len(t), Holds(t, p, quoted)
      PROVE  LET res == Reading(t)[<<"FETCH_VALUE", p>>]
             IN  res.how = "returned" /\ res.at = p + Len(quoted) - 1 /\ Found(res.value, r, width)
  <2> DEFINE res == Reading(t)[<<"FETCH_VALUE", p>>]
             st == StringRests(t)[p + 1]
             own == StringRests(quoted)[2]
  <2>0. Len(t) \in Nat /\ p \in Nat \ {0} /\ p \in 1 .. Len(t) + 1
    OBVIOUS
  <2>1. /\ p + Len(san) + 1 <= Len(t)
        /\ t[p] = Quote /\ Holds(t, p + 1, san) /\ t[p + Len(san) + 1] = Quote
    BY <1>2, <1>5, <2>0, QuotedIs, Zenon
  <2>2. own.at = Len(quoted)
    <3>1. ~Misleads(e, width)
      BY <1>1, <1>5 DEF Leads
    <3>2. ~EndsElsewhere(str, width)
      BY <1>1, <3>1 DEF Misleads
    <3>3. ParseString(quoted, 1) = own
      BY DEF ParseString
    <3> QED BY <3>2, <3>3 DEF EndsElsewhere, san
  <2>3. st = Returns(own.value, p + Len(quoted) - 1)
    <3>1. 2 \in 1 .. Len(quoted) + 2 /\ own.at <= Len(quoted)
      BY <1>3, <1>4, <2>2
    <3>2. StringRests(t)[p + 2 - 1] = Returns(own.value, own.at + p - 1)
      <4> HIDE DEF quoted
      <4> QED BY <1>3, <1>5, <2>0, <3>1, StringIsLocal
    <3>3. p + 2 - 1 = p + 1 /\ own.at + p - 1 = p + Len(quoted) - 1
      BY <1>3, <1>4, <2>0, <2>2
    <3> QED BY <3>2, <3>3
  <2>4. KeptString(str, width) => st = Returns(str, p + 1 + Len(san))
    <3>1. p + 1 \in Nat \ {0} /\ p + 1 + Len(san) = p + Len(san) + 1
      BY <1>4, <2>0
    <3>2. p + 1 + Len(san) <= Len(t) /\ t[p + 1 + Len(san)] = Quote
      BY <2>1, <3>1
    <3> QED BY <2>1, <3>1, <3>2, KeptIsRead, Zenon DEF san
  <2>5. res = Typed("STRING", st)
    <3>1. res = ParseValue(Reading(t), t, p)
      BY <2>0, ReadingStep, Zenon DEF ReadingAt
    <3>2. At(t, p) = Quote
      BY <2>0, <2>1 DEF At
    <3>3. ParseValue(Reading(t), t, p) = Typed("STRING", ParseString(t, p))
      BY <3>2, ValueCases
    <3> QED BY <3>1, <3>3 DEF ParseString
  <2> HIDE DEF res, st, own, quoted
  <2>6. res = Returns(<<"STRING", st.value>>, st.at) /\ st.at = p + Len(quoted) - 1
    BY <2>3, <2>5, ReturnsIs DEF Typed
  <2>7. res.how = "returned" /\ res.at = p + Len(quoted) - 1 /\ res.value = <<"STRING", st.value>>
    BY <2>6, ReturnsIs
  <2>8. Kept(r.nodes, width) => res.value = r.tree
    <3>1. Kept(r.nodes, width) => KeptString(str, width)
      BY <1>1 DEF Kept, KeptNode
    <3>2. KeptString(str, width) => st.value = str
      BY <2>4, ReturnsIs
    <3> QED BY <1>1, <2>7, <3>1, <3>2 DEF e
  <2>9. Alike(res.value, r.tree) /\ Type(r.tree) # "OBJECT"
    <3>1. Type(res.value) = "STRING"
      BY <2>7 DEF Type
    <3>2. Type(r.tree) = "STRING"
      BY <1>1
    <3> QED BY <3>1, <3>2 DEF Alike
  <2> QED BY <2>7, <2>8, <2>9 DEF Found, res
<1>6. \A t \in Seq(Symbol) : \A p \in 1 .. Len(t) : Leads(r.nodes, width) => ReadsAt(r, width, t, p)
  <2> HIDE DEF quoted
  <2> QED BY <1>1, <1>5 DEF ReadsAt
<1> QED BY <1>1, <1>3, <1>4, <1>6, Zenon DEF Synced, e, r

\* A number is one symbol.
LEMMA NumberIsRead ==
  ASSUME NEW t \in Seq(Symbol), NEW p \in 1 .. Len(t), t[p] \in NumberText,
         p + 1 <= Len(t), t[p + 1] \in NumberEnds
  PROVE  Reading(t)[<<"FETCH_VALUE", p>>] =
           Returns(IF t[p] \in Dotted THEN <<"DOUBLE", Stold[t[p]]>> ELSE <<"INTEGER", Stoll[t[p]]>>, p)
<1>0. Len(t) \in Nat /\ p \in Nat \ {0} /\ p \in 1 .. Len(t) + 1 /\ p + 1 \in p .. Len(t)
  OBVIOUS
<1>1. t[p] \notin NumberEnds
  BY DEF NumberText, NumberEnds, Comma, Space, RightBrace
<1>2. \A j \in p .. (p + 1) - 1 : t[j] \notin NumberEnds
  <2>1. \A j \in p .. (p + 1) - 1 : j = p
    BY <1>0
  <2> QED BY <1>1, <2>1
<1>3. Until(t, p, NumberEnds) = p + 1
  BY <1>0, <1>2, UntilTo
<1>4. Until(t, p, NumberEnds) - 1 = p /\ p # Len(t)
  BY <1>0, <1>3
<1>5. (\E q \in p .. p : t[q] \in Dotted) <=> t[p] \in Dotted
  <2>1. p .. p = {p}
    BY <1>0
  <2> QED BY <2>1
<1>6. ParseNumber(t, p) =
        Returns(IF t[p] \in Dotted THEN <<"DOUBLE", Stold[t[p]]>> ELSE <<"INTEGER", Stoll[t[p]]>>, p)
  BY <1>4, <1>5 DEF ParseNumber
<1>7. Reading(t)[<<"FETCH_VALUE", p>>] = ParseValue(Reading(t), t, p)
  BY <1>0, ReadingStep, Zenon DEF ReadingAt
<1>8. At(t, p) = t[p]
  BY <1>0 DEF At
<1>9. ParseValue(Reading(t), t, p) = ParseNumber(t, p)
  BY <1>8, ValueCases
<1> QED BY <1>6, <1>7, <1>9

\* An element that is one symbol and read as another.
SymbolIsRead(c, type, v) ==
  \A t \in Seq(Symbol) : \A p \in 1 .. Len(t) :
    t[p] = c /\ Followed(t, p + 1, type) => Reading(t)[<<"FETCH_VALUE", p>>] = Returns(v, p)

\* An element of one symbol is read to its end.
LEMMA SymbolIsSynced ==
  ASSUME NEW r, NEW width, NEW c \in Starts, r.text = <<c>>, r.nodes = {r.tree},
         Type(r.tree) # "OBJECT", NEW v, Alike(v, r.tree), Kept(r.nodes, width) => v = r.tree,
         SymbolIsRead(c, Type(r.tree), v)
  PROVE  Synced(r, width)
<1>1. r.text \in Seq(Symbol) /\ Len(r.text) = 1 /\ r.text[1] = c
  BY DEF Starts
<1>2. Found(v, r, width)
  BY DEF Found
<1>3. ASSUME NEW t \in Seq(Symbol), NEW p \in 1 .. Len(t), Holds(t, p, r.text),
             Followed(t, p + Len(r.text), Type(r.tree))
      PROVE  LET res == Reading(t)[<<"FETCH_VALUE", p>>]
             IN  res.how = "returned" /\ res.at = p + Len(r.text) - 1 /\ Found(res.value, r, width)
  <2>1. t[p] = c
    BY <1>3, HoldsOne
  <2>2. Reading(t)[<<"FETCH_VALUE", p>>] = Returns(v, p)
    BY <1>1, <1>3, <2>1 DEF SymbolIsRead
  <2>3. p + Len(r.text) - 1 = p
    BY <1>1
  <2> QED BY <1>2, <2>2, <2>3, ReturnsIs
<1> QED BY <1>1, <1>3 DEF Synced, ReadsAt

\* Numbers are read to their end.
LEMMA NumberIsSynced ==
  ASSUME NEW e, NEW width \in {1, 2},
         e \in ({"INTEGER"} \X DOMAIN IntegerText) \cup ({"DOUBLE"} \X DOMAIN DoubleText)
  PROVE  Synced(WrittenScalar(e, width), width)
<1> DEFINE r == WrittenScalar(e, width)
           c == IF Type(e) = "INTEGER" THEN IntegerText[Value(e)] ELSE DoubleText[Value(e)]
           v == IF c \in Dotted THEN <<"DOUBLE", Stold[c]>> ELSE <<"INTEGER", Stoll[c]>>
<1>1. e = <<Type(e), Value(e)>> /\ (\/ Type(e) = "INTEGER" /\ Value(e) \in {"1"}
                                    \/ Type(e) = "DOUBLE" /\ Value(e) \in {"2.5", "2.0", "1e20", "1234567.5"})
  BY DEF Type, Value, IntegerText, DoubleText
<1>2. r.text = <<c>> /\ r.nodes = {r.tree} /\ r.tree = e
  BY <1>1 DEF WrittenScalar, ScalarText
<1>3. c \in NumberText
  BY <1>1 DEF NumberText, IntegerText, DoubleText
<1>4. NumberText \subseteq Starts
  BY Literals DEF Starts, NumberText, Space
<1>5. Type(e) = "INTEGER" => c = "1"
  BY <1>1 DEF IntegerText
<1>6. Type(e) = "DOUBLE" => c = DoubleText[Value(e)]
  BY <1>1
<1>7. Value(e) = "2.5" /\ Type(e) = "DOUBLE" => c = "2.5"
  BY <1>6 DEF DoubleText
<1>8. Type(v) = IF c \in Dotted THEN "DOUBLE" ELSE "INTEGER"
  BY DEF Type
<1>9. Alike(v, e)
  <2>1. Type(e) = "INTEGER" => c \notin Dotted
    BY <1>5 DEF Dotted
  <2> HIDE DEF c, v
  <2> QED BY <1>1, <1>6, <1>8, <2>1 DEF Alike
<1>10. Kept(r.nodes, width) => v = e
  <2>1. Kept(r.nodes, width) /\ Type(e) = "DOUBLE" => Value(e) = "2.5"
    BY <1>2 DEF Kept, KeptNode
  <2>2. CASE Type(e) = "INTEGER"
    <3>1. v = <<"INTEGER", "1">>
      BY <1>5, <2>2 DEF Dotted, Stoll, NumberText
    <3>2. Value(e) = "1"
      BY <1>1, <2>2
    <3> QED BY <1>1, <2>2, <3>1, <3>2
  <2>3. CASE Type(e) = "DOUBLE" /\ Kept(r.nodes, width)
    <3>1. c = "2.5"
      BY <1>7, <2>1, <2>3
    <3>2. v = <<"DOUBLE", "2.5">>
      BY <3>1 DEF Dotted, Stold, NumberText
    <3> QED BY <1>1, <2>1, <2>3, <3>2
  <2> QED BY <1>1, <2>2, <2>3
<1>11. Type(e) \in {"INTEGER", "DOUBLE"} /\ Type(e) # "OBJECT"
  BY <1>1
<1> HIDE DEF c, r
<1>12. ASSUME NEW t \in Seq(Symbol), NEW p \in 1 .. Len(t), t[p] = c, Followed(t, p + 1, Type(e))
       PROVE  Reading(t)[<<"FETCH_VALUE", p>>] = Returns(v, p)
  <2>1. p + 1 <= Len(t) /\ t[p + 1] \in NumberEnds
    BY <1>11, <1>12 DEF Followed
  <2> QED BY <1>3, <1>12, <2>1, NumberIsRead, Zenon
<1> HIDE DEF v
<1>13. c \in Starts
  BY <1>3, <1>4
<1>15. SymbolIsRead(c, Type(e), v)
  BY <1>12 DEF SymbolIsRead
<1>14. Synced(r, width)
  BY <1>2, <1>9, <1>10, <1>11, <1>15, <1>13, SymbolIsSynced, Zenon
<1> QED BY <1>14 DEF r

\* Truth values are read to their end.
LEMMA BooleanIsSynced ==
  ASSUME NEW b \in BOOLEAN, NEW width \in {1, 2}
  PROVE  Synced(WrittenScalar(<<"BOOLEAN", b>>, width), width)
<1> DEFINE e == <<"BOOLEAN", b>>
           r == WrittenScalar(e, width)
           c == IF b THEN "true" ELSE "false"
<1>1. r.text = <<c>> /\ r.nodes = {r.tree} /\ r.tree = e /\ Type(e) = "BOOLEAN" /\ Value(e) = b
  BY DEF WrittenScalar, ScalarText, Type, Value
<1>2. c \in Starts
  BY Literals DEF Starts, Space
<1>3. ASSUME NEW t \in Seq(Symbol), NEW p \in 1 .. Len(t), t[p] = c
      PROVE  Reading(t)[<<"FETCH_VALUE", p>>] = Returns(e, p)
  <2>0. p \in 1 .. Len(t) + 1 /\ p <= Len(t)
    OBVIOUS
  <2>1. Reading(t)[<<"FETCH_VALUE", p>>] = ParseValue(Reading(t), t, p)
    BY <2>0, ReadingStep, Zenon DEF ReadingAt
  <2>2. At(t, p) = c
    BY <1>3, <2>0 DEF At
  <2>3. ParseValue(Reading(t), t, p) = Typed("BOOLEAN", ParseBoolean(t, p))
    BY <2>2, ValueCases
  <2>4. ParseBoolean(t, p) = Returns(b, p)
    <3>1. CASE b = TRUE
      BY <2>2, <3>1 DEF ParseBoolean
    <3>2. CASE b = FALSE
      BY <2>2, <3>2, Zenon DEF ParseBoolean
    <3> QED BY <3>1, <3>2, Zenon
  <2>5. Typed("BOOLEAN", Returns(b, p)) = Returns(e, p)
    BY ReturnsIs DEF Typed
  <2> QED BY <2>1, <2>3, <2>4, <2>5
<1> HIDE DEF e
<1>4. Alike(e, e) /\ Type(e) # "OBJECT"
  BY <1>1 DEF Alike
<1> HIDE DEF e, r, c
<1>6. SymbolIsRead(c, Type(e), e)
  BY <1>3 DEF SymbolIsRead
<1>5. Synced(r, width)
  BY <1>1, <1>2, <1>4, <1>6, SymbolIsSynced
<1> QED BY <1>5 DEF e, r

\* The elements that are no objects or arrays.
LEMMA ScalarIsSynced ==
  ASSUME NEW e \in Scalars, NEW width \in {1, 2}
  PROVE  Synced(WrittenScalar(e, width), width)
<1>1. CASE e \in {"STRING"} \X Seq(Symbol)
  <2>1. PICK str \in Seq(Symbol) : e = <<"STRING", str>>
    BY <1>1
  <2> QED BY <2>1, StringIsSynced
<1>2. CASE e \in {"BOOLEAN"} \X BOOLEAN
  <2>1. PICK b \in BOOLEAN : e = <<"BOOLEAN", b>>
    BY <1>2
  <2> QED BY <2>1, BooleanIsSynced
<1>3. CASE e \in ({"INTEGER"} \X DOMAIN IntegerText) \cup ({"DOUBLE"} \X DOMAIN DoubleText)
  BY <1>3, NumberIsSynced
<1> QED BY <1>1, <1>2, <1>3, ScalarsAssumption

-----------------------------------------------------------------------------
(* Arrays.                                                                 *)

\* The text of an array, one step of it.
ArrayAt(f, texts, i) ==
  /\ f[i] \in Seq(Symbol)
  /\ i > Len(texts) => f[i] = <<"]">>
  /\ i <= Len(texts) => f[i] = (Separator(i = 1) \o texts[i]) \o f[i + 1]

\* The text of an array is so everywhere.
LEMMA ArrayStep ==
  ASSUME NEW texts \in Seq(Seq(Symbol)), NEW i \in 1 .. Len(texts) + 1
  PROVE  ArrayAt(ArrayRests(texts), texts, i)
<1> DEFINE r == ArrayRests(texts)
<1>0. Len(texts) \in Nat /\ i \in Nat
  OBVIOUS
<1>1. r \in [1 .. Len(texts) + 1 -> Seq(Symbol)]
  BY ArrayRestsIs
<1>2. r[i] = IF i > Len(texts) THEN <<"]">> ELSE Separator(i = 1) \o texts[i] \o r[i + 1]
  BY ArrayRestsIs
<1> DEFINE sep == Separator(i = 1)
<1>6. r[i] = IF i > Len(texts) THEN <<"]">> ELSE sep \o texts[i] \o r[i + 1]
  BY <1>2
<1> HIDE DEF r, sep
<1>3. r[i] \in Seq(Symbol)
  BY <1>1
<1>4. i > Len(texts) => r[i] = <<"]">>
  BY <1>6
<1>5. ASSUME i <= Len(texts) PROVE r[i] = (sep \o texts[i]) \o r[i + 1]
  <2>1. ~(i > Len(texts))
    BY <1>0, <1>5
  <2> QED BY <1>6, <2>1, Zenon
<1> QED BY <1>3, <1>4, <1>5, Zenon DEF ArrayAt, r, sep

\* Two texts one after the other.
LEMMA ConcatIs ==
  ASSUME NEW u \in Seq(Symbol), NEW v \in Seq(Symbol)
  PROVE  /\ u \o v \in Seq(Symbol) /\ Len(u \o v) = Len(u) + Len(v)
         /\ Len(u) \in Nat /\ Len(v) \in Nat
         /\ Len(u) > 0 => (u \o v)[1] = u[1]
<1>1. u \o v \in Seq(Symbol) /\ Len(u \o v) = Len(u) + Len(v) /\ Len(u) \in Nat /\ Len(v) \in Nat
  BY ConcatProperties
<1>2. ASSUME Len(u) > 0 PROVE (u \o v)[1] = u[1]
  <2>1. 1 \in 1 .. Len(u) + Len(v) /\ 1 <= Len(u)
    BY <1>1, <1>2
  <2> QED BY <2>1, ConcatProperties
<1> QED BY <1>1, <1>2

\* A sequence given by its items.
LEMMA SequenceIs ==
  ASSUME NEW S, NEW n \in Nat, NEW f \in [1 .. n -> S]
  PROVE  f \in Seq(S) /\ Len(f) = n
<1>1. f \in Seq(S)
  BY SeqDef
<1>2. Len(f) \in Nat /\ DOMAIN f = 1 .. Len(f)
  BY <1>1, LenProperties
<1> QED BY <1>1, <1>2

\* The end of a sequence, an item longer.
LEMMA SuffixStep ==
  ASSUME NEW S, NEW f \in Seq(S), NEW i \in 1 .. Len(f)
  PROVE  <<f[i]>> \o SubSeq(f, i + 1, Len(f)) = SubSeq(f, i, Len(f))
<1> DEFINE n == Len(f)
           a == <<f[i]>>
           b == SubSeq(f, i + 1, n)
           c == SubSeq(f, i, n)
<1>0. n \in Nat /\ i \in Nat
  OBVIOUS
<1>1. a \in Seq(S) /\ Len(a) = 1 /\ a[1] = f[i]
  OBVIOUS
<1>2. b \in Seq(S) /\ Len(b) = n - i /\ \A j \in 1 .. n - i : b[j] = f[i + j]
  OBVIOUS
<1>3. c \in Seq(S) /\ Len(c) = n - i + 1 /\ \A j \in 1 .. n - i + 1 : c[j] = f[i + j - 1]
  OBVIOUS
<1> HIDE DEF a, b, c, n
<1>4. a \o b \in Seq(S) /\ Len(a \o b) = Len(a) + Len(b)
      /\ \A j \in 1 .. Len(a) + Len(b) : (a \o b)[j] = IF j <= Len(a) THEN a[j] ELSE b[j - Len(a)]
  BY <1>1, <1>2, ConcatProperties, Zenon
<1>5. \A j \in 1 .. n - i + 1 : (a \o b)[j] = c[j]
  <2> SUFFICES ASSUME NEW j \in 1 .. n - i + 1 PROVE (a \o b)[j] = c[j]
    BY Zenon
  <2>1. CASE j = 1
    BY <1>0, <1>1, <1>2, <1>3, <1>4, <2>1
  <2>2. CASE j > 1
    <3>1. (a \o b)[j] = b[j - 1] /\ j - 1 \in 1 .. n - i
      BY <1>0, <1>1, <1>2, <1>4, <2>2
    <3>2. b[j - 1] = f[i + (j - 1)] /\ i + (j - 1) = i + j - 1
      BY <1>0, <1>2, <3>1
    <3>3. c[j] = f[i + j - 1]
      BY <1>3
    <3>4. (a \o b)[j] = f[i + j - 1]
      BY <3>1, <3>2, Zenon
    <3> QED BY <3>3, <3>4, Zenon
  <2>3. j = 1 \/ j > 1
    BY <1>0
  <2> QED BY <2>1, <2>2, <2>3, Zenon
<1>6. Len(a \o b) = Len(c)
  BY <1>0, <1>1, <1>2, <1>3, <1>4
<1>7. a \o b = c
  BY <1>0, <1>3, <1>4, <1>5, <1>6, SeqEqual, Zenon
<1> QED BY <1>7 DEF a, b, c, n

\* An array is read to its end if its items are and the last is no number: from each
\* item on, by induction down from its end.
LEMMA ArrayIsSynced ==
  ASSUME NEW S, NEW ws \in Seq(S), NEW width \in {1, 2},
         \A i \in 1 .. Len(ws) : Synced(ws[i], width)
  PROVE  Synced(WrittenArray(ws), width)
<1> DEFINE n == Len(ws)
           r == WrittenArray(ws)
           texts == [i \in 1 .. n |-> ws[i].text]
           trees == [i \in 1 .. n |-> ws[i].tree]
           Trees == {ws[i].tree : i \in 1 .. n}
           rests == ArrayRests(texts)
           open == <<"[">>
<1>0. n \in Nat
  OBVIOUS
<1>1. /\ texts \in Seq(Seq(Symbol)) /\ Len(texts) = n
      /\ \A i \in 1 .. n : texts[i] = ws[i].text /\ texts[i] \in Seq(Symbol) /\ Len(texts[i]) > 0
                           /\ texts[i][1] \in Starts
  <2>1. \A i \in 1 .. n : ws[i].text \in Seq(Symbol) /\ Len(ws[i].text) > 0 /\ ws[i].text[1] \in Starts
    BY DEF Synced
  <2>2. texts \in [1 .. n -> Seq(Symbol)]
    BY <2>1
  <2> HIDE DEF n
  <2>3. texts \in Seq(Seq(Symbol)) /\ Len(texts) = n
    BY <1>0, <2>2, SequenceIs
  <2> QED BY <2>1, <2>3, Zenon
<1>2. trees \in Seq(Trees) /\ Len(trees) = n /\ \A i \in 1 .. n : trees[i] = ws[i].tree
  <2>1. trees \in [1 .. n -> Trees]
    OBVIOUS
  <2> HIDE DEF n, Trees
  <2>2. trees \in Seq(Trees) /\ Len(trees) = n
    BY <1>0, <2>1, SequenceIs
  <2> QED BY <2>2, Zenon
<1>3. /\ r.tree = <<"ARRAY", trees>> /\ r.text = open \o rests[1]
      /\ r.nodes = {r.tree} \cup UNION {ws[i].nodes : i \in 1 .. n}
  BY DEF WrittenArray, ArrayText
<1>4. /\ Type(r.tree) = "ARRAY" /\ Value(r.tree) = trees
      /\ \A i \in 1 .. n : ws[i].nodes \subseteq r.nodes
  BY <1>3 DEF Type, Value
<1> HIDE DEF n, r, texts, trees, Trees, rests
<1>5. \A i \in 1 .. n + 1 : ArrayAt(rests, texts, i)
  BY <1>1, ArrayStep DEF rests
<1>6. open \in Seq(Symbol) /\ Len(open) = 1 /\ open[1] = "[" /\ "[" \in Starts
  BY Literals, OneSymbol DEF Starts, Space
<1> HIDE DEF open
<1>12. \A i \in 1 .. n + 1 : rests[i] \in Seq(Symbol) /\ Len(rests[i]) \in Nat
  <2> SUFFICES ASSUME NEW i \in 1 .. n + 1 PROVE rests[i] \in Seq(Symbol) /\ Len(rests[i]) \in Nat
    OBVIOUS
  <2>1. rests[i] \in Seq(Symbol)
    BY <1>5, Zenon DEF ArrayAt
  <2> QED BY <2>1, LenProperties
<1>13. rests[n + 1] = <<"]">>
  <2>1. n + 1 \in 1 .. n + 1 /\ n + 1 > n
    BY <1>0
  <2>2. ArrayAt(rests, texts, n + 1)
    BY <1>5, <2>1
  <2> QED BY <1>1, <2>1, <2>2 DEF ArrayAt
<1>14. \A i \in 1 .. n : rests[i] = (Separator(i = 1) \o texts[i]) \o rests[i + 1]
  <2> SUFFICES ASSUME NEW i \in 1 .. n PROVE rests[i] = (Separator(i = 1) \o texts[i]) \o rests[i + 1]
    BY Zenon
  <2>1. i \in 1 .. n + 1 /\ i <= n
    BY <1>0
  <2>2. ArrayAt(rests, texts, i)
    BY <1>5, <2>1
  <2> QED BY <1>1, <2>1, <2>2, Zenon DEF ArrayAt
<1>7. rests[1] \in Seq(Symbol) /\ Len(rests[1]) \in Nat /\ r.text \in Seq(Symbol) /\ Len(r.text) = 1 + Len(rests[1]) /\ r.text[1] = "["
  <2>0. 1 \in 1 .. n + 1
    BY <1>0
  <2>1. rests[1] \in Seq(Symbol)
    BY <1>12, <2>0
  <2>4. Len(rests[1]) \in Nat
    BY <1>12, <2>0
  <2>2. open \o rests[1] \in Seq(Symbol) /\ Len(open \o rests[1]) = Len(open) + Len(rests[1])
        /\ (Len(open) > 0 => (open \o rests[1])[1] = open[1])
    BY <1>6, <2>1, ConcatIs, Zenon
  <2>3. Len(open) > 0
    BY <1>6
  <2> QED BY <1>3, <1>6, <2>1, <2>2, <2>3, <2>4
<1>8. ASSUME Leads(r.nodes, width)
      PROVE  /\ \A i \in 1 .. n : Leads(ws[i].nodes, width)
             /\ n > 0 => Type(ws[n].tree) \notin {"INTEGER", "DOUBLE"}
  <2>1. ~EndsWithNumber(trees)
    BY <1>3, <1>4, <1>8 DEF Leads, Misleads
  <2>2. n > 0 => trees # <<>> /\ Last(trees) = ws[n].tree
    BY <1>0, <1>2 DEF Last
  <2>3. n > 0 => Type(ws[n].tree) \notin {"INTEGER", "DOUBLE"}
    BY <2>1, <2>2 DEF EndsWithNumber
  <2>4. \A i \in 1 .. n : Leads(ws[i].nodes, width)
    BY <1>4, <1>8 DEF Leads
  <2> QED BY <2>3, <2>4
<1>9. ASSUME Kept(r.nodes, width) PROVE \A i \in 1 .. n : Kept(ws[i].nodes, width)
  BY <1>4, <1>9 DEF Kept
<1>10. ASSUME Leads(r.nodes, width), NEW t \in Seq(Symbol), NEW p \in 1 .. Len(t), Holds(t, p, r.text)
       PROVE  LET res == Reading(t)[<<"FETCH_VALUE", p>>]
              IN  res.how = "returned" /\ res.at = p + Len(r.text) - 1 /\ Found(res.value, r, width)
  <2> DEFINE R == Reading(t)
             Suffix(i) == SubSeq(trees, i, n)
             Ends(x, at, i) == /\ x.how = "returned" /\ x.at = at
                               /\ Kept(r.nodes, width) => x.value = Suffix(i)
             Claim(i) ==
               \A q \in Nat \ {0} :
                 Holds(t, q, texts[i]) /\ Holds(t, q + Len(texts[i]), rests[i + 1]) =>
                   \A s \in {"FIRST_ITEM", "NEXT_ITEM"} :
                     Ends(R[<<s, q>>], q + Len(texts[i]) + Len(rests[i + 1]) - 1, i)
             T == {i \in 1 .. n : Claim(i)}
  <2>0. Len(t) \in Nat /\ p \in Nat \ {0}
    OBVIOUS
  <2>1. Holds(t, p, open) /\ Holds(t, p + 1, rests[1])
    BY <1>3, <1>6, <1>7, <1>10, <2>0, HoldsConcat
  <2>2. t[p] = "["
    BY <1>6, <2>0, <2>1 DEF Holds
  <2>3. Suffix(n + 1) = <<>> /\ Suffix(1) = trees
    BY <1>0, <1>2
  <2>4. ASSUME NEW i \in 1 .. n, \A j \in 1 .. n : j > i => j \in T PROVE i \in T
    <3> SUFFICES ASSUME NEW q \in Nat \ {0}, Holds(t, q, texts[i]), Holds(t, q + Len(texts[i]), rests[i + 1]),
                        NEW s \in {"FIRST_ITEM", "NEXT_ITEM"}
                 PROVE  Ends(R[<<s, q>>], q + Len(texts[i]) + Len(rests[i + 1]) - 1, i)
      BY Zenon
    <3> DEFINE c == q + Len(texts[i])
               val == R[<<"FETCH_VALUE", q>>]
               rest == R[<<"NEXT_ITEM", c + 1>>]
    <3>1. texts[i] = ws[i].text /\ texts[i] \in Seq(Symbol) /\ Len(texts[i]) > 0 /\ texts[i][1] \in Starts
      BY <1>1
    <3>2. Len(texts[i]) \in Nat
      BY <3>1
    <3>3. i + 1 \in 1 .. n + 1 /\ i \in Nat
      BY <1>0
    <3>4. ArrayAt(rests, texts, i + 1)
      BY <1>5, <3>3
    <3>5. Len(rests[i + 1]) \in Nat /\ rests[i + 1] \in Seq(Symbol)
      BY <3>4 DEF ArrayAt
    <3>6. q + Len(texts[i]) - 1 <= Len(t) /\ t[q] = texts[i][1]
      <4>1. 1 \in 1 .. Len(texts[i]) /\ q + 1 - 1 = q
        BY <3>1, <3>2
      <4> QED BY <4>1 DEF Holds
    <3>7. q \in 1 .. Len(t) /\ c \in Nat \ {0}
      <4> DEFINE l == Len(texts[i])
      <4>1. l \in Nat /\ l > 0 /\ q + l - 1 <= Len(t)
        BY <3>1, <3>2, <3>6
      <4> HIDE DEF l
      <4>2. q \in 1 .. Len(t) /\ q + l \in Nat \ {0}
        BY <2>0, <4>1
      <4> QED BY <4>2 DEF l
    <3>8. /\ i < n =>
               /\ c <= Len(t) /\ t[c] = Comma /\ Len(rests[i + 1]) = 1 + Len(texts[i + 1]) + Len(rests[i + 2])
               /\ Holds(t, c + 1, texts[i + 1]) /\ Holds(t, c + 1 + Len(texts[i + 1]), rests[i + 2])
          /\ ~(i < n) => c <= Len(t) /\ t[c] = "]" /\ Len(rests[i + 1]) = 1
      <4>1. CASE i < n
        <5> DEFINE comma == <<Comma>>
                   u == texts[i + 1]
                   v == rests[i + 2]
        <5>1. comma \in Seq(Symbol) /\ Len(comma) = 1 /\ Holds(t, c, comma) <=> c <= Len(t) /\ t[c] = Comma
          BY <3>7, Literals, OneSymbol, HoldsOne
        <5>2. u \in Seq(Symbol)
          BY <1>0, <1>1, <3>3, <4>1
        <5>3. v \in Seq(Symbol)
          <6>1. i + 2 \in 1 .. n + 1
            BY <1>0, <3>3, <4>1
          <6> QED BY <1>12, <6>1
        <5>4. rests[i + 1] = (comma \o u) \o v
          <6>1. rests[i + 1] = (Separator(i + 1 = 1) \o texts[i + 1]) \o rests[i + 1 + 1]
            <7>1. i + 1 \in 1 .. n
              BY <1>0, <3>3, <4>1
            <7> QED BY <1>14, <7>1, Zenon
          <6>2. Separator(i + 1 = 1) = comma
            BY <3>3 DEF Separator
          <6>3. i + 1 + 1 = i + 2
            BY <3>3
          <6> HIDE DEF comma
          <6> QED BY <6>1, <6>2, <6>3, Zenon
        <5>5. Len(comma) = 1 /\ comma \in Seq(Symbol)
          BY Literals, OneSymbol
        <5> HIDE DEF comma, u, v, c
        <5>6. comma \o u \in Seq(Symbol) /\ Len(comma \o u) = 1 + Len(u)
          BY <5>2, <5>5, ConcatIs, Zenon
        <5>7. Len(rests[i + 1]) = 1 + Len(u) + Len(v)
          <6>1. Len((comma \o u) \o v) = Len(comma \o u) + Len(v)
            BY <5>3, <5>6, ConcatIs, Zenon
          <6> QED BY <5>4, <5>6, <6>1
        <5>8. Holds(t, c, comma \o u) /\ Holds(t, c + (1 + Len(u)), v)
          <6> DEFINE w == comma \o u
          <6>1. w \in Seq(Symbol) /\ Holds(t, c, w \o v)
            BY <5>4, <5>6 DEF c
          <6>2. Holds(t, c, w) /\ Holds(t, c + Len(w), v)
            <7> HIDE DEF w
            <7> QED BY <3>7, <5>3, <6>1, HoldsConcat, Zenon
          <6> QED BY <5>6, <6>2
        <5>9. Holds(t, c, comma) /\ Holds(t, c + 1, u)
          BY <3>7, <5>2, <5>5, <5>8, HoldsConcat, ZenonT(30)
        <5>10. c + (1 + Len(u)) = c + 1 + Len(u)
          BY <3>7, <5>2
        <5>11. c <= Len(t) /\ t[c] = Comma
          BY <3>7, <5>9, HoldsOne DEF comma
        <5> QED BY <4>1, <5>7, <5>8, <5>9, <5>10, <5>11, Zenon DEF c, u, v
      <4>2. CASE ~(i < n)
        <5>1. rests[i + 1] = <<"]">>
          <6>1. i + 1 = n + 1
            BY <1>0, <3>3, <4>2
          <6> QED BY <1>13, <6>1
        <5>2. Holds(t, c, <<"]">>)
          BY <5>1
        <5>3. c <= Len(t) /\ t[c] = "]" /\ Len(<<"]">>) = 1
          <6> HIDE DEF c
          <6> QED BY <3>7, <5>2, HoldsOne
        <5> QED BY <4>2, <5>1, <5>3, Zenon
      <4> QED BY <4>1, <4>2, Zenon
    <3> HIDE DEF c
    <3>9. c <= Len(t) /\ t[c] \in {Comma, "]"}
      BY <3>8, Zenon
    <3>10. Followed(t, c, Type(ws[i].tree))
      <4>1. CASE i < n
        BY <3>8, <4>1 DEF Followed, NumberEnds
      <4>2. CASE ~(i < n)
        <5>1. i = n /\ n > 0
          BY <1>0, <3>3, <4>2
        <5> QED BY <1>8, <1>10, <5>1 DEF Followed
      <4> QED BY <4>1, <4>2
    <3>11. val.how = "returned" /\ val.at = c - 1 /\ Found(val.value, ws[i], width)
      <4>1. Synced(ws[i], width)
        BY DEF n
      <4>2. ReadsAt(ws[i], width, t, q)
        BY <1>8, <1>10, <3>7, <4>1 DEF Synced
      <4>3. Holds(t, q, ws[i].text) /\ q + Len(ws[i].text) = c
        BY <3>1 DEF c
      <4> QED BY <3>10, <4>2, <4>3 DEF ReadsAt
    <3>12. Past(t, val.at + 1, ArrayBlank) = c
      <4>1. val.at + 1 = c /\ c \in 1 .. Len(t)
        BY <2>0, <3>7, <3>9, <3>11
      <4>2. t[c] \notin ArrayBlank
        BY <3>9, Zenon DEF ArrayBlank, Space, Comma
      <4> HIDE DEF val
      <4> QED BY <4>1, <4>2, PastHere
    <3>13. /\ At(t, q) # "]" /\ val.at <= Len(t) /\ At(t, c) = t[c]
      <4>1. At(t, q) \in Starts
        BY <3>1, <3>6, <3>7 DEF At
      <4> QED BY <2>0, <3>7, <3>9, <3>11, <4>1 DEF At, Starts
    <3>14. R[<<s, q>>] = IF t[c] = "]" THEN Returns(<<val.value>>, c)
                         ELSE IF t[c] # Comma THEN Throws
                         ELSE IF rest.how # "returned" THEN rest
                         ELSE Returns(<<val.value>> \o rest.value, rest.at)
      <4>1. R[<<s, q>>] = MoreItems(R, t, s, q)
        <5>1. q \in 1 .. Len(t) + 1
          BY <2>0, <3>7
        <5> QED BY <5>1, ReadingStep, Zenon DEF ReadingAt
      <4>2. ~(val.at > Len(t))
        BY <2>0, <3>7, <3>9, <3>11
      <4> QED BY <3>11, <3>12, <3>13, <4>1, <4>2, Zenon DEF MoreItems
    <3>15. Kept(r.nodes, width) => val.value = trees[i]
      BY <1>2, <1>9, <3>11, Zenon DEF Found
    <3> HIDE DEF val, rest, R
    <3>16. CASE i < n
      <4>1. i + 1 \in T
        <5>1. i + 1 \in 1 .. n /\ i + 1 > i
          BY <1>0, <3>3, <3>16
        <5> HIDE DEF T
        <5> QED BY <2>4, <5>1
      <4>2. Ends(rest, c + 1 + Len(texts[i + 1]) + Len(rests[i + 1 + 1]) - 1, i + 1)
        <5>1. c + 1 \in Nat \ {0} /\ i + 1 + 1 = i + 2
          BY <3>3, <3>7
        <5>2. Holds(t, c + 1, texts[i + 1]) /\ Holds(t, c + 1 + Len(texts[i + 1]), rests[i + 1 + 1])
          BY <3>8, <3>16, <5>1
        <5> HIDE DEF Ends
        <5> QED BY <4>1, <5>1, <5>2, Zenon DEF rest
      <4>3. rest.how = "returned" /\ rest.at = q + Len(texts[i]) + Len(rests[i + 1]) - 1
        <5>1. Len(rests[i + 1]) = 1 + Len(texts[i + 1]) + Len(rests[i + 2]) /\ i + 1 + 1 = i + 2
          <6>1. i + 1 + 1 = i + 2
            BY <3>3
          <6> QED BY <3>8, <3>16, <6>1, Zenon
        <5>2. Len(texts[i + 1]) \in Nat /\ Len(rests[i + 2]) \in Nat
          <6>1. texts[i + 1] \in Seq(Symbol)
            BY <1>0, <1>1, <3>3, <3>16
          <6>2. i + 2 \in 1 .. n + 1
            BY <1>0, <3>3, <3>16
          <6>3. rests[i + 2] \in Seq(Symbol)
            BY <1>12, <6>2
          <6> QED BY <6>1, <6>3
        <5>3. rest.how = "returned" /\ rest.at = c + 1 + Len(texts[i + 1]) + Len(rests[i + 2]) - 1
          BY <4>2, <5>1
        <5> DEFINE x == Len(texts[i])
                   y == Len(texts[i + 1])
                   z == Len(rests[i + 2])
                   w == Len(rests[i + 1])
        <5>4. x \in Nat /\ y \in Nat /\ z \in Nat /\ w = 1 + y + z /\ c = q + x
          BY <3>2, <5>1, <5>2 DEF c
        <5>5. rest.how = "returned" /\ rest.at = c + 1 + y + z - 1
          BY <5>3
        <5> HIDE DEF Ends, T, x, y, z, w
        <5>6. c + 1 + y + z - 1 = q + x + w - 1
          BY <5>4
        <5> QED BY <5>5, <5>6, Zenon DEF x, w
      <4>4. R[<<s, q>>] = Returns(<<val.value>> \o rest.value, rest.at)
        BY <3>8, <3>14, <3>16, <4>3, Zenon DEF Comma
      <4>5. Kept(r.nodes, width) => <<val.value>> \o rest.value = Suffix(i)
        <5>1. <<trees[i]>> \o SubSeq(trees, i + 1, n) = SubSeq(trees, i, n)
          BY <1>2, SuffixStep, Zenon
        <5> QED BY <3>15, <4>2, <5>1, Zenon
      <4>6. R[<<s, q>>].how = "returned" /\ R[<<s, q>>].at = rest.at /\ R[<<s, q>>].value = <<val.value>> \o rest.value
        <5> DEFINE x == <<val.value>> \o rest.value
                   y == rest.at
        <5>1. R[<<s, q>>] = Returns(x, y)
          BY <4>4
        <5> HIDE DEF x, y
        <5>2. R[<<s, q>>].how = "returned" /\ R[<<s, q>>].at = y /\ R[<<s, q>>].value = x
          BY <5>1, ReturnsIs
        <5> QED BY <5>2 DEF x, y
      <4> QED BY <4>3, <4>5, <4>6, Zenon
    <3>17. CASE ~(i < n)
      <4>1. R[<<s, q>>] = Returns(<<val.value>>, c)
        BY <3>8, <3>14, <3>17
      <4>2. c = q + Len(texts[i]) + Len(rests[i + 1]) - 1
        <5>1. Len(rests[i + 1]) = 1
          BY <3>8, <3>17
        <5> HIDE DEF Ends, T
        <5> QED BY <3>2, <5>1 DEF c
      <4>3. Kept(r.nodes, width) => <<val.value>> = Suffix(i)
        <5>1. i = n
          BY <1>0, <3>3, <3>17
        <5>2. <<trees[i]>> = SubSeq(trees, i, n)
          BY <1>2, <5>1
        <5> QED BY <3>15, <5>2, Zenon
      <4>4. R[<<s, q>>].how = "returned" /\ R[<<s, q>>].at = c /\ R[<<s, q>>].value = <<val.value>>
        BY <4>1, ReturnsIs
      <4> QED BY <4>2, <4>3, <4>4, Zenon
    <3> QED BY <3>16, <3>17, Zenon
  <2>5. \A i \in 1 .. n : i \in T
    <3> HIDE DEF T
    <3> QED BY <1>0, <2>4, Downward, Zenon
  <2> DEFINE res == R[<<"FETCH_VALUE", p>>]
             all == R[<<"FIRST_ITEM", p + 1>>]
  <2>6. p + 1 <= Len(t) + 1 /\ p + 1 \in Nat \ {0}
    BY <2>0
  <2>7. Ends(all, p + 1 + Len(rests[1]) - 1, 1)
    <3>1. CASE n = 0
      <4>1. rests[1] = <<"]">>
        BY <1>0, <1>1, <1>5, <3>1 DEF ArrayAt
      <4>2. p + 1 <= Len(t) /\ t[p + 1] = "]" /\ Len(rests[1]) = 1
        BY <2>1, <2>6, <4>1, HoldsOne
      <4>3. all = MoreItems(R, t, "FIRST_ITEM", p + 1)
        <5>1. p + 1 \in 1 .. Len(t) + 1
          BY <2>0
        <5> QED BY <5>1, ReadingStep, Zenon DEF ReadingAt
      <4>4. all = Returns(<<>>, p + 1)
        BY <4>2, <4>3 DEF MoreItems, At
      <4>5. Suffix(1) = <<>>
        BY <2>3, <3>1
      <4> HIDE DEF all, Suffix
      <4>6. p + 1 + Len(rests[1]) - 1 = p + 1
        BY <2>0, <4>2
      <4>7. all.how = "returned" /\ all.at = p + 1 /\ all.value = <<>>
        BY <4>4, ReturnsIs
      <4> QED BY <4>5, <4>6, <4>7, Zenon
    <3>2. CASE n > 0
      <4>1. 1 \in T
        <5>1. 1 \in 1 .. n
          BY <1>0, <3>2
        <5> HIDE DEF T
        <5> QED BY <2>5, <5>1
      <4>2. rests[1] = (Separator(1 = 1) \o texts[1]) \o rests[1 + 1]
        <5>1. 1 \in 1 .. n
          BY <1>0, <3>2
        <5> QED BY <1>14, <5>1, Zenon
      <4>3. texts[1] \in Seq(Symbol) /\ rests[1 + 1] \in Seq(Symbol) /\ Len(texts[1]) \in Nat /\ Len(rests[1 + 1]) \in Nat
        <5>1. 1 \in 1 .. n /\ 1 + 1 \in 1 .. n + 1
          BY <1>0, <3>2
        <5>2. texts[1] \in Seq(Symbol)
          BY <1>1, <5>1
        <5> QED BY <1>12, <5>1, <5>2
      <4>4. Separator(1 = 1) \o texts[1] = texts[1]
        BY <4>3 DEF Separator
      <4>5. /\ Holds(t, p + 1, texts[1]) /\ Holds(t, p + 1 + Len(texts[1]), rests[1 + 1])
            /\ Len(rests[1]) = Len(texts[1]) + Len(rests[1 + 1])
        <5> DEFINE u == texts[1]
                   v == rests[1 + 1]
        <5>1. u \in Seq(Symbol) /\ v \in Seq(Symbol) /\ rests[1] = u \o v /\ Holds(t, p + 1, rests[1])
          BY <2>1, <4>2, <4>3, <4>4, Zenon
        <5> HIDE DEF u, v, T, Ends
        <5>2. Holds(t, p + 1, u) /\ Holds(t, p + 1 + Len(u), v) /\ Len(u \o v) = Len(u) + Len(v)
          BY <2>6, <5>1, HoldsConcat
        <5> QED BY <5>1, <5>2, Zenon DEF u, v
      <4>6. Ends(all, p + 1 + Len(texts[1]) + Len(rests[1 + 1]) - 1, 1)
        <5> HIDE DEF Ends
        <5> QED BY <2>6, <4>1, <4>5, Zenon
      <4>7. p + 1 + Len(texts[1]) + Len(rests[1 + 1]) - 1 = p + 1 + Len(rests[1]) - 1
        <5> DEFINE u == Len(texts[1])
                   v == Len(rests[1 + 1])
                   w == Len(rests[1])
        <5>1. u \in Nat /\ v \in Nat /\ w = u + v
          BY <4>3, <4>5
        <5> HIDE DEF u, v, w
        <5>2. p + 1 + u + v - 1 = p + 1 + w - 1
          BY <2>0, <5>1
        <5> QED BY <5>2, Zenon DEF u, v, w
      <4> HIDE DEF Ends
      <4> QED BY <4>6, <4>7
    <3>3. n = 0 \/ n > 0
      BY <1>0
    <3> QED BY <3>1, <3>2, <3>3, Zenon
  <2>8. res = Typed("ARRAY", all)
    <3>1. res = ParseValue(R, t, p)
      <4>1. p \in 1 .. Len(t) + 1
        BY <2>0
      <4> QED BY <4>1, ReadingStep, Zenon DEF ReadingAt
    <3>2. At(t, p) = "["
      BY <2>0, <2>2 DEF At
    <3>3. ParseValue(R, t, p) = Typed("ARRAY", ParseArray(R, t, p))
      BY <3>2, ValueCases
    <3> QED BY <3>1, <3>3 DEF ParseArray
  <2> HIDE DEF res, all
  <2>9. res = Returns(<<"ARRAY", all.value>>, all.at) /\ all.at = p + Len(r.text) - 1
    <3>1. p + 1 + Len(rests[1]) - 1 = p + Len(r.text) - 1
      <4> DEFINE u == Len(rests[1])
                 w == Len(r.text)
      <4>1. u \in Nat /\ w = 1 + u
        BY <1>7
      <4> HIDE DEF u, w, Ends, T
      <4>2. p + 1 + u - 1 = p + w - 1
        BY <2>0, <4>1
      <4> QED BY <4>2, Zenon DEF u, w
    <3> QED BY <2>7, <2>8, <3>1, Zenon DEF Typed
  <2>10. res.how = "returned" /\ res.at = p + Len(r.text) - 1 /\ res.value = <<"ARRAY", all.value>>
    BY <2>9, ReturnsIs
  <2>11. Kept(r.nodes, width) => res.value = r.tree
    BY <1>3, <2>3, <2>7, <2>10, Zenon
  <2>12. Alike(res.value, r.tree) /\ Type(r.tree) # "OBJECT"
    <3>1. Type(res.value) = "ARRAY"
      BY <2>10 DEF Type
    <3> QED BY <1>4, <3>1 DEF Alike
  <2> QED BY <2>10, <2>11, <2>12 DEF Found, res
<1>11. Len(r.text) > 0 /\ r.text[1] \in Starts /\ r.tree \in r.nodes
  <2>1. Len(rests[1]) \in Nat
    BY <1>7
  <2> QED BY <1>3, <1>6, <1>7, <2>1
<1> QED BY <1>7, <1>10, <1>11 DEF Synced, ReadsAt, r

-----------------------------------------------------------------------------
(* Objects.                                                                *)

\* The text of an object, one step of it.
ObjectAt(f, texts, i) ==
  /\ f[i] \in Seq(Symbol)
  /\ i > Len(KeyOrder) => f[i] = <<RightBrace>>
  /\ i <= Len(KeyOrder) => f[i] = MemberText(texts, i) \o f[i + 1]

\* The text of an object is so everywhere.
LEMMA ObjectStep ==
  ASSUME NEW keys \in SUBSET Key, NEW texts \in [keys -> Seq(Symbol)], NEW i \in 1 .. Len(KeyOrder) + 1
  PROVE  ObjectAt(ObjectRests(texts), texts, i)
<1> DEFINE r == ObjectRests(texts)
<1>0. Len(KeyOrder) \in Nat /\ i \in Nat
  BY KeysAssumption
<1>1. r \in [1 .. Len(KeyOrder) + 1 -> Seq(Symbol)]
  BY ObjectRestsIs, Zenon
<1>2. r[i] = IF i > Len(KeyOrder) THEN <<RightBrace>> ELSE MemberText(texts, i) \o r[i + 1]
  BY ObjectRestsIs, Zenon
<1> HIDE DEF r
<1>3. r[i] \in Seq(Symbol)
  BY <1>1
<1>4. ASSUME i <= Len(KeyOrder) PROVE r[i] = MemberText(texts, i) \o r[i + 1]
  <2>1. ~(i > Len(KeyOrder))
    BY <1>0, <1>4
  <2> QED BY <1>2, <2>1, Zenon
<1> QED BY <1>2, <1>3, <1>4, Zenon DEF ObjectAt, r

\* No member is written before the i-th key.
Leading(keys, i) == \A j \in 1 .. i - 1 : KeyOrder[j] \notin keys

\* The place of a member in its text.
Shift(keys, i) == IF Leading(keys, i) THEN 0 ELSE 1

\* The keys have places in the order of std::map.
LEMMA KeysAre ==
  /\ Len(KeyOrder) \in Nat
  /\ \A i \in 1 .. Len(KeyOrder) : KeyOrder[i] \in Seq(Symbol) /\ KeyOrder[i] \in Key
  /\ \A k \in Key : \E i \in 1 .. Len(KeyOrder) : k = KeyOrder[i]
BY KeysAssumption DEF ToSet

\* How a member is seen in a text.
MemberShown(t, p, keys, texts, i, k) ==
  /\ ~Leading(keys, i) => p <= Len(t) /\ t[p] = Comma
  /\ p + Shift(keys, i) + Len(k) + 2 <= Len(t)
  /\ t[p + Shift(keys, i)] = Quote /\ Holds(t, p + Shift(keys, i) + 1, k)
  /\ t[p + Shift(keys, i) + Len(k) + 1] = Quote
  /\ t[p + Shift(keys, i) + Len(k) + 2] = ":"
  /\ Holds(t, p + Shift(keys, i) + Len(k) + 3, texts[k])
  /\ Len(MemberText(texts, i)) = Shift(keys, i) + Len(k) + 3 + Len(texts[k])

\* The text of a member shows it.
LEMMA MemberHolds ==
  ASSUME NEW keys \in SUBSET Key, NEW texts \in [keys -> Seq(Symbol)], NEW i \in 1 .. Len(KeyOrder),
         NEW k, k = KeyOrder[i], k \in keys,
         NEW t \in Seq(Symbol), NEW p \in Nat \ {0}, Holds(t, p, MemberText(texts, i))
  PROVE  MemberShown(t, p, keys, texts, i, k)
<1> DEFINE s == Shift(keys, i)
           sep == Separator(Leading(keys, i))
           colon == <<":">>
           u == texts[k]
<1>1. MemberText(texts, i) = ((sep \o Quoted(k)) \o colon) \o u
  BY Zenon DEF MemberText, Leading
<1>2. sep \in Seq(Symbol) /\ Len(sep) = s /\ (~Leading(keys, i) => sep = <<Comma>>)
  <2>1. CASE Leading(keys, i)
    <3>1. sep = <<>> /\ s = 0
      BY <2>1 DEF Separator, Shift
    <3> QED BY <2>1, <3>1, EmptyText, Zenon
  <2>2. CASE ~Leading(keys, i)
    <3>1. sep = <<Comma>> /\ s = 1
      BY <2>2 DEF Separator, Shift
    <3> QED BY <2>2, <3>1, Literals, OneSymbol
  <2> QED BY <2>1, <2>2
<1>3. k \in Seq(Symbol) /\ u \in Seq(Symbol) /\ colon \in Seq(Symbol) /\ Len(k) \in Nat /\ Len(u) \in Nat
  <2>1. k \in Seq(Symbol) /\ u \in Seq(Symbol) /\ colon \in Seq(Symbol)
    BY KeysAre, Literals, OneSymbol
  <2> QED BY <2>1, LenProperties
<1>4. Quoted(k) \in Seq(Symbol) /\ Len(Quoted(k)) = Len(k) + 2
  BY <1>3, QuotedIs, Zenon
<1>5. s \in Nat
  BY DEF Shift
<1> DEFINE a == sep \o Quoted(k)
           b == a \o colon
<1>6. Len(colon) = 1
  OBVIOUS
<1> HIDE DEF s, sep, u, colon
<1>7. a \in Seq(Symbol) /\ Len(a) = s + Len(k) + 2
  <2>1. a \in Seq(Symbol) /\ Len(a) = Len(sep) + Len(Quoted(k))
    BY <1>2, <1>4, ConcatIs, Zenon
  <2> QED BY <1>2, <1>3, <1>4, <1>5, <2>1
<1> DEFINE la == Len(a)
<1>8. Holds(t, p, sep) /\ Holds(t, p + s, Quoted(k)) <=> Holds(t, p, a)
  BY <1>2, <1>4, HoldsConcat, Zenon
<1> HIDE DEF a
<1>9. b \in Seq(Symbol) /\ Len(b) = s + Len(k) + 3
  <2>1. b \in Seq(Symbol) /\ Len(b) = Len(a) + Len(colon)
    BY <1>3, <1>7, ConcatIs, Zenon
  <2> QED BY <1>3, <1>5, <1>6, <1>7, <2>1
<1>10. Holds(t, p, a) /\ Holds(t, p + Len(a), colon) <=> Holds(t, p, b)
  BY <1>3, <1>7, HoldsConcat, Zenon
<1> HIDE DEF b
<1>11. Holds(t, p, b) /\ Holds(t, p + Len(b), u) /\ Len(b \o u) = Len(b) + Len(u)
  <2>1. MemberText(texts, i) = b \o u
    BY <1>1 DEF b, a
  <2>2. Holds(t, p, b \o u)
    BY <2>1
  <2> QED BY <1>3, <1>9, <2>2, HoldsConcat, Zenon
<1>12. Holds(t, p, sep) /\ Holds(t, p + s, Quoted(k)) /\ Holds(t, p + (s + Len(k) + 2), colon)
  BY <1>7, <1>8, <1>10, <1>11
<1>13. /\ p + s \in Nat \ {0} /\ p + (s + Len(k) + 2) \in Nat \ {0}
       /\ p + (s + Len(k) + 2) = p + s + Len(k) + 2
       /\ p + (s + Len(k) + 3) = p + s + Len(k) + 3
  <2> DEFINE l == Len(k)
  <2>1. l \in Nat
    BY <1>3
  <2> HIDE DEF l
  <2>2. /\ p + s \in Nat \ {0} /\ p + (s + l + 2) \in Nat \ {0}
        /\ p + (s + l + 2) = p + s + l + 2
        /\ p + (s + l + 3) = p + s + l + 3
    BY <1>5, <2>1
  <2> QED BY <2>2 DEF l
<1>14. t[p + s] = Quote /\ Holds(t, p + s + 1, k) /\ t[p + s + Len(k) + 1] = Quote
  BY <1>3, <1>12, <1>13, QuotedIs, ZenonT(120)
<1>15. p + s + Len(k) + 2 <= Len(t) /\ t[p + s + Len(k) + 2] = ":"
  BY <1>12, <1>13, HoldsOne DEF colon
<1>16. Holds(t, p + s + Len(k) + 3, u)
  BY <1>9, <1>11, <1>13
<1>17. ~Leading(keys, i) => p <= Len(t) /\ t[p] = Comma
  <2> SUFFICES ASSUME ~Leading(keys, i) PROVE p <= Len(t) /\ t[p] = Comma
    OBVIOUS
  <2>1. Holds(t, p, <<Comma>>)
    BY <1>2, <1>12, Zenon
  <2> QED BY <2>1, HoldsOne
<1>18. Len(MemberText(texts, i)) = s + Len(k) + 3 + Len(u)
  BY <1>1, <1>9, <1>11 DEF a, b
<1> QED BY <1>14, <1>15, <1>16, <1>17, <1>18 DEF s, u, MemberShown

\* A key is read as it is written if it has no quote and no backslash.
LEMMA PlainIsRead ==
  ASSUME NEW t \in Seq(Symbol), NEW str \in Seq(Symbol), NEW q \in Nat \ {0}, Holds(t, q, str),
         \A i \in 1 .. Len(str) : str[i] \notin {Quote, Backslash},
         q + Len(str) <= Len(t), t[q + Len(str)] = Quote
  PROVE  StringRests(t)[q] = Returns(str, q + Len(str))
<1> DEFINE r == StringRests(t)
           n == Len(str)
           Suffix(i) == SubSeq(str, i, n)
           T == {i \in 1 .. n : r[q + i - 1] = Returns(Suffix(i), q + n)}
<1>0. n \in Nat /\ Len(t) \in Nat
  OBVIOUS
<1>1. \A i \in 1 .. Len(t) + 2 : StringAt(r, t, i)
  BY StringStep
<1>2. Suffix(1) = str /\ Suffix(n + 1) = <<>>
  BY <1>0
<1>5. \A i \in 1 .. n : <<str[i]>> \o Suffix(i + 1) = Suffix(i)
  BY SuffixStep, Zenon
<1>6. \A i \in 1 .. n : t[q + i - 1] = str[i] /\ str[i] \notin {Quote, Backslash}
  BY DEF Holds
<1> HIDE DEF r, n, Suffix
<1>3. r[q + n] = Returns(<<>>, q + n)
  <2>1. q + n \in 1 .. Len(t) + 2
    BY <1>0 DEF n
  <2>2. t[q + n] = Quote
    BY DEF n
  <2> QED BY <1>1, <2>1, <2>2, Zenon DEF StringAt
<1>4. ASSUME NEW i \in 1 .. n, \A j \in 1 .. n : j > i => j \in T PROVE i \in T
  <2> DEFINE x == q + i - 1
  <2>1. x \in 1 .. Len(t) + 2 /\ x <= Len(t) /\ x + 1 = q + i
    BY <1>0 DEF n
  <2>2. r[x + 1] = Returns(Suffix(i + 1), q + n)
    <3>1. CASE i = n
      <4>1. r[q + i] = Returns(<<>>, q + n) /\ Suffix(i + 1) = <<>>
        BY <1>2, <1>3, <3>1, Zenon
      <4> QED BY <2>1, <4>1, Zenon
    <3>2. CASE i # n
      <4>1. i + 1 \in 1 .. n /\ i + 1 > i /\ q + (i + 1) - 1 = q + i
        BY <1>0, <3>2
      <4>2. r[q + (i + 1) - 1] = Returns(Suffix(i + 1), q + n)
        BY <1>4, <4>1
      <4> QED BY <2>1, <4>1, <4>2, Zenon
    <3> QED BY <3>1, <3>2
  <2>3. t[x] = str[i] /\ t[x] \notin {Quote, Backslash}
    BY <1>6
  <2> HIDE DEF x
  <2>4. r[x].value = Cons(t[x], r[x + 1].value) /\ r[x].at = r[x + 1].at /\ r[x] = Returns(r[x].value, r[x].at)
    BY <1>1, <2>1, <2>3, Zenon DEF StringAt
  <2>5. r[x + 1].value = Suffix(i + 1) /\ r[x + 1].at = q + n
    BY <2>2, ReturnsIs
  <2>6. Cons(str[i], Suffix(i + 1)) = Suffix(i)
    BY <1>5, Zenon DEF Cons
  <2>7. r[x] = Returns(Suffix(i), q + n)
    BY <2>3, <2>4, <2>5, <2>6, Zenon
  <2> QED BY <2>7 DEF x
<1>7. \A i \in 1 .. n : i \in T
  <2> HIDE DEF T
  <2> QED BY <1>0, <1>4, Downward, Zenon
<1>8. CASE n = 0
  <2>1. q + n = q /\ n + 1 = 1
    BY <1>0, <1>8
  <2> QED BY <1>2, <1>3, <2>1 DEF r, n
<1>9. CASE n # 0
  <2>1. 1 \in 1 .. n /\ q + 1 - 1 = q
    BY <1>0, <1>9
  <2>2. r[q + 1 - 1] = Returns(Suffix(1), q + n)
    BY <1>7, <2>1
  <2> QED BY <1>2, <2>1, <2>2 DEF r, n
<1> QED BY <1>8, <1>9

\* A member that is followed by another, or ends its object.
MemberAt(t, m, k, r, c) ==
  /\ m \in 1 .. Len(t) /\ t[m] = Quote /\ Holds(t, m + 1, k) /\ t[m + Len(k) + 1] = Quote
  /\ m + Len(k) + 2 <= Len(t) /\ t[m + Len(k) + 2] = ":"
  /\ Holds(t, m + Len(k) + 3, r.text)
  /\ c = m + Len(k) + 3 + Len(r.text) /\ t[c] \in {Comma, RightBrace}

\* What a member gives to the object it is read for.
MemberGives(f, t, s, m, k, v, c) ==
  /\ t[c] = RightBrace => f[<<s, m>>] = Returns(PutBefore(k, v, Null), c)
  /\ t[c] = Comma /\ f[<<"FETCH_KEY_AFTER_COMMA", c + 1>>].how = "returned" =>
       f[<<s, m>>] = Returns(PutBefore(k, v, f[<<"FETCH_KEY_AFTER_COMMA", c + 1>>].value),
                             f[<<"FETCH_KEY_AFTER_COMMA", c + 1>>].at)

\* A member is found if what is read for it is an element that was written.
MemberFound(t, s, m, k, r, width, c) ==
  \E v : Found(v, r, width) /\ MemberGives(Reading(t), t, s, m, k, v, c)

\* What is read from the key of a member on.
MemberReads(f, t, s, m, k) ==
  LET val == f[<<"FETCH_VALUE", m + Len(k) + 3>>]
      d == Past(t, val.at + 1, Blank)
      rest == f[<<"FETCH_KEY_AFTER_COMMA", d + 1>>]
  IN  f[<<s, m>>] =
        IF val.how # "returned" THEN val
        ELSE IF d > Len(t) \/ At(t, d) = RightBrace
          THEN Returns(PutBefore(k, val.value, Null), d)
        ELSE IF At(t, d) # Comma THEN Throws
        ELSE IF rest.how # "returned" THEN rest
        ELSE Returns(PutBefore(k, val.value, rest.value), rest.at)

\* Where a member, its colon and its value are.
MemberPlaces(t, m, k, r, c) ==
  LET x == m + Len(k) + 1
      z == m + Len(k) + 3
  IN  /\ x \in 1 .. Len(t) /\ x + 1 \in 1 .. Len(t) /\ z \in 1 .. Len(t) /\ z = x + 2
      /\ c = z + Len(r.text) /\ Holds(t, z, r.text) /\ t[z] \notin Blank

\* A key that is kept is read as it was written, and its value is looked for where it is.
LEMMA MemberStart ==
  ASSUME NEW t \in Seq(Symbol), NEW m, NEW k \in Seq(Symbol), KeptKey(k), NEW r,
         r.text \in Seq(Symbol), Len(r.text) > 0, r.text[1] \in Starts,
         NEW c \in 1 .. Len(t), MemberAt(t, m, k, r, c),
         NEW s \in {"FETCH_KEY", "FETCH_KEY_AFTER_COMMA"}
  PROVE  MemberReads(Reading(t), t, s, m, k) /\ MemberPlaces(t, m, k, r, c)
<1> DEFINE R == Reading(t)
           q == Past(t, m, Blank)
           key == ParseString(t, q)
           x == m + Len(k) + 1
           z == x + 2
           u == Until(t, key.at + 1, {":"})
           v == Past(t, u + 1, Blank)
           val == R[<<"FETCH_VALUE", v>>]
           d == Past(t, val.at + 1, Blank)
           rest == R[<<"FETCH_KEY_AFTER_COMMA", d + 1>>]
<1>0. Len(t) \in Nat /\ Len(k) \in Nat /\ Len(r.text) \in Nat /\ m \in Nat \ {0} /\ m \in 1 .. Len(t)
      /\ c \in Nat /\ c <= Len(t)
  <2>1. m \in 1 .. Len(t)
    BY DEF MemberAt
  <2>2. Len(t) \in Nat /\ Len(k) \in Nat /\ Len(r.text) \in Nat
    BY LenProperties
  <2> QED BY <2>1, <2>2
<1>1. x \in 1 .. Len(t) /\ x + 1 \in 1 .. Len(t) /\ z \in 1 .. Len(t) /\ c \in 1 .. Len(t) /\ c = z + Len(r.text)
  <2> DEFINE l == Len(k)
             w == Len(r.text)
             N == Len(t)
  <2>1. m + l + 2 <= N /\ m \in Nat \ {0} /\ l \in Nat /\ w \in Nat \ {0} /\ N \in Nat
    BY <1>0 DEF MemberAt
  <2>4. c \in 1 .. N
    OBVIOUS
  <2>2. c = m + l + 3 + w
    BY DEF MemberAt
  <2>5. x = m + l + 1 /\ z = x + 2
    OBVIOUS
  <2> HIDE DEF l, w, N, x, z
  <2>3. x \in 1 .. N /\ x + 1 \in 1 .. N /\ z \in 1 .. N /\ c \in 1 .. N /\ c = z + w
    BY <2>1, <2>2, <2>4, <2>5
  <2> QED BY <2>3 DEF N, w
<1>2. t[m] = Quote /\ t[x] = Quote /\ t[x + 1] = ":" /\ Holds(t, m + 1, k) /\ Holds(t, z, r.text)
  <2>1. m + Len(k) + 2 = x + 1 /\ m + Len(k) + 3 = z
    BY <1>0
  <2> QED BY <2>1, Zenon DEF MemberAt
<1>3. q = m
  <2>1. m \in 1 .. Len(t) /\ t[m] \notin Blank
    BY <1>2 DEF MemberAt, Blank, Quote, Space
  <2> QED BY <2>1, PastHere
<1>4. key.value = k /\ key.at = x
  <2>1. \A i \in 1 .. Len(k) : k[i] \notin {Quote, Backslash}
    BY LenProperties DEF KeptKey, Contains
  <2>2. m + 1 \in Nat \ {0} /\ m + 1 + Len(k) = x
    BY <1>0
  <2>3. StringRests(t)[m + 1] = Returns(k, m + 1 + Len(k))
    <3>1. m + 1 + Len(k) <= Len(t) /\ t[m + 1 + Len(k)] = Quote
      BY <1>0, <1>1, <1>2, <2>2
    <3> HIDE DEF x
    <3> QED BY <1>2, <2>1, <2>2, <3>1, PlainIsRead, Zenon
  <2>4. key = Returns(k, x)
    BY <1>3, <2>2, <2>3 DEF ParseString
  <2> HIDE DEF key, x
  <2> QED BY <2>4, ReturnsIs
<1> HIDE DEF q, key, x, z
<1>5. u = x + 1
  <2> DEFINE y == x + 1
  <2>0. t[y] \in {":"} /\ y \in 1 .. Len(t)
    BY <1>1, <1>2
  <2> HIDE DEF y
  <2>1. y \in y .. Len(t) /\ \A j \in y .. y - 1 : t[j] \notin {":"}
    BY <1>0, <2>0
  <2>2. Until(t, y, {":"}) = y
    BY <2>0, <2>1, UntilTo, SMTT(30)
  <2> QED BY <1>4, <2>2 DEF y
<1>6. t[z] \notin Blank
  <2>1. 1 \in 1 .. Len(r.text) /\ z + 1 - 1 = z
    BY <1>0, <1>1
  <2>2. t[z + 1 - 1] = r.text[1]
    BY <1>2, <2>1, Zenon DEF Holds
  <2> QED BY <2>1, <2>2 DEF Starts, Blank
<1>7. v = z
  <2>1. u + 1 = z
    BY <1>0, <1>1, <1>5 DEF x, z
  <2>2. Past(t, z, Blank) = z
    BY <1>1, <1>6, PastHere
  <2> QED BY <2>1, <2>2
<1> HIDE DEF u, v, val
<1>8. R[<<s, m>>] = MoreMembers(R, t, s, m)
  <2>1. m \in 1 .. Len(t) + 1
    BY <1>0, <1>1 DEF MemberAt
  <2> QED BY <2>1, ReadingStep, Zenon DEF ReadingAt
<1> HIDE DEF R, d
<1>9. /\ ~(At(t, q) = RightBrace /\ q <= Len(t)) /\ ~(q <= Len(t) /\ At(t, q) # Quote)
      /\ ~(q > Len(t) \/ v > Len(t))
  <2>1. At(t, q) = Quote /\ q <= Len(t) /\ q \in Nat
    BY <1>0, <1>1, <1>2, <1>3 DEF At, MemberAt
  <2>2. v <= Len(t) /\ v \in Nat
    BY <1>0, <1>1, <1>7
  <2>3. Quote # RightBrace
    BY DEF Quote, RightBrace
  <2> QED BY <1>0, <2>1, <2>2, <2>3
<1>10. R[<<s, m>>] =
         IF val.how # "returned" THEN val
         ELSE IF d > Len(t) \/ At(t, d) = RightBrace
           THEN Returns(PutBefore(key.value, val.value, Null), d)
         ELSE IF At(t, d) # Comma THEN Throws
         ELSE IF rest.how # "returned" THEN rest
         ELSE Returns(PutBefore(key.value, val.value, rest.value), rest.at)
  <2>1. MoreMembers(R, t, s, m) =
         IF At(t, q) = RightBrace /\ q <= Len(t)
                        THEN IF s = "FETCH_KEY" THEN Returns(Null, q) ELSE Throws
                      ELSE IF q <= Len(t) /\ At(t, q) # Quote THEN Throws
                      ELSE IF q > Len(t) \/ v > Len(t) THEN Returns(Null, Len(t) + 1)
                      ELSE IF val.how # "returned" THEN val
                      ELSE IF d > Len(t) \/ At(t, d) = RightBrace
                        THEN Returns(PutBefore(key.value, val.value, Null), d)
                      ELSE IF At(t, d) # Comma THEN Throws
                      ELSE IF rest.how # "returned" THEN rest
                      ELSE Returns(PutBefore(key.value, val.value, rest.value), rest.at)
    BY DEF MoreMembers, q, key, u, v, val, d, rest
  <2> HIDE DEF rest
  <2> QED BY <1>8, <1>9, <2>1
<1>11. m + Len(k) + 3 = z
  BY <1>0 DEF x, z
<1>12. MemberReads(R, t, s, m, k)
  BY <1>4, <1>7, <1>10, <1>11, Zenon DEF MemberReads, val, d, rest
<1>13. MemberPlaces(t, m, k, r, c)
  <2>1. z = x + 2
    BY DEF z
  <2> QED BY <1>1, <1>2, <1>6, <1>11, <2>1, Zenon DEF MemberPlaces, x
<1> QED BY <1>12, <1>13 DEF R

\* A member whose key is kept and whose element is read to its end is found.
LEMMA MemberIsRead ==
  ASSUME NEW t \in Seq(Symbol), NEW m, NEW k \in Seq(Symbol), KeptKey(k), NEW r, NEW width,
         r.text \in Seq(Symbol), Len(r.text) > 0, r.text[1] \in Starts,
         \A p \in 1 .. Len(t) : ReadsAt(r, width, t, p),
         NEW c \in 1 .. Len(t), MemberAt(t, m, k, r, c),
         NEW s \in {"FETCH_KEY", "FETCH_KEY_AFTER_COMMA"}
  PROVE  MemberFound(t, s, m, k, r, width, c)
<1> DEFINE R == Reading(t)
           z == m + Len(k) + 3
           val == R[<<"FETCH_VALUE", z>>]
           d == Past(t, val.at + 1, Blank)
           rest == R[<<"FETCH_KEY_AFTER_COMMA", d + 1>>]
<1>1. MemberReads(R, t, s, m, k) /\ MemberPlaces(t, m, k, r, c)
  BY MemberStart, Zenon
<1>2. z \in 1 .. Len(t) /\ Holds(t, z, r.text) /\ c = z + Len(r.text)
  BY <1>1 DEF MemberPlaces
<1>3. R[<<s, m>>] =
         IF val.how # "returned" THEN val
         ELSE IF d > Len(t) \/ At(t, d) = RightBrace
           THEN Returns(PutBefore(k, val.value, Null), d)
         ELSE IF At(t, d) # Comma THEN Throws
         ELSE IF rest.how # "returned" THEN rest
         ELSE Returns(PutBefore(k, val.value, rest.value), rest.at)
  BY <1>1 DEF MemberReads
<1> HIDE DEF z
<1>4. val.how = "returned" /\ val.at = c - 1 /\ Found(val.value, r, width)
  <2>1. ReadsAt(r, width, t, z)
    BY <1>2
  <2>2. Followed(t, z + Len(r.text), Type(r.tree))
    <3>1. t[c] \in NumberEnds
      BY Zenon DEF MemberAt, NumberEnds
    <3>2. c <= Len(t)
      BY LenProperties
    <3> QED BY <1>2, <3>1, <3>2 DEF Followed
  <2>3. z + Len(r.text) - 1 = c - 1
    <3> DEFINE w == Len(r.text)
    <3>1. c = z + w /\ w \in Nat /\ z \in Nat
      BY <1>2, LenProperties
    <3> HIDE DEF w
    <3>2. z + w - 1 = c - 1
      BY <3>1
    <3> QED BY <3>2 DEF w
  <2> QED BY <1>2, <2>1, <2>2, <2>3 DEF ReadsAt
<1> HIDE DEF val, R
<1>5. d = c
  <2>1. val.at + 1 = c
    BY <1>4
  <2>2. t[c] \notin Blank
    BY Zenon DEF MemberAt, Blank, Comma, RightBrace, Space
  <2>3. Past(t, c, Blank) = c
    BY <2>2, PastHere
  <2> QED BY <2>1, <2>3
<1>6. d <= Len(t) /\ At(t, d) = t[c] /\ ~(d > Len(t)) /\ Comma # RightBrace
  BY <1>5 DEF At, Comma, RightBrace
<1> HIDE DEF d
<1>7. t[c] = RightBrace => R[<<s, m>>] = Returns(PutBefore(k, val.value, Null), c)
  BY <1>3, <1>4, <1>5, <1>6
<1>8. t[c] = Comma /\ R[<<"FETCH_KEY_AFTER_COMMA", c + 1>>].how = "returned" =>
        R[<<s, m>>] = Returns(PutBefore(k, val.value, R[<<"FETCH_KEY_AFTER_COMMA", c + 1>>].value),
                              R[<<"FETCH_KEY_AFTER_COMMA", c + 1>>].at)
  BY <1>3, <1>4, <1>5, <1>6
<1>9. MemberGives(Reading(t), t, s, m, k, val.value, c)
  BY <1>7, <1>8 DEF R, MemberGives
<1> QED BY <1>4, <1>9 DEF MemberFound

\* An object is read to its end if its members are: from each key on, by induction
\* down from the last one.
LEMMA ObjectIsSynced ==
  ASSUME NEW keys \in SUBSET Key, NEW ws, DOMAIN ws = keys, NEW width \in {1, 2},
         \A k \in keys : Synced(ws[k], width)
  PROVE  Synced(WrittenObject(ws), width)
<1> DEFINE N == Len(KeyOrder)
           r == WrittenObject(ws)
           texts == [k \in keys |-> ws[k].text]
           trees == [k \in keys |-> ws[k].tree]
           rests == ObjectRests(texts)
           open == <<LeftBrace>>
           Members(i) == {KeyOrder[j] : j \in i .. N} \cap keys
<1>0. N \in Nat
  BY KeysAre
<1>1. /\ texts \in [keys -> Seq(Symbol)]
      /\ \A k \in keys : texts[k] = ws[k].text /\ texts[k] \in Seq(Symbol) /\ Len(texts[k]) > 0
                         /\ texts[k][1] \in Starts
  <2>1. \A k \in keys : ws[k].text \in Seq(Symbol) /\ Len(ws[k].text) > 0 /\ ws[k].text[1] \in Starts
    BY DEF Synced
  <2> QED BY <2>1
<1>2. DOMAIN trees = keys /\ \A k \in keys : trees[k] = ws[k].tree
  OBVIOUS
<1>3. /\ r.tree = <<"OBJECT", MakeObject(trees)>> /\ r.text = open \o rests[1]
      /\ r.nodes = {r.tree} \cup UNION {ws[k].nodes : k \in keys}
  BY DEF WrittenObject, ObjectText
<1>4. /\ Type(r.tree) = "OBJECT" /\ Value(r.tree) = MakeObject(trees)
      /\ Value(r.tree).elements = trees /\ ~Value(r.tree).null
      /\ r.tree \in r.nodes
      /\ \A k \in keys : ws[k].nodes \subseteq r.nodes
  BY <1>3 DEF Type, Value, MakeObject
<1> HIDE DEF N, r, texts, trees, rests
<1>5. \A i \in 1 .. N + 1 : ObjectAt(rests, texts, i)
  BY <1>1, ObjectStep DEF rests, N
<1>6. open \in Seq(Symbol) /\ Len(open) = 1 /\ open[1] = LeftBrace /\ LeftBrace \in Starts
  BY Literals, OneSymbol DEF Starts, Space, LeftBrace
<1> HIDE DEF open
<1>7. \A i \in 1 .. N + 1 : rests[i] \in Seq(Symbol) /\ Len(rests[i]) \in Nat
  <2> SUFFICES ASSUME NEW i \in 1 .. N + 1 PROVE rests[i] \in Seq(Symbol) /\ Len(rests[i]) \in Nat
    OBVIOUS
  <2>1. rests[i] \in Seq(Symbol)
    BY <1>5 DEF ObjectAt
  <2> QED BY <2>1, LenProperties
<1>8. rests[N + 1] = <<RightBrace>>
  <2>1. N + 1 \in 1 .. N + 1 /\ N + 1 > N
    BY <1>0
  <2>2. ObjectAt(rests, texts, N + 1)
    BY <1>5, <2>1
  <2> QED BY <2>1, <2>2 DEF ObjectAt, N
<1>9. \A i \in 1 .. N : rests[i] = MemberText(texts, i) \o rests[i + 1]
  <2> SUFFICES ASSUME NEW i \in 1 .. N PROVE rests[i] = MemberText(texts, i) \o rests[i + 1]
    OBVIOUS
  <2>1. i \in 1 .. N + 1 /\ i <= N
    BY <1>0
  <2>2. ObjectAt(rests, texts, i)
    BY <1>5, <2>1
  <2> QED BY <2>1, <2>2, Zenon DEF ObjectAt, N
<1>10. r.text \in Seq(Symbol) /\ Len(r.text) = 1 + Len(rests[1]) /\ Len(r.text) > 0 /\ r.text[1] = LeftBrace
  <2>0. 1 \in 1 .. N + 1
    BY <1>0
  <2>1. rests[1] \in Seq(Symbol) /\ Len(rests[1]) \in Nat
    BY <1>7, <2>0
  <2>2. open \o rests[1] \in Seq(Symbol) /\ Len(open \o rests[1]) = Len(open) + Len(rests[1])
        /\ (Len(open) > 0 => (open \o rests[1])[1] = open[1])
    BY <1>6, <2>1, ConcatIs, Zenon
  <2>3. Len(open) > 0
    BY <1>6
  <2> QED BY <1>3, <1>6, <2>1, <2>2, <2>3
<1>11. \A i \in 1 .. N : /\ KeyOrder[i] \in keys => Members(i) = {KeyOrder[i]} \cup Members(i + 1)
                         /\ KeyOrder[i] \notin keys => Members(i) = Members(i + 1)
  <2> SUFFICES ASSUME NEW i \in 1 .. N
               PROVE  {KeyOrder[j] : j \in i .. N} = {KeyOrder[i]} \cup {KeyOrder[j] : j \in i + 1 .. N}
    OBVIOUS
  <2>1. i .. N = {i} \cup (i + 1 .. N)
    BY <1>0
  <2> QED BY <2>1
<1>12. Members(1) = keys /\ Members(N + 1) = {}
  <2>1. N + 1 .. N = {}
    BY <1>0
  <2>2. \A k \in keys : \E j \in 1 .. N : k = KeyOrder[j]
    BY KeysAre DEF N
  <2> QED BY <2>1, <2>2
<1>13. ASSUME Leads(r.nodes, width) PROVE \A k \in keys : KeptKey(k) /\ Leads(ws[k].nodes, width)
  <2>1. ~Misleads(r.tree, width)
    BY <1>4, <1>13 DEF Leads
  <2>2. \A k \in keys : KeptKey(k)
    BY <1>2, <1>4, <2>1 DEF Misleads
  <2>3. \A k \in keys : Leads(ws[k].nodes, width)
    BY <1>4, <1>13 DEF Leads
  <2> QED BY <2>2, <2>3
<1>14. ASSUME Kept(r.nodes, width) PROVE keys # {} /\ \A k \in keys : Kept(ws[k].nodes, width)
  <2>1. KeptNode(r.tree, width)
    BY <1>4, <1>14 DEF Kept
  <2>2. keys # {}
    BY <1>2, <1>4, <2>1 DEF KeptNode
  <2>3. \A k \in keys : Kept(ws[k].nodes, width)
    BY <1>4, <1>14 DEF Kept
  <2> QED BY <2>2, <2>3
<1>15. ASSUME Leads(r.nodes, width), NEW t \in Seq(Symbol), NEW p0 \in 1 .. Len(t), Holds(t, p0, r.text)
       PROVE  LET res == Reading(t)[<<"FETCH_VALUE", p0>>]
              IN  res.how = "returned" /\ res.at = p0 + Len(r.text) - 1 /\ Found(res.value, r, width)
  <2> DEFINE R == Reading(t)
             Same(o, i) == /\ DOMAIN o.elements = Members(i)
                           /\ \A k \in Members(i) : Alike(o.elements[k], trees[k])
                           /\ Kept(r.nodes, width) /\ Members(i) # {} =>
                                o = MakeObject([k \in Members(i) |-> trees[k]])
             Ends(x, at, i) == x.how = "returned" /\ x.at = at /\ Same(x.value, i)
             First(p, i) == Ends(R[<<"FETCH_KEY", p>>], (p + Len(rests[i])) - 1, i)
             Later(p, i) ==
               /\ p <= Len(t)
               /\ Members(i) = {} => t[p] = RightBrace /\ Len(rests[i]) = 1
               /\ Members(i) # {} => /\ t[p] = Comma
                                     /\ Ends(R[<<"FETCH_KEY_AFTER_COMMA", p + 1>>], (p + Len(rests[i])) - 1, i)
             Claim(i) ==
               \A p \in Nat \ {0} :
                 Holds(t, p, rests[i]) =>
                   /\ Leading(keys, i) => First(p, i)
                   /\ ~Leading(keys, i) => Later(p, i)
             T == {i \in 1 .. N + 1 : Claim(i)}
  <2>0. Len(t) \in Nat /\ p0 \in Nat \ {0} /\ N + 1 \in Nat
    BY <1>0
  <2>1. Holds(t, p0, open) /\ Holds(t, p0 + 1, rests[1])
    <3>1. Holds(t, p0, open \o rests[1]) /\ 1 \in 1 .. N + 1
      BY <1>0, <1>3, <1>15
    <3>2. rests[1] \in Seq(Symbol)
      BY <1>7, <3>1
    <3> QED BY <1>6, <2>0, <3>1, <3>2, HoldsConcat, ZenonT(120)
  <2>2. t[p0] = LeftBrace
    BY <2>0, <2>1, HoldsOne DEF open
  <2>3. ASSUME NEW i \in 1 .. N + 1, \A j \in 1 .. N + 1 : j > i => j \in T PROVE i \in T
    <3> SUFFICES ASSUME NEW p \in Nat \ {0}, Holds(t, p, rests[i])
                 PROVE  /\ Leading(keys, i) => First(p, i)
                        /\ ~Leading(keys, i) => Later(p, i)
      BY Zenon
    <3>1. CASE i = N + 1
      <4>1. p <= Len(t) /\ t[p] = RightBrace /\ Len(rests[i]) = 1 /\ Members(i) = {}
        <5>1. rests[i] = <<RightBrace>> /\ Members(i) = {}
          BY <1>8, <1>12, <3>1
        <5>2. Holds(t, p, <<RightBrace>>)
          BY <5>1
        <5> HIDE DEF Members, T, Claim
        <5>3. p <= Len(t) /\ t[p] = RightBrace /\ Len(<<RightBrace>>) = 1
          BY <5>2, HoldsOne
        <5> QED BY <5>1, <5>3
      <4>2. ASSUME Leading(keys, i) PROVE First(p, i)
        <5> DEFINE q == Past(t, p, Blank)
                   x == R[<<"FETCH_KEY", p>>]
        <5>1. q = p
          <6>1. t[p] \notin Blank /\ p \in 1 .. Len(t)
            BY <2>0, <4>1 DEF Blank, RightBrace, Space
          <6> QED BY <6>1, PastHere
        <5>2. x = MoreMembers(R, t, "FETCH_KEY", p)
          <6>1. p \in 1 .. Len(t) + 1
            BY <2>0, <4>1
          <6> QED BY <6>1, ReadingStep, Zenon DEF ReadingAt
        <5>3. At(t, q) = RightBrace /\ q <= Len(t)
          BY <4>1, <5>1 DEF At
        <5>4. MoreMembers(R, t, "FETCH_KEY", p) = Returns(Null, q)
          BY <5>3 DEF MoreMembers
        <5> HIDE DEF q, x, Members
        <5>5. x.how = "returned" /\ x.at = p /\ x.value = Null
          BY <5>1, <5>2, <5>4, ReturnsIs
        <5>6. Same(Null, i)
          BY <4>1 DEF Null
        <5>7. (p + Len(rests[i])) - 1 = p
          BY <4>1
        <5> HIDE DEF Same
        <5>8. Ends(x, (p + Len(rests[i])) - 1, i)
          BY <5>5, <5>6, <5>7
        <5> QED BY <5>8 DEF x
      <4> HIDE DEF First, Members
      <4> QED BY <4>1, <4>2
    <3>2. CASE i # N + 1 /\ KeyOrder[i] \notin keys
      <4>1. i \in 1 .. N /\ i + 1 \in 1 .. N + 1 /\ i + 1 > i
        BY <1>0, <3>2
      <4>2. rests[i] = rests[i + 1]
        <5>1. MemberText(texts, i) = <<>> /\ DOMAIN texts = keys
          BY <1>1, <3>2 DEF MemberText
        <5>2. rests[i + 1] \in Seq(Symbol)
          BY <1>7, <4>1
        <5>3. <<>> \o rests[i + 1] = rests[i + 1]
          BY <5>2
        <5>4. rests[i] = MemberText(texts, i) \o rests[i + 1]
          BY <1>9, <4>1
        <5> QED BY <5>1, <5>3, <5>4
      <4>3. Members(i) = Members(i + 1)
        <5> HIDE DEF Members
        <5> QED BY <1>11, <3>2, <4>1
      <4>4. Leading(keys, i) <=> Leading(keys, i + 1)
        <5>1. \A j : j \in 1 .. (i + 1) - 1 <=> j \in 1 .. i - 1 \/ j = i
          BY <4>1
        <5> QED BY <3>2, <5>1, Zenon DEF Leading
      <4>5. Claim(i + 1)
        <5> HIDE DEF Claim
        <5> QED BY <2>3, <4>1
      <4>6. /\ Leading(keys, i + 1) => First(p, i + 1)
            /\ ~Leading(keys, i + 1) => Later(p, i + 1)
        <5> HIDE DEF First, Later
        <5> QED BY <4>2, <4>5
      <4> HIDE DEF Members, T
      <4>7. First(p, i) <=> First(p, i + 1)
        BY <4>2, <4>3
      <4>8. Later(p, i) <=> Later(p, i + 1)
        BY <4>2, <4>3
      <4> HIDE DEF First, Later
      <4> QED BY <4>4, <4>6, <4>7, <4>8
    <3>3. CASE i # N + 1 /\ KeyOrder[i] \in keys
      <4> DEFINE k == KeyOrder[i]
                 s == Shift(keys, i)
                 m == p + s
                 w == MemberText(texts, i)
                 c == p + Len(w)
                 st == IF Leading(keys, i) THEN "FETCH_KEY" ELSE "FETCH_KEY_AFTER_COMMA"
                 next == R[<<"FETCH_KEY_AFTER_COMMA", c + 1>>]
                 x == R[<<st, m>>]
                 L == Len(rests[i + 1])
      <4>1. i \in 1 .. N /\ i + 1 \in 1 .. N + 1 /\ i + 1 > i /\ i \in Nat
        BY <1>0, <3>3
      <4>0. s \in Nat
        BY DEF Shift
      <4>2. w \in Seq(Symbol) /\ Len(w) \in Nat
        <5>1. w \in Seq(Symbol)
          BY <1>1, <4>1, MemberTextType, Zenon DEF N
        <5> QED BY <5>1, LenProperties
      <4>3. /\ ~Leading(keys, i) => p <= Len(t) /\ t[p] = Comma
            /\ Len(rests[i]) = Len(w) + L /\ L \in Nat
            /\ Holds(t, p, w) /\ Holds(t, c, rests[i + 1]) /\ MemberShown(t, p, keys, texts, i, k)
        <5>1. rests[i] = w \o rests[i + 1] /\ rests[i + 1] \in Seq(Symbol) /\ L \in Nat
          BY <1>7, <1>9, <4>1
        <5> HIDE DEF w
        <5>2. Len(w \o rests[i + 1]) = Len(w) + L /\ Holds(t, p, w) /\ Holds(t, c, rests[i + 1])
          BY <4>2, <5>1, HoldsConcat
        <5>3. MemberShown(t, p, keys, texts, i, k)
          <6>1. k \in keys /\ i \in 1 .. Len(KeyOrder) /\ k = KeyOrder[i] /\ texts \in [keys -> Seq(Symbol)]
            BY <1>1, <3>3, <4>1 DEF N
          <6>2. Holds(t, p, MemberText(texts, i))
            BY <5>2 DEF w
          <6> HIDE DEF k, s, m, c, st, x, next, T, Claim, First, Later, Ends, Same, Members
          <6> QED BY <6>1, <6>2, MemberHolds, Zenon
        <5>4. ~Leading(keys, i) => p <= Len(t) /\ t[p] = Comma
          BY <5>3 DEF MemberShown
        <5> QED BY <5>1, <5>2, <5>3, <5>4
      <4>4. ~Leading(keys, i + 1)
        <5>1. i \in 1 .. (i + 1) - 1
          BY <4>1
        <5> QED BY <3>3, <5>1 DEF Leading
      <4>5. c \in Nat \ {0} /\ Later(c, i + 1)
        <5>1. c \in Nat \ {0}
          BY <4>2
        <5>2. Claim(i + 1)
          <6> HIDE DEF Claim
          <6> QED BY <2>3, <4>1
        <5> HIDE DEF Later, First
        <5> QED BY <4>3, <4>4, <5>1, <5>2
      <4>6. c \in 1 .. Len(t) /\ t[c] \in {Comma, RightBrace}
        <5>1. c <= Len(t) /\ t[c] \in {Comma, RightBrace}
          BY <4>5, Zenon
        <5> HIDE DEF c
        <5> QED BY <2>0, <4>5, <5>1
      <4>7. MemberAt(t, m, k, ws[k], c)
        <5>1. k \in keys /\ texts[k] = ws[k].text /\ k \in Seq(Symbol) /\ Len(k) \in Nat /\ Len(texts[k]) \in Nat
          <6>1. k \in keys /\ texts[k] = ws[k].text /\ k \in Seq(Symbol) /\ texts[k] \in Seq(Symbol)
            BY <1>1, <3>3, <4>1, KeysAre, Zenon DEF N
          <6> QED BY <6>1, LenProperties
        <5>2. /\ p + s + Len(k) + 2 <= Len(t)
              /\ t[p + s] = Quote /\ Holds(t, p + s + 1, k) /\ t[p + s + Len(k) + 1] = Quote
              /\ t[p + s + Len(k) + 2] = ":"
              /\ Holds(t, p + s + Len(k) + 3, texts[k])
              /\ Len(w) = s + Len(k) + 3 + Len(texts[k])
          BY <4>3 DEF MemberShown
        <5> HIDE DEF s, k, w
        <5>3. c = m + Len(k) + 3 + Len(texts[k]) /\ m \in 1 .. Len(t)
          <6> DEFINE a == Len(k)
                     b == Len(texts[k])
                     d == Len(w)
          <6>1. a \in Nat /\ b \in Nat /\ p + s + a + 2 <= Len(t) /\ d = s + a + 3 + b
            BY <5>1, <5>2
          <6> HIDE DEF a, b, d
          <6>2. p + d = (p + s) + a + 3 + b /\ p + s \in 1 .. Len(t)
            BY <2>0, <4>0, <6>1
          <6> QED BY <6>2 DEF a, b, d
        <5> HIDE DEF c
        <5> QED BY <4>6, <5>1, <5>2, <5>3 DEF MemberAt
      <4>8. \E v : Found(v, ws[k], width) /\ MemberGives(Reading(t), t, st, m, k, v, c)
        <5>1. k \in keys /\ k \in Seq(Symbol) /\ KeptKey(k) /\ Leads(ws[k].nodes, width)
          BY <1>13, <1>15, <3>3, <4>1, KeysAre DEF N
        <5>2. Synced(ws[k], width)
          BY <5>1
        <5>3. /\ ws[k].text \in Seq(Symbol) /\ Len(ws[k].text) > 0 /\ ws[k].text[1] \in Starts
              /\ \A q \in 1 .. Len(t) : ReadsAt(ws[k], width, t, q)
          BY <5>1, <5>2 DEF Synced
        <5>4. st \in {"FETCH_KEY", "FETCH_KEY_AFTER_COMMA"}
          OBVIOUS
        <5> HIDE DEF k, m, c, st, T, Claim, Later, First, Members, Same, Ends
        <5> DEFINE q == ws[k]
        <5>5. MemberAt(t, m, k, q, c) /\ q.text \in Seq(Symbol) /\ Len(q.text) > 0 /\ q.text[1] \in Starts
              /\ \A p1 \in 1 .. Len(t) : ReadsAt(q, width, t, p1)
          BY <4>7, <5>3
        <5> HIDE DEF q
        <5> HIDE DEF x, next, w, s
        <5>6. MemberFound(t, st, m, k, q, width, c)
          BY <4>6, <5>1, <5>4, <5>5, MemberIsRead
        <5> QED BY <5>6 DEF q, MemberFound
      <4>9. PICK v : Found(v, ws[k], width) /\ MemberGives(Reading(t), t, st, m, k, v, c)
        BY <4>8, Zenon
      <4>15. /\ t[c] = RightBrace => x = Returns(PutBefore(k, v, Null), c)
             /\ t[c] = Comma /\ next.how = "returned" => x = Returns(PutBefore(k, v, next.value), next.at)
        <5> HIDE DEF k, m, c, st
        <5> QED BY <4>9 DEF MemberGives
      <4>10. Alike(v, trees[k]) /\ (Kept(r.nodes, width) => v = trees[k])
        <5>1. k \in keys
          BY <3>3
        <5> HIDE DEF k
        <5> QED BY <1>2, <1>14, <4>9, <5>1 DEF Found
      <4>11. ASSUME NEW o, Same(o, i + 1), Kept(r.nodes, width) => (Members(i + 1) = {} \/ o.elements = [y \in Members(i + 1) |-> trees[y]])
             PROVE  Same(PutBefore(k, v, o), i)
        <5>1. Members(i) = {k} \cup Members(i + 1) /\ k \in Members(i)
          BY <1>11, <3>3, <4>1
        <5> HIDE DEF k, Members
        <5>2. DOMAIN o.elements = Members(i + 1) /\ \A y \in Members(i + 1) : Alike(o.elements[y], trees[y])
          BY <4>11
        <5> DEFINE E == [y \in {k} \cup DOMAIN o.elements |-> IF y = k THEN v ELSE o.elements[y]]
        <5>3. PutBefore(k, v, o) = MakeObject(E) /\ PutBefore(k, v, o).elements = E
          BY DEF PutBefore, MakeObject
        <5>4. DOMAIN E = Members(i) /\ \A y \in Members(i) : E[y] = IF y = k THEN v ELSE o.elements[y]
          BY <5>1, <5>2
        <5>5. \A y \in Members(i) : Alike(E[y], trees[y])
          BY <4>10, <5>1, <5>2, <5>4
        <5>6. ASSUME Kept(r.nodes, width) PROVE E = [y \in Members(i) |-> trees[y]]
          <6>1. \A y \in Members(i) : y # k => o.elements[y] = trees[y]
            BY <4>11, <5>1, <5>6
          <6>2. \A y \in Members(i) : (IF y = k THEN v ELSE o.elements[y]) = trees[y]
            BY <4>10, <5>6, <6>1
          <6> QED BY <5>1, <5>2, <6>2
        <5> HIDE DEF E
        <5> QED BY <5>3, <5>4, <5>5, <5>6
      <4>12. Ends(x, (p + Len(rests[i])) - 1, i)
        <5>1. (p + Len(rests[i])) - 1 = (c + L) - 1
          <6> DEFINE a == Len(w)
                     b == Len(rests[i])
          <6>1. a \in Nat /\ L \in Nat /\ b = a + L
            BY <4>2, <4>3
          <6> HIDE DEF a, b, L
          <6>2. (p + b) - 1 = ((p + a) + L) - 1
            BY <6>1
          <6> QED BY <6>2 DEF a, b
        <5>2. CASE Members(i + 1) = {}
          <6>1. t[c] = RightBrace /\ L = 1
            BY <4>5, <5>2
          <6>2. Same(Null, i + 1)
            BY <5>2 DEF Null
          <6>3. Same(PutBefore(k, v, Null), i)
            <7> HIDE DEF Same, Members
            <7> QED BY <4>11, <5>2, <6>2, Zenon
          <6>4. x = Returns(PutBefore(k, v, Null), c)
            BY <4>15, <6>1
          <6> HIDE DEF x, Same, c
          <6>5. x.how = "returned" /\ x.at = c /\ x.value = PutBefore(k, v, Null)
            BY <6>4, ReturnsIs
          <6>6. (c + L) - 1 = c
            BY <4>5, <6>1
          <6> QED BY <5>1, <6>3, <6>5, <6>6
        <5>3. CASE Members(i + 1) # {}
          <6>1. t[c] = Comma /\ Ends(next, (c + L) - 1, i + 1)
            BY <4>5, <5>3, Zenon
          <6>2. next.how = "returned" /\ next.at = (c + L) - 1 /\ Same(next.value, i + 1)
            BY <6>1, Zenon
          <6>3. Kept(r.nodes, width) => next.value.elements = [y \in Members(i + 1) |-> trees[y]]
            <7> HIDE DEF next, Members
            <7>1. Kept(r.nodes, width) => next.value = MakeObject([y \in Members(i + 1) |-> trees[y]])
              BY <5>3, <6>2
            <7> QED BY <7>1 DEF MakeObject
          <6> HIDE DEF Same, Members, next, x, c
          <6>4. Same(PutBefore(k, v, next.value), i)
            BY <4>11, <6>2, <6>3
          <6>5. x = Returns(PutBefore(k, v, next.value), next.at)
            BY <4>15, <6>1, <6>2
          <6>6. x.how = "returned" /\ x.at = next.at /\ x.value = PutBefore(k, v, next.value)
            <7> DEFINE y == PutBefore(k, v, next.value)
                       z == next.at
            <7>1. x = Returns(y, z)
              BY <6>5
            <7> HIDE DEF y, z
            <7>2. x.how = "returned" /\ x.at = z /\ x.value = y
              BY <7>1, ReturnsIs
            <7> QED BY <7>2 DEF y, z
          <6> QED BY <5>1, <6>2, <6>4, <6>6
        <5> QED BY <5>2, <5>3, Zenon
      <4>13. CASE Leading(keys, i)
        <5>1. m = p /\ st = "FETCH_KEY"
          BY <4>13 DEF Shift
        <5> HIDE DEF Ends
        <5> QED BY <4>12, <4>13, <5>1
      <4>14. CASE ~Leading(keys, i)
        <5>1. m = p + 1 /\ st = "FETCH_KEY_AFTER_COMMA"
          BY <4>14 DEF Shift
        <5>2. Members(i) # {}
          BY <1>11, <3>3, <4>1
        <5> HIDE DEF Ends, Members
        <5> QED BY <4>3, <4>12, <4>14, <5>1, <5>2, Zenon
      <4> QED BY <4>13, <4>14, Zenon
    <3> QED BY <3>1, <3>2, <3>3, Zenon
  <2>4. 1 \in T
    <3>1. 1 \in 1 .. N + 1
      BY <1>0
    <3>2. \A i \in 1 .. N + 1 : i \in T
      <4> HIDE DEF T
      <4> QED BY <2>0, <2>3, Downward, Zenon
    <3> QED BY <3>1, <3>2, Zenon
  <2> DEFINE res == R[<<"FETCH_VALUE", p0>>]
             all == R[<<"FETCH_KEY", p0 + 1>>]
  <2>5. Ends(all, p0 + Len(rests[1]), 1)
    <3>1. Leading(keys, 1)
      BY DEF Leading
    <3>2. p0 + 1 \in Nat \ {0}
      BY <2>0
    <3>3. First(p0 + 1, 1)
      <4> HIDE DEF First, Later
      <4> QED BY <2>1, <2>4, <3>1, <3>2
    <3>4. ((p0 + 1) + Len(rests[1])) - 1 = p0 + Len(rests[1])
      <4> DEFINE l == Len(rests[1])
      <4>1. 1 \in 1 .. N + 1
        BY <1>0
      <4>2. l \in Nat
        BY <1>7, <4>1
      <4> HIDE DEF l
      <4>3. ((p0 + 1) + l) - 1 = p0 + l
        BY <2>0, <4>2
      <4> QED BY <4>3, Zenon DEF l
    <3> HIDE DEF Ends
    <3> QED BY <3>3, <3>4, Zenon
  <2>6. all.how = "returned" /\ all.at = p0 + Len(rests[1]) /\ Same(all.value, 1)
    BY <2>5, Zenon
  <2>7. res = Typed("OBJECT", all)
    <3>1. res = ParseValue(R, t, p0)
      <4>1. p0 \in 1 .. Len(t) + 1
        BY <2>0
      <4> QED BY <4>1, ReadingStep, Zenon DEF ReadingAt
    <3>2. At(t, p0) = LeftBrace
      BY <2>0, <2>2 DEF At
    <3>3. ParseValue(R, t, p0) = Typed("OBJECT", ParseObject(R, t, p0))
      BY <3>2, ValueCases
    <3>4. ParseObject(R, t, p0) = all
      BY <3>2 DEF ParseObject, LeftBrace
    <3> QED BY <3>1, <3>3, <3>4
  <2> HIDE DEF res, all
  <2>8. res.how = "returned" /\ res.at = p0 + Len(rests[1]) /\ res.value = <<"OBJECT", all.value>>
    <3>1. res = Returns(<<"OBJECT", all.value>>, all.at)
      BY <2>6, <2>7 DEF Typed
    <3> QED BY <2>6, <3>1, ReturnsIs
  <2>9. p0 + Len(rests[1]) = p0 + Len(r.text) - 1
    <3> DEFINE l == Len(rests[1])
               u == Len(r.text)
    <3>1. 1 \in 1 .. N + 1
      BY <1>0
    <3>2. l \in Nat /\ u = 1 + l
      BY <1>7, <1>10, <3>1
    <3> HIDE DEF l, u
    <3>3. p0 + l = p0 + u - 1
      BY <2>0, <3>2
    <3> QED BY <3>3 DEF l, u
  <2>10. /\ DOMAIN all.value.elements = keys
         /\ \A k \in keys : Alike(all.value.elements[k], trees[k])
    BY <1>12, <2>6
  <2>11. Kept(r.nodes, width) => all.value = MakeObject(trees)
    <3>1. trees = [k \in keys |-> trees[k]]
      BY DEF trees
    <3>2. Kept(r.nodes, width) => keys # {}
      BY <1>14
    <3> HIDE DEF Members
    <3>3. Kept(r.nodes, width) => all.value = MakeObject([k \in keys |-> trees[k]])
      BY <1>12, <2>6, <3>2, Zenon
    <3> QED BY <3>1, <3>3
  <2>12. Type(res.value) = "OBJECT" /\ Value(res.value) = all.value
    BY <2>8 DEF Type, Value
  <2>13. Found(res.value, r, width)
    <3>1. Alike(res.value, r.tree)
      BY <1>4, <2>12 DEF Alike
    <3>2. Kept(r.nodes, width) => res.value = r.tree
      BY <1>3, <2>8, <2>11
    <3> QED BY <1>2, <1>4, <2>10, <2>12, <3>1, <3>2 DEF Found
  <2> QED BY <2>8, <2>9, <2>13 DEF res
<1>16. r.text[1] \in Starts
  BY <1>6, <1>10
<1> QED BY <1>4, <1>10, <1>15, <1>16 DEF Synced, ReadsAt, r

\* A null object is read to its end.
LEMMA NullIsSynced ==
  ASSUME NEW width
  PROVE  Synced(WrittenNull, width)
<1> DEFINE r == WrittenNull
           v == <<"OBJECT", Null>>
           c == "null"
<1>1. r.text = <<c>> /\ r.nodes = {r.tree} /\ r.tree = v /\ c \in Starts
  BY Literals DEF WrittenNull, Starts, Space
<1>2. r.text \in Seq(Symbol) /\ Len(r.text) = 1 /\ r.text[1] = c
  <2>1. c \in Symbol
    BY Literals
  <2> QED BY <1>1, <2>1, OneSymbol
<1> HIDE DEF r
<1>3. Found(v, r, width)
  BY <1>1 DEF Found, Alike
<1>4. ASSUME NEW t \in Seq(Symbol), NEW p \in 1 .. Len(t), Holds(t, p, r.text)
      PROVE  LET res == Reading(t)[<<"FETCH_VALUE", p>>]
             IN  res.how = "returned" /\ res.at = p + Len(r.text) - 1 /\ Found(res.value, r, width)
  <2>0. p \in Nat \ {0} /\ p \in 1 .. Len(t) + 1
    OBVIOUS
  <2>1. p <= Len(t) /\ t[p] = c
    BY <1>1, <1>4, <2>0, HoldsOne
  <2>2. At(t, p) = c
    BY <2>1 DEF At
  <2> DEFINE res == Reading(t)[<<"FETCH_VALUE", p>>]
  <2>3. res = Typed("OBJECT", Returns(Null, p))
    <3>1. res = ParseValue(Reading(t), t, p)
      BY <2>0, ReadingStep, Zenon DEF ReadingAt
    <3>2. ParseValue(Reading(t), t, p) = Typed("OBJECT", ParseObject(Reading(t), t, p))
      BY <2>2, ValueCases
    <3>3. ParseObject(Reading(t), t, p) = Returns(Null, p)
      BY <2>2 DEF ParseObject, LeftBrace
    <3> QED BY <3>1, <3>2, <3>3
  <2>4. res = Returns(v, p)
    BY <2>3, ReturnsIs DEF Typed
  <2> HIDE DEF res, v
  <2>5. res.how = "returned" /\ res.at = p /\ res.value = v
    BY <2>4, ReturnsIs
  <2>6. p + Len(r.text) - 1 = p
    BY <1>2, <2>0
  <2> QED BY <1>3, <2>5, <2>6 DEF res
<1>5. Len(r.text) > 0 /\ r.text[1] \in Starts
  BY <1>1, <1>2
<1> QED BY <1>1, <1>2, <1>4, <1>5 DEF Synced, ReadsAt, r

-----------------------------------------------------------------------------
(* All that is written.                                                    *)

\* There are finitely many objects and arrays.
LEMMA ReferencesAreFinite == Cardinality(Reference) \in Nat
<1> DEFINE A == {<<"ARRAY", a>> : a \in Array}
           B == {<<"OBJECT", x>> : x \in Object}
           f == [a \in Array |-> <<"ARRAY", a>>]
           g == [x \in Object |-> <<"OBJECT", x>>]
<1>1. f \in Surjection(Array, A) /\ g \in Surjection(Object, B)
  BY Zenon DEF Surjection
<1>2. IsFiniteSet(A) /\ IsFiniteSet(B)
  <2> HIDE DEF A, B, f, g
  <2> QED BY <1>1, FS_Surjection, NodesAssumption
<1>3. IsFiniteSet(A \cup B)
  <2> HIDE DEF A, B
  <2> QED BY <1>2, FS_Union, Zenon
<1>4. Reference = A \cup B
  BY DEF Reference
<1> QED BY <1>3, <1>4, FS_CardinalityType

\* What is written for the elements, one step of it.
WrittenAt(f, width, n) ==
  \A e \in Scalars \cup Reference :
    /\ e \in Scalars => f[n][e] = WrittenScalar(e, width)
    /\ e \notin Scalars /\ n = 0 => f[n][e] = WrittenNull
    /\ e \notin Scalars /\ n # 0 => f[n][e] = WrittenNode(e, f[n - 1])

\* What is written is so at every depth.
LEMMA WrittenStep ==
  ASSUME NEW width, NEW n \in 0 .. Cardinality(Reference)
  PROVE  WrittenAt(Written(width), width, n)
<1> DEFINE N == Cardinality(Reference)
           S == Scalars \cup Reference
           Body(f, m) == [e \in S |-> IF e \in Scalars THEN WrittenScalar(e, width)
                                      ELSE IF m = 0 THEN WrittenNull ELSE WrittenNode(e, f[m - 1])]
           w == Written(width)
<1>0. N \in Nat
  BY ReferencesAreFinite
<1>1. ASSUME NEW h, h = [m \in 0 .. N |-> Body(h, m)] PROVE w = [m \in 0 .. N |-> Body(w, m)]
  BY <1>1, Zenon DEF Written
<1>2. ASSUME NEW f, NEW g, NEW m \in 0 .. N, m # 0 => f[m - 1] = g[m - 1]
      PROVE  Body(f, m) = Body(g, m)
  BY <1>2
<1> HIDE DEF N, Body, w
<1> DEFINE K == {k \in Nat : \E f : f = [m \in 0 .. N |-> f[m]] /\ \A m \in 0 .. N : m < k => f[m] = Body(f, m)}
<1>3. 0 \in K
  <2> DEFINE z == [m \in 0 .. N |-> 0]
  <2>1. z = [m \in 0 .. N |-> z[m]]
    OBVIOUS
  <2>2. \A m \in 0 .. N : ~(m < 0)
    BY <1>0
  <2> HIDE DEF z
  <2> QED BY <2>1, <2>2, Zenon
<1>4. ASSUME NEW k \in Nat \ {0}, k - 1 \in K PROVE k \in K
  <2>1. PICK f : f = [m \in 0 .. N |-> f[m]] /\ \A m \in 0 .. N : m < k - 1 => f[m] = Body(f, m)
    BY <1>4
  <2> DEFINE g == [m \in 0 .. N |-> Body(f, m)]
  <2>2. \A m \in 0 .. N : g[m] = Body(f, m)
    OBVIOUS
  <2>3. g = [m \in 0 .. N |-> g[m]]
    OBVIOUS
  <2> HIDE DEF g
  <2>4. ASSUME NEW m \in 0 .. N, m < k PROVE g[m] = Body(g, m)
    <3>1. m # 0 => f[m - 1] = g[m - 1]
      <4> SUFFICES ASSUME m # 0 PROVE f[m - 1] = g[m - 1]
        OBVIOUS
      <4>1. m - 1 \in 0 .. N /\ m - 1 < k - 1
        BY <1>0, <2>4
      <4> QED BY <2>1, <2>2, <4>1, Zenon
    <3> QED BY <1>2, <2>2, <3>1
  <2> QED BY <2>3, <2>4, Zenon
<1>5. N + 1 \in K
  <2>1. \A k \in Nat : k \in K
    <3> HIDE DEF K
    <3> QED BY <1>3, <1>4, SetInduction
  <2>2. N + 1 \in Nat
    BY <1>0
  <2> HIDE DEF K
  <2> QED BY <2>1, <2>2
<1>6. PICK f : f = [m \in 0 .. N |-> f[m]] /\ \A m \in 0 .. N : m < N + 1 => f[m] = Body(f, m)
  BY <1>5
<1>7. \A m \in 0 .. N : f[m] = Body(f, m)
  <2>1. \A m \in 0 .. N : m < N + 1
    BY <1>0
  <2> QED BY <1>6, <2>1
<1>8. f = [m \in 0 .. N |-> Body(f, m)]
  BY <1>6, <1>7
<1>9. w = [m \in 0 .. N |-> Body(w, m)]
  BY <1>1, <1>8
<1>10. w[n] = Body(w, n)
  <2>1. n \in 0 .. N
    BY DEF N
  <2> QED BY <1>9, <2>1, Zenon
<1>11. \A e \in S : w[n][e] = IF e \in Scalars THEN WrittenScalar(e, width)
                             ELSE IF n = 0 THEN WrittenNull ELSE WrittenNode(e, w[n - 1])
  BY <1>10 DEF Body
<1> HIDE DEF S
<1>12. ASSUME NEW e \in S
       PROVE  /\ e \in Scalars => w[n][e] = WrittenScalar(e, width)
              /\ e \notin Scalars /\ n = 0 => w[n][e] = WrittenNull
              /\ e \notin Scalars /\ n # 0 => w[n][e] = WrittenNode(e, w[n - 1])
  BY <1>11, Zenon
<1> QED BY <1>12 DEF WrittenAt, w, S

\* All that is written with a width.
AllWritten(width) ==
  {Written(width)[n][e] : n \in 0 .. Cardinality(Reference), e \in Scalars \cup Reference}

\* What holds of scalars, and of arrays and objects if it does of what is in them, holds
\* of all that is written.
LEMMA WrittenInduction ==
  ASSUME TypeOK, NEW width, NEW T,
         \A e \in Scalars : WrittenScalar(e, width) \in AllWritten(width) => WrittenScalar(e, width) \in T,
         WrittenNull \in AllWritten(width) => WrittenNull \in T,
         \A ws \in Seq(T) : WrittenArray(ws) \in AllWritten(width) => WrittenArray(ws) \in T,
         \A keys \in SUBSET Key : \A ws \in [keys -> T] :
           WrittenObject(ws) \in AllWritten(width) => WrittenObject(ws) \in T
  PROVE  AllWritten(width) \subseteq T
<1> DEFINE N == Cardinality(Reference)
           W == Written(width)
           S == Scalars \cup Reference
           All == AllWritten(width)
           K == {n \in Nat : n <= N => \A e \in S : W[n][e] \in T}
<1>0. N \in Nat
  BY ReferencesAreFinite
<1>1. \A n \in 0 .. N, e \in S : W[n][e] \in All
  BY DEF AllWritten
<1>2. \A n \in 0 .. N : WrittenAt(W, width, n)
  BY WrittenStep
<1> HIDE DEF N, W, All
<1>3. \A n \in 0 .. N, e \in Scalars : W[n][e] \in T
  <2> SUFFICES ASSUME NEW n \in 0 .. N, NEW e \in Scalars PROVE W[n][e] \in T
    OBVIOUS
  <2>1. W[n][e] = WrittenScalar(e, width)
    BY <1>2 DEF WrittenAt
  <2> QED BY <1>1, <2>1 DEF All
<1>4. 0 \in K
  <2> SUFFICES ASSUME NEW e \in S, e \notin Scalars PROVE W[0][e] \in T
    BY <1>0, <1>3
  <2>0. 0 \in 0 .. N
    BY <1>0
  <2>1. W[0][e] = WrittenNull
    BY <1>2, <2>0 DEF WrittenAt
  <2> QED BY <1>1, <2>0, <2>1 DEF All
<1>5. ASSUME NEW n \in Nat \ {0}, n - 1 \in K PROVE n \in K
  <2> SUFFICES ASSUME n <= N, NEW e \in S, e \notin Scalars PROVE W[n][e] \in T
    BY <1>0, <1>3
  <2>0. n \in 0 .. N /\ n - 1 \in 0 .. N /\ n - 1 <= N
    BY <1>0
  <2> DEFINE below == W[n - 1]
  <2>1. W[n][e] = WrittenNode(e, below)
    BY <1>2, <2>0 DEF WrittenAt
  <2>2. \A x \in S : below[x] \in T
    BY <1>5, <2>0
  <2>3. W[n][e] \in All
    BY <1>1, <2>0
  <2> HIDE DEF below, K
  <2>4. CASE e \in {<<"ARRAY", a>> : a \in Array}
    <3>1. PICK a \in Array : e = <<"ARRAY", a>>
      BY <2>4
    <3> DEFINE s == items[a]
               ws == [i \in 1 .. Len(s) |-> below[s[i]]]
    <3>2. s \in Seq(S)
      <4>1. s \in Seq(Items \cup Reference) /\ Items \cup Reference \subseteq S
        BY BoundAssumption DEF TypeOK
      <4> HIDE DEF S
      <4> QED BY <4>1
    <3>3. WrittenNode(e, below) = WrittenArray(ws)
      BY <3>1 DEF WrittenNode, Type, Value
    <3>4. ws \in Seq(T)
      <4>1. Len(s) \in Nat /\ \A i \in 1 .. Len(s) : s[i] \in S
        BY <3>2
      <4> HIDE DEF S, s
      <4>2. ws \in [1 .. Len(s) -> T]
        BY <2>2, <4>1
      <4> HIDE DEF ws
      <4> QED BY <4>1, <4>2, SequenceIs
    <3> HIDE DEF ws
    <3> QED BY <2>1, <2>3, <3>3, <3>4 DEF All
  <2>5. CASE e \in {<<"OBJECT", x>> : x \in Object}
    <3>1. PICK x \in Object : e = <<"OBJECT", x>>
      BY <2>5
    <3> DEFINE m == elements[map[x]]
               ws == [k \in DOMAIN m |-> below[m[k]]]
    <3>2. m \in Elements
      BY DEF TypeOK
    <3>3. PICK keys \in SUBSET Key : m \in [keys -> S]
      BY <3>2, Zenon DEF Elements
    <3>4. WrittenNode(e, below) = IF null[x] THEN WrittenNull ELSE WrittenObject(ws)
      BY <3>1 DEF WrittenNode, Type, Value
    <3> HIDE DEF m, S
    <3>5. ws \in [keys -> T]
      BY <2>2, <3>3
    <3> HIDE DEF ws
    <3>6. CASE null[x]
      BY <2>1, <2>3, <3>4, <3>6 DEF All
    <3>7. CASE ~null[x]
      BY <2>1, <2>3, <3>4, <3>5, <3>7 DEF All
    <3> QED BY <3>6, <3>7
  <2> QED BY <2>4, <2>5 DEF Reference
<1>6. \A n \in Nat : n \in K
  <2> HIDE DEF K
  <2> QED BY <1>4, <1>5, SetInduction
<1> SUFFICES ASSUME NEW n \in 0 .. N, NEW e \in S PROVE W[n][e] \in T
  BY DEF AllWritten, W, N
<1>7. n \in Nat /\ n <= N
  BY <1>0
<1> QED BY <1>6, <1>7

-----------------------------------------------------------------------------
(* All that is written is read.                                            *)

\* What is read back of a text.
Begins(r) == Type(r.tree) = "OBJECT" => r.text[1] \in {LeftBrace, "null"}

\* The elements have values of their types, and null objects are empty.
Nodes(nodes) ==
  \A e \in nodes : /\ Type(e) = "STRING" => Value(e) \in Seq(Symbol)
                   /\ Type(e) = "OBJECT" /\ Value(e).null => DOMAIN Value(e).elements = {}

\* The types of elements.
Types == {"STRING", "BOOLEAN", "INTEGER", "DOUBLE", "ARRAY", "OBJECT"}

\* An element and its members have types.
HasTypes(tree) ==
  /\ Type(tree) \in Types
  /\ Type(tree) = "OBJECT" => \A k \in DOMAIN Value(tree).elements : Type(Value(tree).elements[k]) \in Types

\* What holds of all that is written.
Shows(r, width) == Synced(r, width) /\ Begins(r) /\ Nodes(r.nodes) /\ HasTypes(r.tree)

\* An object that is not null begins with its brace.
LEMMA ObjectBegins ==
  ASSUME NEW keys \in SUBSET Key, NEW ws, DOMAIN ws = keys,
         \A k \in keys : ws[k].text \in Seq(Symbol)
  PROVE  WrittenObject(ws).text[1] = LeftBrace
<1> DEFINE texts == [k \in keys |-> ws[k].text]
           open == <<LeftBrace>>
           r == ObjectRests(texts)[1]
<1>1. WrittenObject(ws).text = open \o r
  BY DEF WrittenObject, ObjectText
<1>2. texts \in [keys -> Seq(Symbol)]
  OBVIOUS
<1> HIDE DEF texts
<1>3. r \in Seq(Symbol)
  <2>1. 1 \in 1 .. Len(KeyOrder) + 1
    BY KeysAre
  <2> QED BY <1>2, <2>1, ObjectStep DEF ObjectAt
<1>4. open \in Seq(Symbol) /\ Len(open) > 0 /\ open[1] = LeftBrace
  BY Literals, OneSymbol
<1> HIDE DEF r, open
<1>5. (open \o r)[1] = open[1]
  BY <1>3, <1>4, ConcatIs
<1> QED BY <1>1, <1>4, <1>5

\* Scalars are shown.
LEMMA ScalarShows ==
  ASSUME NEW e \in Scalars, NEW width \in {1, 2}
  PROVE  Shows(WrittenScalar(e, width), width) /\ Type(e) \in {"STRING", "BOOLEAN", "INTEGER", "DOUBLE"}
<1> DEFINE r == WrittenScalar(e, width)
<1>1. r.nodes = {e} /\ r.tree = e
  BY DEF WrittenScalar
<1>2. Type(e) \in {"STRING", "BOOLEAN", "INTEGER", "DOUBLE"} /\ (Type(e) = "STRING" => Value(e) \in Seq(Symbol))
  <2>1. CASE e \in {"STRING"} \X Seq(Symbol)
    BY <2>1 DEF Type, Value
  <2>2. CASE e \in {"BOOLEAN"} \X BOOLEAN
    BY <2>2 DEF Type
  <2>3. CASE e \in ({"INTEGER"} \X DOMAIN IntegerText) \cup ({"DOUBLE"} \X DOMAIN DoubleText)
    BY <2>3 DEF Type
  <2> QED BY <2>1, <2>2, <2>3, ScalarsAssumption
<1>3. Synced(r, width)
  BY ScalarIsSynced
<1> HIDE DEF r
<1>4. Nodes(r.nodes)
  BY <1>1, <1>2 DEF Nodes
<1>5. Begins(r)
  BY <1>1, <1>2 DEF Begins
<1>6. HasTypes(r.tree)
  BY <1>1, <1>2 DEF HasTypes, Types
<1> QED BY <1>2, <1>3, <1>4, <1>5, <1>6 DEF Shows, r

\* Arrays are shown if their items are.
LEMMA ArrayShows ==
  ASSUME NEW S, NEW ws \in Seq(S), NEW width \in {1, 2}, \A w \in S : Shows(w, width)
  PROVE  Shows(WrittenArray(ws), width)
<1> DEFINE r == WrittenArray(ws)
<1>1. \A i \in 1 .. Len(ws) : Shows(ws[i], width)
  OBVIOUS
<1>2. Synced(r, width)
  BY <1>1, ArrayIsSynced DEF Shows
<1>3. Type(r.tree) = "ARRAY" /\ r.nodes = {r.tree} \cup UNION {ws[i].nodes : i \in 1 .. Len(ws)}
  BY DEF WrittenArray, Type
<1> HIDE DEF r
<1>4. Nodes(r.nodes)
  BY <1>1, <1>3 DEF Nodes, Shows
<1>5. Begins(r)
  BY <1>3 DEF Begins
<1>6. HasTypes(r.tree)
  BY <1>3 DEF HasTypes, Types
<1> QED BY <1>2, <1>4, <1>5, <1>6 DEF Shows, r

\* Objects are shown if their members are.
LEMMA ObjectShows ==
  ASSUME NEW keys \in SUBSET Key, NEW S, NEW ws \in [keys -> S], NEW width \in {1, 2},
         \A w \in S : Shows(w, width)
  PROVE  Shows(WrittenObject(ws), width)
<1> DEFINE r == WrittenObject(ws)
<1>1. \A k \in keys : Shows(ws[k], width)
  OBVIOUS
<1>2. Synced(r, width)
  <2>1. \A k \in keys : Synced(ws[k], width)
    BY <1>1 DEF Shows
  <2> QED BY <2>1, ObjectIsSynced
<1>3. Type(r.tree) = "OBJECT" /\ ~Value(r.tree).null /\ r.nodes = {r.tree} \cup UNION {ws[k].nodes : k \in keys}
  BY DEF WrittenObject, Type, Value, MakeObject
<1>7. HasTypes(r.tree)
  <2>1. r.tree = <<"OBJECT", MakeObject([k \in keys |-> ws[k].tree])>>
    BY DEF WrittenObject
  <2>2. Value(r.tree).elements = [k \in keys |-> ws[k].tree] /\ Type(r.tree) = "OBJECT"
    BY <2>1 DEF Value, Type, MakeObject
  <2>3. \A k \in keys : Type(ws[k].tree) \in Types
    BY <1>1 DEF Shows, HasTypes
  <2> HIDE DEF r
  <2> QED BY <2>2, <2>3 DEF HasTypes, Types
<1>6. r.text[1] = LeftBrace
  BY <1>1, ObjectBegins, Zenon DEF Shows, Synced
<1> HIDE DEF r
<1>4. Nodes(r.nodes)
  BY <1>1, <1>3 DEF Nodes, Shows
<1>5. Begins(r)
  BY <1>6 DEF Begins
<1> QED BY <1>2, <1>4, <1>5, <1>7 DEF Shows, r

\* Null objects are shown.
LEMMA NullShows ==
  ASSUME NEW width
  PROVE  Shows(WrittenNull, width)
<1>1. Synced(WrittenNull, width)
  BY NullIsSynced
<1>2. /\ WrittenNull.nodes = {<<"OBJECT", Null>>} /\ Type(<<"OBJECT", Null>>) = "OBJECT"
      /\ WrittenNull.text[1] = "null"
      /\ DOMAIN Value(<<"OBJECT", Null>>).elements = {}
  BY DEF WrittenNull, Type, Value, Null
<1>3. HasTypes(WrittenNull.tree) /\ WrittenNull.tree = <<"OBJECT", Null>>
  BY <1>2 DEF HasTypes, Types, WrittenNull
<1> QED BY <1>1, <1>2, <1>3 DEF Shows, Begins, Nodes

\* Whatever is written is read back, if nothing in it misleads the parser.
LEMMA AllShow ==
  ASSUME TypeOK, NEW width \in {1, 2}
  PROVE  \A r \in AllWritten(width) : Shows(r, width)
<1> DEFINE T == {r \in AllWritten(width) : Shows(r, width)}
<1>1. \A e \in Scalars : WrittenScalar(e, width) \in AllWritten(width) => WrittenScalar(e, width) \in T
  BY ScalarShows
<1>2. WrittenNull \in AllWritten(width) => WrittenNull \in T
  BY NullShows
<1>3. \A w \in T : Shows(w, width)
  OBVIOUS
<1> HIDE DEF T
<1>4. \A ws \in Seq(T) : Shows(WrittenArray(ws), width)
  BY <1>3, ArrayShows
<1>5. \A keys \in SUBSET Key : \A ws \in [keys -> T] : Shows(WrittenObject(ws), width)
  BY <1>3, ObjectShows
<1>6. AllWritten(width) \subseteq T
  <2>1. \A ws \in Seq(T) : WrittenArray(ws) \in AllWritten(width) => WrittenArray(ws) \in T
    BY <1>4 DEF T
  <2>2. \A keys \in SUBSET Key : \A ws \in [keys -> T] :
           WrittenObject(ws) \in AllWritten(width) => WrittenObject(ws) \in T
    BY <1>5 DEF T
  <2> QED BY <1>1, <1>2, <2>1, <2>2, WrittenInduction, Zenon
<1> QED BY <1>3, <1>6

\* Nothing misleads the parser in a document that is kept.
LEMMA KeptLeads ==
  ASSUME NEW nodes, Nodes(nodes), NEW width \in {1, 2}, Kept(nodes, width)
  PROVE  Leads(nodes, width)
<1> SUFFICES ASSUME NEW e \in nodes, Misleads(e, width) PROVE FALSE
  BY DEF Leads
<1>1. KeptNode(e, width)
  BY DEF Kept
<1>2. CASE Type(e) = "STRING"
  <2> DEFINE str == Value(e)
             san == Sanitized(str, width)
             t == Quoted(san)
  <2>1. str \in Seq(Symbol) /\ KeptString(str, width) /\ EndsElsewhere(str, width)
    BY <1>1, <1>2 DEF Nodes, KeptNode, Misleads
  <2> HIDE DEF str
  <2>2. san \in Seq(Symbol) /\ Len(san) \in Nat
    <3>1. san \in Seq(Symbol)
      BY <2>1, SanitizedType
    <3> HIDE DEF san
    <3> QED BY <3>1, LenProperties
  <2>3. t \in Seq(Symbol) /\ Len(t) = Len(san) + 2
    BY <2>2, QuotedIs
  <2>4. Holds(t, 2, san) /\ 2 + Len(san) <= Len(t) /\ t[2 + Len(san)] = Quote
    <3>1. Holds(t, 1, t)
      <4> HIDE DEF t
      <4>1. Len(t) \in Nat
        BY <2>3, LenProperties
      <4>2. 1 + Len(t) - 1 <= Len(t)
        BY <4>1
      <4>3. \A i \in 1 .. Len(t) : 1 + i - 1 = i
        BY <4>1
      <4> QED BY <4>2, <4>3 DEF Holds
    <3> HIDE DEF san
    <3>2. 1 + Len(san) + 1 = 2 + Len(san) /\ 1 + 1 = 2
      BY <2>2
    <3>3. 1 + Len(san) + 1 <= Len(t) /\ Holds(t, 1 + 1, san) /\ t[1 + Len(san) + 1] = Quote
      BY <2>2, <2>3, <3>1, QuotedIs
    <3> QED BY <3>2, <3>3
  <2>5. StringRests(t)[2] = Returns(str, 2 + Len(san))
    <3> HIDE DEF t
    <3>1. 2 \in Nat \ {0} /\ t \in Seq(Symbol)
      BY <2>3
    <3>2. Holds(t, 2, Sanitized(str, width)) /\ 2 + Len(Sanitized(str, width)) <= Len(t)
          /\ t[2 + Len(Sanitized(str, width))] = Quote
      BY <2>4
    <3> QED BY <2>1, <3>1, <3>2, KeptIsRead, Zenon
  <2>6. ParseString(t, 1).at = 2 + Len(san)
    <3>1. ParseString(t, 1) = StringRests(t)[2]
      BY DEF ParseString
    <3> HIDE DEF t, san
    <3> QED BY <2>5, <3>1, ReturnsIs
  <2>7. ParseString(t, 1).at # Len(t)
    BY <2>1 DEF EndsElsewhere
  <2> HIDE DEF t, san
  <2> QED BY <2>2, <2>3, <2>6, <2>7
<1>3. CASE Type(e) = "OBJECT"
  BY <1>1, <1>3 DEF KeptNode, Misleads, Nodes
<1>4. CASE Type(e) = "ARRAY"
  BY <1>1, <1>4 DEF KeptNode, Misleads
<1>5. CASE Type(e) \notin {"STRING", "OBJECT", "ARRAY"}
  BY <1>5 DEF Misleads
<1> QED BY <1>2, <1>3, <1>4, <1>5

\* A text of ToString is read to its end as what was written.
LEMMA WholeIsRead ==
  ASSUME NEW r, NEW width, Shows(r, width), Type(r.tree) = "OBJECT", Leads(r.nodes, width)
  PROVE  /\ Parsed(r.text).how = "returned" /\ Parsed(r.text).at = Len(r.text)
         /\ Found(<<"OBJECT", Parsed(r.text).value>>, r, width)
<1> DEFINE t == r.text
           R == Reading(t)
           res == R[<<"FETCH_VALUE", 1>>]
           all == ParseObject(R, t, 1)
<1>1. t \in Seq(Symbol) /\ Len(t) \in Nat /\ Len(t) > 0 /\ t[1] \in {LeftBrace, "null"}
  <2>1. t \in Seq(Symbol) /\ Len(t) > 0
    BY DEF Shows, Synced
  <2>2. t[1] \in {LeftBrace, "null"}
    BY DEF Shows, Begins
  <2> HIDE DEF t
  <2> QED BY <2>1, <2>2, LenProperties
<1>2. Holds(t, 1, t)
  <2> HIDE DEF t
  <2>1. 1 + Len(t) - 1 <= Len(t)
    BY <1>1
  <2>2. \A i \in 1 .. Len(t) : 1 + i - 1 = i
    BY <1>1
  <2> QED BY <2>1, <2>2 DEF Holds
<1>3. 1 \in 1 .. Len(t) /\ 1 \in 1 .. Len(t) + 1
  BY <1>1
<1>4. ReadsAt(r, width, t, 1)
  BY <1>1, <1>3 DEF Shows, Synced
<1>5. res.how = "returned" /\ res.at = 1 + Len(t) - 1 /\ Found(res.value, r, width)
  <2>1. Followed(t, 1 + Len(t), Type(r.tree))
    BY DEF Followed
  <2> QED BY <1>2, <1>4, <2>1 DEF ReadsAt
<1>6. res = Typed("OBJECT", all)
  <2>1. res = ParseValue(R, t, 1)
    BY <1>1, <1>3, ReadingStep, Zenon DEF ReadingAt
  <2>2. At(t, 1) \in {LeftBrace, "null"}
    BY <1>1 DEF At
  <2> QED BY <2>1, <2>2, ValueCases
<1> HIDE DEF res, all
<1>7. all.how = "returned" /\ res.value = <<"OBJECT", all.value>> /\ res.at = all.at
  <2>1. CASE all.how = "returned"
    <3>1. res = Returns(<<"OBJECT", all.value>>, all.at)
      BY <1>6, <2>1 DEF Typed
    <3> QED BY <2>1, <3>1, ReturnsIs
  <2>2. CASE all.how # "returned"
    <3>1. res = all
      BY <1>6, <2>2 DEF Typed
    <3> QED BY <1>5, <2>2, <3>1
  <2> QED BY <2>1, <2>2
<1>8. 1 + Len(t) - 1 = Len(t)
  BY <1>1
<1>9. Parsed(t) = all
  BY DEF Parsed, all
<1> QED BY <1>5, <1>7, <1>8, <1>9

-----------------------------------------------------------------------------
(* What is lost in strings is not made up for.                             *)

\* No backslash is in a text.
Plain(s) == \A i \in 1 .. Len(s) : s[i] # Backslash

\* An escape never stands for a backslash,
LEMMA EscapesArePlain ==
  ASSUME NEW c
  PROVE  Escape(c) \in Seq(Symbol) /\ Plain(Escape(c))
<1> DEFINE texts == {<<"\n">>, <<"\r">>, <<"\t">>, <<Quote>>, <<>>}
<1>1. Escape(c) \in texts
  BY DEF Escape
<1>2. {Quote, "\n", "\r", "\t"} \subseteq Symbol
  BY Literals
<1>3. \A x \in Symbol : x # Backslash => <<x>> \in Seq(Symbol) /\ Plain(<<x>>)
  BY DEF Plain
<1>4. <<>> \in Seq(Symbol) /\ Plain(<<>>)
  BY EmptyText DEF Plain
<1>5. Quote # Backslash /\ "\n" # Backslash /\ "\r" # Backslash /\ "\t" # Backslash
  BY DEF Quote, Backslash
<1>6. \A s \in texts : s \in Seq(Symbol) /\ Plain(s)
  <2> HIDE DEF Quote
  <2> QED BY <1>2, <1>3, <1>4, <1>5, Zenon
<1> QED BY <1>1, <1>6, Zenon

\* so that none is in a string that was read.
LEMMA ReadIsPlain ==
  ASSUME NEW t \in Seq(Symbol)
  PROVE  \A q \in 1 .. Len(t) + 2 : Plain(StringRests(t)[q].value)
<1> DEFINE r == StringRests(t)
           M == Len(t) + 2
           T == {q \in 1 .. M : Plain(r[q].value)}
<1>0. Len(t) \in Nat /\ M \in Nat
  OBVIOUS
<1>1. ASSUME NEW i \in 1 .. M, \A j \in 1 .. M : j > i => j \in T PROVE i \in T
  <2>1. StringAt(r, t, i)
    BY StringStep
  <2> SUFFICES Plain(r[i].value)
    OBVIOUS
  <2>2. CASE i > Len(t) \/ t[i] = Quote
    <3>1. r[i].value = <<>>
      BY <2>1, <2>2 DEF StringAt
    <3> QED BY <3>1 DEF Plain
  <2>3. CASE i <= Len(t) /\ t[i] = Backslash
    <3>1. r[i].value = Escape(At(t, i + 1)) \o r[i + 2].value
      BY <2>1, <2>3, Zenon DEF StringAt
    <3>2. i + 2 \in 1 .. M /\ i + 2 > i
      BY <1>0, <2>3
    <3>3. Plain(r[i + 2].value) /\ StringAt(r, t, i + 2)
      BY <1>1, <3>2, StringStep
    <3>4. r[i + 2].value \in Seq(Symbol)
      BY <3>3 DEF StringAt
    <3> DEFINE u == Escape(At(t, i + 1))
               v == r[i + 2].value
    <3>5. u \in Seq(Symbol) /\ Plain(u)
      BY EscapesArePlain
    <3> HIDE DEF u
    <3>6. Plain(u \o v)
      <4> HIDE DEF v
      <4>1. v \in Seq(Symbol) /\ Plain(v)
        BY <3>3, <3>4 DEF v
      <4> QED BY <3>5, <4>1 DEF Plain
    <3> QED BY <3>1, <3>6 DEF u
  <2>4. CASE i <= Len(t) /\ t[i] \notin {Quote, Backslash}
    <3>1. r[i].value = Cons(t[i], r[i + 1].value)
      BY <2>1, <2>4 DEF StringAt
    <3>2. i + 1 \in 1 .. M /\ i + 1 > i /\ t[i] \in Symbol /\ t[i] # Backslash
      BY <1>0, <2>4
    <3>3. Plain(r[i + 1].value) /\ StringAt(r, t, i + 1)
      BY <1>1, <3>2, StringStep
    <3> DEFINE v == r[i + 1].value
               c == t[i]
    <3>4. v \in Seq(Symbol) /\ Plain(v)
      BY <3>3 DEF StringAt
    <3> HIDE DEF v
    <3>5. Plain(Cons(c, v))
      <4> SUFFICES ASSUME NEW j \in 1 .. Len(Cons(c, v)) PROVE Cons(c, v)[j] # Backslash
        BY DEF Plain
      <4>1. /\ Len(Cons(c, v)) = Len(v) + 1 /\ Cons(c, v)[1] = c
            /\ \A k \in 1 .. Len(v) : Cons(c, v)[k + 1] = v[k]
        BY <3>2, <3>4, InFront, Zenon
      <4>2. CASE j = 1
        BY <3>2, <4>1, <4>2
      <4>3. CASE j # 1
        <5>1. j - 1 \in 1 .. Len(v) /\ (j - 1) + 1 = j
          BY <3>4, <4>1, <4>3
        <5> QED BY <3>4, <4>1, <5>1, Zenon DEF Plain
      <4> QED BY <4>2, <4>3
    <3> QED BY <3>1, <3>5 DEF v
  <2> QED BY <2>2, <2>3, <2>4, <1>0
<1>2. \A i \in 1 .. M : i \in T
  <2> HIDE DEF T, M
  <2> QED BY <1>0, <1>1, Downward, Zenon
<1> QED BY <1>2

\* A function replace_ of width 2 drops the symbol after one that it replaces.
LEMMA ReplaceTwo ==
  ASSUME NEW c \in Symbol, NEW d \in Symbol, NEW s \in Seq(Symbol), NEW rep \in Seq(Symbol)
  PROVE  Replace(Cons(c, Cons(d, s)), c, rep, 2) = rep \o Replace(s, c, rep, 2)
<1> DEFINE v == Cons(d, s)
           w == Cons(c, v)
           f == Replacing(w, c, rep, 2)
           g == Replacing(v, c, rep, 2)
           h == Replacing(s, c, rep, 2)
<1>1. v \in Seq(Symbol) /\ Len(v) = Len(s) + 1 /\ Len(s) \in Nat
  BY InFront
<1> HIDE DEF v
<1>2. w \in Seq(Symbol) /\ Len(w) = Len(v) + 1 /\ w[1] = c
  BY <1>1, InFront
<1> HIDE DEF w
<1>3. f[2 + 1] = g[2]
  <2>1. 2 \in 1 .. Len(v) + 2
    BY <1>1
  <2>2. 2 \in {1, 2}
    OBVIOUS
  <2> QED BY <1>1, <2>1, <2>2, ReplacingMoves DEF w
<1>4. g[1 + 1] = h[1]
  <2>1. 1 \in 1 .. Len(s) + 2
    BY <1>1
  <2>2. 2 \in {1, 2}
    OBVIOUS
  <2> QED BY <2>1, <2>2, ReplacingMoves DEF v
<1>5. ReplacingAt(f, w, c, rep, 2, 1)
  <2>1. 1 \in 1 .. Len(w) + 2 /\ 2 \in {1, 2}
    BY <1>1, <1>2
  <2> QED BY <1>2, <2>1, ReplacingStep
<1> HIDE DEF f, g, h
<1>6. f[1] = rep \o f[1 + 2]
  <2>1. 1 <= Len(w)
    BY <1>1, <1>2
  <2> QED BY <1>2, <1>5, <2>1 DEF ReplacingAt
<1>7. f[1] = rep \o h[1]
  <2>1. 1 + 2 = 2 + 1 /\ 1 + 1 = 2
    OBVIOUS
  <2>2. f[1 + 2] = h[1]
    BY <1>3, <1>4, <2>1
  <2> QED BY <1>6, <2>2
<1> QED BY <1>7 DEF Replace, f, h, w, v

\* A text is its first symbol in front of the others.
LEMMA HeadTailIs ==
  ASSUME NEW s \in Seq(Symbol), s # <<>>
  PROVE  s = Cons(Head(s), Tail(s)) /\ Head(s) \in Symbol /\ Tail(s) \in Seq(Symbol)
BY DEF Cons

\* What Sanitize replaces.
Replaced == {Quote, "\n"}

\* With width 2 a symbol after one that is replaced is lost, or its string ends there.
LEMMA SanitizedTwo ==
  ASSUME NEW c \in Replaced, NEW d \in Symbol, NEW s \in Seq(Symbol)
  PROVE  \/ Sanitized(Cons(c, Cons(d, s)), 2) = Shown(c) \o Sanitized(s, 2)
         \/ \E u \in Seq(Symbol) : Sanitized(Cons(c, Cons(d, s)), 2) = Shown(c) \o Cons(Quote, u)
<1> DEFINE rep1 == <<Backslash, Quote>>
           rep2 == <<Backslash, "n">>
           line == "\n"
           R1(u) == Replace(u, Quote, rep1, 2)
           R2(u) == Replace(u, line, rep2, 2)
           v == Cons(d, s)
<1>0. rep1 \in Seq(Symbol) /\ rep2 \in Seq(Symbol) /\ Quote \in Symbol /\ Backslash \in Symbol /\ line \in Symbol
  <2>1. {Quote, Backslash, "\n", "n"} \subseteq Symbol
    BY Literals
  <2> QED BY <2>1
<1>4. Quote # line /\ Backslash # line /\ 2 \in {1, 2}
  BY DEF Quote, Backslash
<1>6. \A u \in Seq(Symbol) : rep1 \o u = Cons(Backslash, Cons(Quote, u))
  BY <1>0 DEF Cons
<1>7. Shown(Quote) = rep1 /\ Shown(line) = rep2 /\ c \in {Quote, line}
  BY DEF Shown, Quote, Replaced
<1>1. \A u : Sanitized(u, 2) = R2(R1(u))
  BY DEF Sanitized
<1> HIDE DEF rep1, rep2, line
<1>2. \A u \in Seq(Symbol) : R1(u) \in Seq(Symbol) /\ R2(u) \in Seq(Symbol)
  BY <1>0, <1>4, ReplaceType
<1>3. R1(<<>>) = <<>>
  BY <1>0, <1>4, EmptyText, ReplaceType
<1>5. v \in Seq(Symbol)
  BY InFront
<1>8. \A u \in Seq(Symbol) : R2(Cons(Quote, u)) = Cons(Quote, R2(u)) /\ R2(Cons(Backslash, u)) = Cons(Backslash, R2(u))
  BY <1>0, <1>4, ReplaceOther
<1>9. \A u \in Seq(Symbol) : Cons(Quote, u) \in Seq(Symbol) /\ Cons(Backslash, u) \in Seq(Symbol)
  BY <1>0, InFront
<1>12. \A a, b \in Symbol, u \in Seq(Symbol) :
         /\ Replace(Cons(a, Cons(b, u)), a, rep1, 2) = rep1 \o Replace(u, a, rep1, 2)
         /\ Replace(Cons(a, Cons(b, u)), a, rep2, 2) = rep2 \o Replace(u, a, rep2, 2)
  <2>1. \A rep \in Seq(Symbol) : \A a, b \in Symbol, u \in Seq(Symbol) :
          Replace(Cons(a, Cons(b, u)), a, rep, 2) = rep \o Replace(u, a, rep, 2)
    BY ReplaceTwo, ZenonT(30)
  <2>2. rep1 \in Seq(Symbol) /\ rep2 \in Seq(Symbol)
    BY <1>0
  <2> HIDE DEF rep1, rep2, R1, R2
  <2> SUFFICES ASSUME NEW a \in Symbol, NEW b \in Symbol, NEW u \in Seq(Symbol)
               PROVE  /\ Replace(Cons(a, Cons(b, u)), a, rep1, 2) = rep1 \o Replace(u, a, rep1, 2)
                      /\ Replace(Cons(a, Cons(b, u)), a, rep2, 2) = rep2 \o Replace(u, a, rep2, 2)
    BY Zenon
  <2>3. Replace(Cons(a, Cons(b, u)), a, rep1, 2) = rep1 \o Replace(u, a, rep1, 2)
    BY <2>1, <2>2, ZenonT(120)
  <2>4. Replace(Cons(a, Cons(b, u)), a, rep2, 2) = rep2 \o Replace(u, a, rep2, 2)
    BY <2>1, <2>2, ZenonT(120)
  <2> QED BY <2>3, <2>4, Zenon
<1>10. CASE c = Quote
  <2>1. R1(Cons(c, v)) = rep1 \o R1(s)
    <3>1. Replace(Cons(Quote, Cons(d, s)), Quote, rep1, 2) = rep1 \o Replace(s, Quote, rep1, 2)
      BY <1>0, <1>12, Zenon
    <3> QED BY <1>10, <3>1
  <2> HIDE DEF v, R1, R2
  <2>2. R2(R1(Cons(c, v))) = Cons(Backslash, Cons(Quote, R2(R1(s))))
    <3>1. R1(s) \in Seq(Symbol)
      BY <1>2
    <3>2. R1(Cons(c, v)) = Cons(Backslash, Cons(Quote, R1(s))) /\ Cons(Quote, R1(s)) \in Seq(Symbol)
      BY <1>6, <1>9, <2>1, <3>1, Zenon
    <3> QED BY <1>8, <3>1, <3>2
  <2>3. R2(R1(Cons(c, v))) = rep1 \o R2(R1(s))
    BY <1>2, <1>6, <2>2, Zenon
  <2> QED BY <1>1, <1>7, <1>10, <2>3, Zenon DEF v
<1>11. CASE c = line
  <2>1. R1(Cons(c, v)) = Cons(c, R1(v))
    <3> HIDE DEF v
    <3> QED BY <1>0, <1>4, <1>5, <1>11, ReplaceOther
  <2>2. CASE d # Quote
    <3>1. R1(v) = Cons(d, R1(s))
      BY <1>0, <1>4, <2>2, ReplaceOther
    <3>2. R2(Cons(c, Cons(d, R1(s)))) = rep2 \o R2(R1(s))
      <4>0. R1(s) \in Seq(Symbol)
        BY <1>2
      <4> HIDE DEF R1
      <4>1. Replace(Cons(line, Cons(d, R1(s))), line, rep2, 2) = rep2 \o Replace(R1(s), line, rep2, 2)
        BY <1>0, <1>12, <4>0, Zenon
      <4> QED BY <1>11, <4>1
    <3> HIDE DEF v, R1, R2
    <3> QED BY <1>1, <1>7, <1>11, <2>1, <3>1, <3>2, Zenon DEF v
  <2>3. CASE d = Quote
    <3>1. \E u \in Seq(Symbol) : R1(v) = rep1 \o u
      <4>1. CASE s = <<>>
        <5>1. R1(v) = rep1 \o R1(s)
          BY <1>0, <1>4, <2>3, <4>1, ReplaceFound, Zenon
        <5> QED BY <1>2, <5>1, Zenon
      <4>2. CASE s # <<>>
        <5>1. s = Cons(Head(s), Tail(s)) /\ Head(s) \in Symbol /\ Tail(s) \in Seq(Symbol)
          BY <4>2, HeadTailIs
        <5> DEFINE e == Head(s)
                   s2 == Tail(s)
        <5> HIDE DEF e, s2
        <5>2. Replace(Cons(Quote, Cons(e, s2)), Quote, rep1, 2) = rep1 \o Replace(s2, Quote, rep1, 2)
          BY <1>0, <1>12, <5>1, ZenonT(30) DEF e, s2
        <5>3. R1(s2) \in Seq(Symbol)
          BY <1>2, <5>1, Zenon DEF s2
        <5> QED BY <2>3, <5>1, <5>2, <5>3, Zenon DEF e, s2
      <4> QED BY <4>1, <4>2, Zenon
    <3>2. PICK u \in Seq(Symbol) : R1(v) = rep1 \o u
      BY <3>1
    <3> HIDE DEF v
    <3>3. R1(v) = Cons(Backslash, Cons(Quote, u)) /\ Cons(Quote, u) \in Seq(Symbol)
      BY <1>6, <1>9, <3>2, Zenon
    <3> DEFINE q == Cons(Quote, u)
    <3>4. R2(Cons(c, Cons(Backslash, q))) = rep2 \o R2(q)
      <4> HIDE DEF q
      <4>1. Replace(Cons(line, Cons(Backslash, q)), line, rep2, 2) = rep2 \o Replace(q, line, rep2, 2)
        BY <1>0, <1>12, <3>3, Zenon DEF q
      <4> QED BY <1>11, <4>1
    <3>5. R2(q) = Cons(Quote, R2(u)) /\ R2(u) \in Seq(Symbol)
      BY <1>2, <1>8
    <3> HIDE DEF R1, R2
    <3> QED BY <1>1, <1>7, <1>11, <2>1, <3>3, <3>4, <3>5, Zenon DEF v
  <2> QED BY <2>2, <2>3, Zenon
<1> QED BY <1>7, <1>10, <1>11, Zenon

\* What is read of a sanitized string is not longer than the string, and shorter if it
\* is not kept.
ShortAt(t, q, s) ==
  LET San == Sanitized(s, 2)
      value == StringRests(t)[q].value
  IN  Holds(t, q, San) /\ q + Len(San) <= Len(t) /\ t[q + Len(San)] = Quote =>
        /\ Len(value) <= Len(s)
        /\ Len(value) < Len(s) \/ KeptString(s, 2)

\* What is written for a symbol of a string is a text of one or two.
LEMMA ShownType ==
  ASSUME NEW c \in Symbol
  PROVE  Shown(c) \in Seq(Symbol) /\ Len(Shown(c)) \in {1, 2}
<1>1. {Quote, Backslash, "\n", "n"} \subseteq Symbol
  BY Literals
<1> QED BY <1>1 DEF Shown

\* What is read after a symbol of a string.
ShortRest(t, q, c, v) ==
  LET q2 == q + Len(Shown(c))
  IN  /\ q2 \in Nat \ {0} /\ q2 \in 1 .. Len(t) + 2 /\ Holds(t, q2, v)
      /\ q2 + Len(v) = q + Len(Shown(c) \o v)
      /\ StringRests(t)[q2].value \in Seq(Symbol)
      /\ Len(StringRests(t)[q].value) = Len(StringRests(t)[q2].value) + 1

\* A symbol that has no backslash is read as one.
LEMMA ShortCons ==
  ASSUME NEW t \in Seq(Symbol), NEW q \in Nat \ {0}, NEW c \in Symbol \ {Backslash}, NEW v \in Seq(Symbol),
         Holds(t, q, Shown(c) \o v), q + Len(Shown(c) \o v) <= Len(t)
  PROVE  ShortRest(t, q, c, v)
<1> DEFINE n == Len(Shown(c))
           q2 == q + n
<1>0. Shown(c) \in Seq(Symbol) /\ n \in {1, 2} /\ Len(t) \in Nat /\ Len(v) \in Nat
  BY ShownType
<1>1. Holds(t, q, Shown(c)) /\ Holds(t, q2, v) /\ Len(Shown(c) \o v) = n + Len(v)
  BY <1>0, HoldsConcat
<1> HIDE DEF n
<1>2. q \in 1 .. Len(t) /\ q2 \in Nat \ {0} /\ q2 + Len(v) = q + Len(Shown(c) \o v)
  BY <1>0, <1>1
<1>3. q2 \in 1 .. Len(t) + 2 /\ StringRests(t)[q].value = Cons(c, StringRests(t)[q2].value)
  BY <1>1, <1>2, ShownIsRead DEF n
<1>4. StringAt(StringRests(t), t, q2)
  BY <1>3, StringStep
<1>5. StringRests(t)[q2].value \in Seq(Symbol)
  BY <1>4 DEF StringAt
<1>6. Len(StringRests(t)[q].value) = Len(StringRests(t)[q2].value) + 1
  <2> DEFINE v2 == StringRests(t)[q2].value
  <2>1. Len(Cons(c, v2)) = Len(v2) + 1
    <3>1. v2 \in Seq(Symbol)
      BY <1>5
    <3> HIDE DEF v2
    <3> QED BY <3>1, InFront
  <2> QED BY <1>3, <2>1
<1> QED BY <1>1, <1>2, <1>3, <1>5, <1>6 DEF n, ShortRest

\* Nothing is read of the empty string.
LEMMA ShortEmpty ==
  ASSUME NEW t \in Seq(Symbol), NEW s \in Seq(Symbol), Len(s) = 0, NEW p \in Nat \ {0}
  PROVE  ShortAt(t, p, s)
<1> DEFINE r == StringRests(t)
           San(w) == Sanitized(w, 2)
<1>0. Len(t) \in Nat /\ 2 \in {1, 2} /\ Len(s) = 0
  OBVIOUS
<1>1. s = <<>>
  BY <1>0
<1>2. San(s) = <<>> /\ Len(San(s)) = 0
  <2>1. Quote \in Symbol
    BY Literals
  <2>2. San(<<>>) = <<>>
    BY <1>0, <2>1, EmptyText, SanitizedCons
  <2> QED BY <1>1, <2>2
<1>3. KeptString(s, 2)
  BY <1>0 DEF KeptString, Contains
<1>4. ASSUME p <= Len(t), t[p] = Quote PROVE Len(r[p].value) = 0
  <2>1. p \in 1 .. Len(t) + 2
    BY <1>0, <1>4
  <2>2. StringAt(r, t, p)
    BY <2>1, StringStep
  <2> QED BY <1>4, <2>2 DEF StringAt
<1> QED BY <1>0, <1>2, <1>3, <1>4 DEF ShortAt

\* A string is not longer where it is read, if no shorter one is.
LEMMA ShortLonger ==
  ASSUME NEW t \in Seq(Symbol), NEW s \in Seq(Symbol), s # <<>>, Plain(s), NEW p \in Nat \ {0},
         \A w \in Seq(Symbol) : Plain(w) /\ Len(w) < Len(s) => \A o \in Nat \ {0} : ShortAt(t, o, w)
  PROVE  ShortAt(t, p, s)
<1> DEFINE r == StringRests(t)
           San(w) == Sanitized(w, 2)
           Good(w) == Plain(w) /\ Len(w) < Len(s) => \A o \in Nat \ {0} : ShortAt(t, o, w)
<1>0. Len(t) \in Nat /\ 2 \in {1, 2} /\ s # <<>>
  OBVIOUS
<1>00. \A w \in Seq(Symbol) : Good(w)
  OBVIOUS
<1> HIDE DEF Good
<1>1. PICK hd \in Symbol, tl \in Seq(Symbol) : s = Cons(hd, tl)
  BY <1>0, HeadTailIs, Zenon
<1>2. /\ Len(s) = Len(tl) + 1 /\ s[1] = hd /\ Len(tl) \in Nat
      /\ \A i \in 1 .. Len(tl) : s[i + 1] = tl[i]
  <2>1. /\ Len(Cons(hd, tl)) = Len(tl) + 1 /\ Cons(hd, tl)[1] = hd
        /\ \A i \in 1 .. Len(tl) : Cons(hd, tl)[i + 1] = tl[i]
    BY <1>1, InFront, Zenon
  <2> QED BY <1>1, <2>1
<1>3. hd # Backslash /\ Plain(tl)
  <2>1. 1 \in 1 .. Len(s) /\ \A i \in 1 .. Len(tl) : i + 1 \in 1 .. Len(s)
    BY <1>2
  <2> QED BY <1>2, <2>1 DEF Plain
<1>4. Len(tl) < Len(s)
  BY <1>2
<1> SUFFICES ASSUME Holds(t, p, San(s)), p + Len(San(s)) <= Len(t), t[p + Len(San(s))] = Quote
             PROVE  Len(r[p].value) <= Len(s) /\ (Len(r[p].value) < Len(s) \/ KeptString(s, 2))
  BY DEF ShortAt
<1> DEFINE q2 == p + Len(Shown(hd))
<1>7. ASSUME NEW z \in Seq(Symbol), San(s) = Shown(hd) \o z
      PROVE  /\ q2 \in Nat \ {0} /\ q2 \in 1 .. Len(t) + 2 /\ Holds(t, q2, z)
             /\ q2 + Len(z) = p + Len(San(s))
             /\ r[q2].value \in Seq(Symbol)
             /\ Len(r[p].value) = Len(r[q2].value) + 1
  <2>1. hd \in Symbol \ {Backslash}
    BY <1>1, <1>3
  <2>2. Holds(t, p, Shown(hd) \o z) /\ p + Len(Shown(hd) \o z) <= Len(t)
    BY <1>7, Zenon
  <2>3. ShortRest(t, p, hd, z)
    BY <2>1, <2>2, ShortCons
  <2>4. Len(Shown(hd) \o z) = Len(San(s))
    BY <1>7
  <2> QED BY <2>3, <2>4 DEF ShortRest
<1> HIDE DEF q2
<1>5. CASE tl = <<>> \/ hd \notin Replaced
  <2>1. San(s) = Shown(hd) \o San(tl) /\ San(tl) \in Seq(Symbol)
    BY <1>0, <1>1, <1>5, SanitizedCons, Zenon DEF Replaced
  <2>2. /\ q2 \in Nat \ {0} /\ Holds(t, q2, San(tl)) /\ q2 + Len(San(tl)) = p + Len(San(s))
        /\ r[q2].value \in Seq(Symbol) /\ Len(r[p].value) = Len(r[q2].value) + 1
    BY <1>7, <2>1, Zenon
  <2>3. ShortAt(t, q2, tl)
    BY <1>00, <1>1, <1>3, <1>4, <2>2 DEF Good
  <2>4. Len(r[q2].value) <= Len(tl) /\ (Len(r[q2].value) < Len(tl) \/ KeptString(tl, 2))
    BY <2>2, <2>3, Zenon DEF ShortAt
  <2>5. KeptString(tl, 2) => KeptString(s, 2)
    <3> SUFFICES ASSUME KeptString(tl, 2) PROVE KeptString(s, 2)
      OBVIOUS
    <3>1. ~Contains(s, Backslash)
      BY DEF Plain, Contains
    <3>2. ASSUME NEW i \in 1 .. Len(s) - 1 PROVE s[i] \notin Replaced
      <4>1. CASE i = 1
        <5>1. Len(tl) # 0 /\ tl # <<>>
          BY <1>2, <3>2
        <5> QED BY <1>2, <1>5, <4>1, <5>1
      <4>2. CASE i # 1
        <5>1. i - 1 \in 1 .. Len(tl) - 1 /\ i - 1 \in 1 .. Len(tl) /\ (i - 1) + 1 = i
          BY <1>2, <4>2
        <5>2. tl[i - 1] \notin Replaced
          BY <5>1 DEF KeptString, Replaced
        <5>3. s[i] = tl[i - 1]
          BY <1>2, <5>1, Zenon
        <5> QED BY <5>2, <5>3
      <4> QED BY <4>1, <4>2
    <3> QED BY <3>1, <3>2 DEF KeptString, Replaced
  <2>6. Len(r[q2].value) \in Nat
    BY <2>2
  <2> QED BY <1>2, <2>2, <2>4, <2>5, <2>6
<1>6. CASE tl # <<>> /\ hd \in Replaced
  <2>1. PICK hd2 \in Symbol, tl2 \in Seq(Symbol) : tl = Cons(hd2, tl2)
    BY <1>6, HeadTailIs, Zenon
  <2>2. /\ Len(tl) = Len(tl2) + 1 /\ Len(tl2) \in Nat
        /\ \A i \in 1 .. Len(tl2) : tl[i + 1] = tl2[i]
    <3>1. /\ Len(Cons(hd2, tl2)) = Len(tl2) + 1
          /\ \A i \in 1 .. Len(tl2) : Cons(hd2, tl2)[i + 1] = tl2[i]
      BY <2>1, InFront, Zenon
    <3> QED BY <2>1, <3>1
  <2>3. Plain(tl2) /\ Len(tl2) < Len(s)
    <3>1. \A i \in 1 .. Len(tl2) : i + 1 \in 1 .. Len(tl)
      BY <2>2
    <3> QED BY <1>2, <1>3, <2>2, <3>1 DEF Plain
  <2>4. \/ San(s) = Shown(hd) \o San(tl2)
        \/ \E u \in Seq(Symbol) : San(s) = Shown(hd) \o Cons(Quote, u)
    <3>1. \/ San(Cons(hd, Cons(hd2, tl2))) = Shown(hd) \o San(tl2)
          \/ \E u \in Seq(Symbol) : San(Cons(hd, Cons(hd2, tl2))) = Shown(hd) \o Cons(Quote, u)
      BY <1>6, <2>1, SanitizedTwo, Zenon
    <3>2. s = Cons(hd, Cons(hd2, tl2))
      BY <1>1, <2>1
    <3> HIDE DEF San
    <3> QED BY <3>1, <3>2, Zenon
  <2>6. CASE San(s) = Shown(hd) \o San(tl2)
    <3>0. San(tl2) \in Seq(Symbol)
      BY <1>0, <2>1, SanitizedType
    <3>1. /\ q2 \in Nat \ {0} /\ Holds(t, q2, San(tl2)) /\ q2 + Len(San(tl2)) = p + Len(San(s))
          /\ r[q2].value \in Seq(Symbol) /\ Len(r[p].value) = Len(r[q2].value) + 1
      BY <1>7, <2>6, <3>0, Zenon
    <3>2. ShortAt(t, q2, tl2)
      BY <1>00, <2>1, <2>3, <3>1 DEF Good
    <3>3. Len(r[q2].value) <= Len(tl2)
      BY <3>1, <3>2, Zenon DEF ShortAt
    <3>4. Len(r[q2].value) \in Nat
      BY <3>1
    <3> QED BY <1>2, <2>2, <3>1, <3>3, <3>4
  <2>7. ASSUME NEW u \in Seq(Symbol), San(s) = Shown(hd) \o Cons(Quote, u) PROVE Len(r[p].value) < Len(s)
    <3> DEFINE z == Cons(Quote, u)
    <3>1. z \in Seq(Symbol) /\ Len(z) = Len(u) + 1 /\ z[1] = Quote /\ Len(u) \in Nat
      <4>1. Quote \in Symbol
        BY Literals
      <4> QED BY <4>1, InFront
    <3> HIDE DEF z
    <3>2. /\ q2 \in Nat \ {0} /\ q2 \in 1 .. Len(t) + 2 /\ Holds(t, q2, z)
          /\ Len(r[p].value) = Len(r[q2].value) + 1
      BY <1>7, <2>7, <3>1, Zenon DEF z
    <3>3. t[q2] = Quote
      <4>1. 1 \in 1 .. Len(z) /\ q2 + 1 - 1 = q2
        BY <3>1, <3>2
      <4> QED BY <3>1, <3>2, <4>1, Zenon DEF Holds
    <3>4. StringAt(r, t, q2)
      BY <3>2, StringStep
    <3>5. Len(r[q2].value) = 0
      BY <3>3, <3>4 DEF StringAt
    <3> QED BY <1>2, <2>2, <3>2, <3>5
  <2>8. ASSUME Len(r[p].value) < Len(s)
        PROVE  Len(r[p].value) <= Len(s) /\ (Len(r[p].value) < Len(s) \/ KeptString(s, 2))
    <3>1. Len(r[p].value) \in Nat
      <4>1. \E z \in Seq(Symbol) : San(s) = Shown(hd) \o z
        <5>1. San(tl2) \in Seq(Symbol)
          BY <1>0, <2>1, SanitizedType
        <5>2. \A u \in Seq(Symbol) : Cons(Quote, u) \in Seq(Symbol)
          <6>1. Quote \in Symbol
            BY Literals
          <6> QED BY <6>1, InFront
        <5> QED BY <2>4, <5>1, <5>2, Zenon
      <4>2. r[q2].value \in Seq(Symbol) /\ Len(r[p].value) = Len(r[q2].value) + 1
        BY <1>7, <4>1, Zenon
      <4> QED BY <4>2
    <3> QED BY <1>2, <2>8, <3>1
  <2> QED BY <2>4, <2>6, <2>7, <2>8, Zenon
<1> QED BY <1>5, <1>6

\* No string is, by induction on its length.
LEMMA ShortString ==
  ASSUME NEW t \in Seq(Symbol), NEW str \in Seq(Symbol), Plain(str), NEW q \in Nat \ {0}
  PROVE  ShortAt(t, q, str)
<1> DEFINE Good(s) == Plain(s) => \A p \in Nat \ {0} : ShortAt(t, p, s)
           S == {n \in Nat : \A s \in Seq(Symbol) : Len(s) <= n => Good(s)}
<1>1. 0 \in S
  <2> SUFFICES ASSUME NEW s \in Seq(Symbol), Len(s) <= 0, NEW p \in Nat \ {0} PROVE ShortAt(t, p, s)
    OBVIOUS
  <2>1. Len(s) = 0
    OBVIOUS
  <2> QED BY <2>1, ShortEmpty, Zenon
<1>2. ASSUME NEW n \in Nat \ {0}, n - 1 \in S PROVE n \in S
  <2> SUFFICES ASSUME NEW s \in Seq(Symbol), Len(s) <= n, Plain(s), NEW p \in Nat \ {0} PROVE ShortAt(t, p, s)
    OBVIOUS
  <2>1. CASE s = <<>>
    <3>1. Len(s) = 0
      BY <2>1
    <3> QED BY <3>1, ShortEmpty, Zenon
  <2>2. CASE s # <<>>
    <3>1. \A w \in Seq(Symbol) : Plain(w) /\ Len(w) < Len(s) => \A o \in Nat \ {0} : ShortAt(t, o, w)
      <4> SUFFICES ASSUME NEW w \in Seq(Symbol), Plain(w), Len(w) < Len(s), NEW o \in Nat \ {0}
                   PROVE  ShortAt(t, o, w)
        OBVIOUS
      <4>1. Len(w) <= n - 1
        OBVIOUS
      <4> QED BY <1>2, <4>1
    <3> HIDE DEF S, Good
    <3> QED BY <2>2, <3>1, ShortLonger
  <2> QED BY <2>1, <2>2
<1>3. \A n \in Nat : n \in S
  <2> HIDE DEF S
  <2> QED BY <1>1, <1>2, SetInduction
<1>4. Len(str) \in S
  BY <1>3
<1> QED BY <1>4

\* A string that is read as it was written is kept.
LEMMA StringBack ==
  ASSUME NEW t \in Seq(Symbol), NEW str \in Seq(Symbol), NEW width \in {1, 2},
         NEW q \in Nat \ {0}, Holds(t, q, Sanitized(str, width)),
         q + Len(Sanitized(str, width)) <= Len(t), t[q + Len(Sanitized(str, width))] = Quote,
         StringRests(t)[q].value = str
  PROVE  KeptString(str, width)
<1>1. Sanitized(str, width) \in Seq(Symbol) /\ Len(Sanitized(str, width)) \in Nat /\ Len(t) \in Nat
  BY SanitizedType
<1>2. q \in 1 .. Len(t) + 2
  BY <1>1
<1>3. Plain(str)
  BY <1>2, ReadIsPlain
<1>4. CASE width = 1
  BY <1>3, <1>4 DEF KeptString, Plain, Contains
<1>5. CASE width = 2
  <2>1. ShortAt(t, q, str)
    BY <1>3, ShortString
  <2>2. Len(str) < Len(str) \/ KeptString(str, 2)
    BY <1>5, <2>1 DEF ShortAt
  <2>3. Len(str) \in Nat
    OBVIOUS
  <2> QED BY <1>5, <2>2, <2>3
<1> QED BY <1>4, <1>5

-----------------------------------------------------------------------------
(* Nor is what is lost in other scalars.                                   *)

\* The types of numbers.
Numbers == {"INTEGER", "DOUBLE"}

\* What a number runs on to: the end of one or more arrays, and then of an item or member.
RunsTo(t, q, u) == t[u] \in {Comma, RightBrace} /\ \A j \in q .. u - 1 : t[j] = "]"

\* The place after an element, if it is not after an object.
Ended(t, q) == \E u \in q .. Len(t) : RunsTo(t, q, u)

\* No quote is in a key.
Unquoted(nodes) == \A e \in nodes : ~HasQuotedKey(e)

\* An element that is read where it stands as what was written is kept, with all below it.
GivenBack(r, width, t, p) ==
  LET res == Reading(t)[<<"FETCH_VALUE", p>>]
  IN  /\ Holds(t, p, r.text) /\ (Type(r.tree) = "OBJECT" \/ Ended(t, p + Len(r.text)))
      /\ res.how = "returned" /\ res.value = r.tree
      => Kept(r.nodes, width)

\* The parser never makes up for what is lost: wherever the text of an element stands, it
\* is read as the element only if that is kept.
Faithful(r, width) ==
  /\ Type(r.tree) \in Numbers => Len(r.text) = 1 /\ r.text[1] \in NumberText
  /\ Unquoted(r.nodes) => \A t \in Seq(Symbol) : \A p \in 1 .. Len(t) : GivenBack(r, width, t, p)

\* What a number is read as.
NumberValue(c) == IF c \in Dotted THEN <<"DOUBLE", Stold[c]>> ELSE <<"INTEGER", Stoll[c]>>

\* A number is read on over the ends of arrays.
LEMMA NumberRunsOn ==
  ASSUME NEW t \in Seq(Symbol), NEW p \in 1 .. Len(t), t[p] \in NumberText,
         NEW u \in p + 1 .. Len(t), RunsTo(t, p + 1, u)
  PROVE  Reading(t)[<<"FETCH_VALUE", p>>] = Returns(NumberValue(t[p]), u - 1)
<1>0. Len(t) \in Nat /\ p \in Nat \ {0} /\ p \in 1 .. Len(t) + 1 /\ u \in p .. Len(t) /\ u \in Nat
  OBVIOUS
<1>1. t[p] \notin NumberEnds
  BY DEF NumberText, NumberEnds, Comma, Space, RightBrace
<1>2. \A j \in p .. u - 1 : j = p \/ t[j] = "]"
  <2> SUFFICES ASSUME NEW j \in p .. u - 1, j # p PROVE t[j] = "]"
    OBVIOUS
  <2>1. j \in p + 1 .. u - 1
    BY <1>0
  <2> QED BY <2>1 DEF RunsTo
<1>3. "]" \notin NumberEnds /\ "]" \notin Dotted /\ t[u] \in NumberEnds
  BY DEF NumberEnds, Comma, Space, RightBrace, RunsTo, Dotted
<1>4. \A j \in p .. u - 1 : t[j] \notin NumberEnds
  BY <1>1, <1>2, <1>3
<1>5. Until(t, p, NumberEnds) = u
  BY <1>0, <1>3, <1>4, UntilTo
<1>6. u - 1 # Len(t)
  BY <1>0
<1>7. (\E q \in p .. u - 1 : t[q] \in Dotted) <=> t[p] \in Dotted
  <2>1. p \in p .. u - 1
    BY <1>0
  <2> QED BY <1>2, <1>3, <2>1
<1>8. ParseNumber(t, p) = Returns(NumberValue(t[p]), u - 1)
  BY <1>5, <1>6, <1>7 DEF ParseNumber, NumberValue
<1>9. Reading(t)[<<"FETCH_VALUE", p>>] = ParseValue(Reading(t), t, p)
  BY <1>0, ReadingStep, Zenon DEF ReadingAt
<1>10. At(t, p) = t[p]
  BY <1>0 DEF At
<1>11. ParseValue(Reading(t), t, p) = ParseNumber(t, p)
  BY <1>10, ValueCases
<1> QED BY <1>8, <1>9, <1>11

\* A string is read as another one unless it is kept.
LEMMA StringIsFaithful ==
  ASSUME NEW str \in Seq(Symbol), NEW width \in {1, 2}
  PROVE  Faithful(WrittenScalar(<<"STRING", str>>, width), width)
<1> DEFINE e == <<"STRING", str>>
           r == WrittenScalar(e, width)
           san == Sanitized(str, width)
<1>1. r.text = Quoted(san) /\ r.tree = e /\ r.nodes = {e} /\ Type(e) = "STRING" /\ Value(e) = str
  BY DEF WrittenScalar, ScalarText, Type, Value
<1>2. san \in Seq(Symbol) /\ Len(san) \in Nat
  BY SanitizedType
<1> HIDE DEF san, r
<1>3. ASSUME NEW t \in Seq(Symbol), NEW p \in 1 .. Len(t), Holds(t, p, Quoted(san)),
             Reading(t)[<<"FETCH_VALUE", p>>].value = e
      PROVE  Kept(r.nodes, width)
  <2> DEFINE res == Reading(t)[<<"FETCH_VALUE", p>>]
             st == StringRests(t)[p + 1]
  <2>0. Len(t) \in Nat /\ p \in Nat \ {0} /\ p \in 1 .. Len(t) + 1
    OBVIOUS
  <2>1. /\ p + Len(san) + 1 <= Len(t)
        /\ t[p] = Quote /\ Holds(t, p + 1, san) /\ t[p + Len(san) + 1] = Quote
    BY <1>2, <1>3, <2>0, QuotedIs
  <2>2. res = Typed("STRING", st)
    <3>1. res = ParseValue(Reading(t), t, p)
      BY <2>0, ReadingStep, Zenon DEF ReadingAt
    <3>2. At(t, p) = Quote
      BY <2>0, <2>1 DEF At
    <3>3. ParseValue(Reading(t), t, p) = Typed("STRING", ParseString(t, p))
      BY <3>2, ValueCases
    <3> QED BY <3>1, <3>3 DEF ParseString
  <2>3. st.how = "returned"
    <3>1. ParseString(t, p).how = "returned"
      BY <2>0, ParseStringIs
    <3> QED BY <3>1 DEF ParseString
  <2> HIDE DEF res, st
  <2>4. res = Returns(<<"STRING", st.value>>, st.at)
    BY <2>2, <2>3 DEF Typed
  <2>5. res.value = <<"STRING", st.value>>
    BY <2>4, ReturnsIs
  <2>6. st.value = str
    BY <1>3, <2>5 DEF res
  <2>7. KeptString(str, width)
    <3>1. p + 1 \in Nat \ {0} /\ p + 1 + Len(san) = p + Len(san) + 1
      BY <1>2, <2>0
    <3>2. p + 1 + Len(san) <= Len(t) /\ t[p + 1 + Len(san)] = Quote
      BY <2>1, <3>1
    <3> QED BY <2>1, <2>6, <3>1, <3>2, StringBack, Zenon DEF san, st
  <2> QED BY <1>1, <2>7, Zenon DEF Kept, KeptNode
<1>4. Type(r.tree) \notin Numbers
  BY <1>1 DEF Numbers
<1> HIDE DEF e
<1>5. ASSUME NEW t \in Seq(Symbol), NEW p \in 1 .. Len(t) PROVE GivenBack(r, width, t, p)
  BY <1>1, <1>3, Zenon DEF GivenBack
<1> QED BY <1>4, <1>5, Zenon DEF Faithful, r, e

\* A double is, if it is not shown with a point and all its digits.
LEMMA NumberIsFaithful ==
  ASSUME NEW e, NEW width \in {1, 2},
         e \in ({"INTEGER"} \X DOMAIN IntegerText) \cup ({"DOUBLE"} \X DOMAIN DoubleText)
  PROVE  Faithful(WrittenScalar(e, width), width)
<1> DEFINE r == WrittenScalar(e, width)
           c == IF Type(e) = "INTEGER" THEN IntegerText[Value(e)] ELSE DoubleText[Value(e)]
<1>1. e = <<Type(e), Value(e)>> /\ (\/ Type(e) = "INTEGER" /\ Value(e) \in {"1"}
                                    \/ Type(e) = "DOUBLE" /\ Value(e) \in {"2.5", "2.0", "1e20", "1234567.5"})
  BY DEF Type, Value, IntegerText, DoubleText
<1>2. r.text = <<c>> /\ r.nodes = {e} /\ r.tree = e
  BY <1>1 DEF WrittenScalar, ScalarText
<1>3. c \in NumberText
  BY <1>1 DEF NumberText, IntegerText, DoubleText
<1>4. Type(e) # "OBJECT"
  BY <1>1
<1>5. NumberValue(c) = e => Kept(r.nodes, width)
  <2>1. CASE Type(e) = "INTEGER"
    BY <1>2, <2>1 DEF Kept, KeptNode
  <2>2. CASE Type(e) = "DOUBLE" /\ Value(e) = "2.5"
    BY <1>2, <2>2 DEF Kept, KeptNode
  <2>3. CASE Type(e) = "DOUBLE" /\ Value(e) # "2.5"
    <3>1. NumberValue(c) # e
      <4>1. Type(NumberValue(c)) = "DOUBLE" => c \in Dotted /\ Value(NumberValue(c)) = Stold[c]
        BY DEF NumberValue, Type, Value
      <4>2. c = DoubleText[Value(e)]
        BY <2>3
      <4>3. c \in Dotted => c = "1.23457e+06" /\ Value(e) = "1234567.5"
        BY <1>1, <2>3, <4>2 DEF DoubleText, Dotted
      <4>4. c = "1.23457e+06" => Stold[c] = "1234570.0"
        BY DEF Stold, NumberText
      <4> HIDE DEF c
      <4> QED BY <2>3, <4>1, <4>3, <4>4
    <3> QED BY <3>1
  <2> QED BY <1>1, <2>1, <2>2, <2>3
<1> HIDE DEF c, r
<1>6. Len(r.text) = 1 /\ r.text[1] = c
  BY <1>2
<1>7. ASSUME NEW t \in Seq(Symbol), NEW p \in 1 .. Len(t) PROVE GivenBack(r, width, t, p)
  <2> SUFFICES ASSUME Holds(t, p, r.text), Ended(t, p + Len(r.text)), Reading(t)[<<"FETCH_VALUE", p>>].value = e
               PROVE  Kept(r.nodes, width)
    BY <1>2, <1>4 DEF GivenBack
  <2>1. t[p] = c
    BY <1>2, HoldsOne
  <2>2. PICK u \in p + 1 .. Len(t) : RunsTo(t, p + 1, u)
    BY <1>6 DEF Ended
  <2>3. Reading(t)[<<"FETCH_VALUE", p>>] = Returns(NumberValue(c), u - 1)
    BY <1>3, <2>1, <2>2, NumberRunsOn
  <2>4. NumberValue(c) = e
    BY <2>3, ReturnsIs
  <2> QED BY <1>5, <2>4
<1> QED BY <1>2, <1>3, <1>6, <1>7 DEF Faithful, r

\* The elements that are no objects or arrays.
LEMMA ScalarIsFaithful ==
  ASSUME NEW e \in Scalars, NEW width \in {1, 2}
  PROVE  Faithful(WrittenScalar(e, width), width)
<1>1. CASE e \in {"STRING"} \X Seq(Symbol)
  <2>1. PICK str \in Seq(Symbol) : e = <<"STRING", str>>
    BY <1>1
  <2> QED BY <2>1, StringIsFaithful
<1>2. CASE e \in {"BOOLEAN"} \X BOOLEAN
  <2>1. Type(e) = "BOOLEAN"
    BY <1>2 DEF Type
  <2> DEFINE r == WrittenScalar(e, width)
  <2>2. r.nodes = {e} /\ r.tree = e
    BY DEF WrittenScalar
  <2> HIDE DEF r
  <2>3. Kept(r.nodes, width) /\ Type(r.tree) \notin Numbers
    BY <2>1, <2>2 DEF Kept, KeptNode, Numbers
  <2> QED BY <2>3 DEF Faithful, GivenBack, r
<1>3. CASE e \in ({"INTEGER"} \X DOMAIN IntegerText) \cup ({"DOUBLE"} \X DOMAIN DoubleText)
  BY <1>3, NumberIsFaithful
<1> QED BY <1>1, <1>2, <1>3, ScalarsAssumption

\* A null object is kept.
LEMMA NullIsFaithful ==
  ASSUME NEW width
  PROVE  Faithful(WrittenNull, width)
<1>1. WrittenNull.nodes = {<<"OBJECT", Null>>} /\ WrittenNull.tree = <<"OBJECT", Null>>
  BY DEF WrittenNull
<1>2. Type(<<"OBJECT", Null>>) = "OBJECT" /\ Value(<<"OBJECT", Null>>).null
  BY DEF Type, Value, Null
<1>3. Kept(WrittenNull.nodes, width) /\ Type(WrittenNull.tree) \notin Numbers
  BY <1>1, <1>2 DEF Kept, KeptNode, Numbers
<1> QED BY <1>3 DEF Faithful, GivenBack

-----------------------------------------------------------------------------
(* Nor in arrays.                                                          *)

\* How an item is seen in the text of an array.
ItemShown(t, q, texts, i) ==
  LET c == q + Len(texts[i])
      rests == ArrayRests(texts)
  IN  /\ q \in 1 .. Len(t) /\ c \in 1 .. Len(t) /\ t[q] = texts[i][1]
      /\ i < Len(texts) =>
           /\ t[c] = Comma /\ Holds(t, c + 1, texts[i + 1])
           /\ Holds(t, c + 1 + Len(texts[i + 1]), rests[i + 2])
           /\ c + Len(rests[i + 1]) = c + 1 + Len(texts[i + 1]) + Len(rests[i + 2])
      /\ i = Len(texts) => t[c] = "]" /\ Len(rests[i + 1]) = 1

\* The text of an array shows its items.
LEMMA ItemHolds ==
  ASSUME NEW texts \in Seq(Seq(Symbol)), NEW i \in 1 .. Len(texts), Len(texts[i]) > 0,
         NEW t \in Seq(Symbol), NEW q \in Nat \ {0}, Holds(t, q, texts[i]),
         Holds(t, q + Len(texts[i]), ArrayRests(texts)[i + 1])
  PROVE  ItemShown(t, q, texts, i)
<1> DEFINE rests == ArrayRests(texts)
           n == Len(texts)
           m == Len(texts[i])
           c == q + m
<1>0. n \in Nat /\ i \in Nat /\ Len(t) \in Nat /\ texts[i] \in Seq(Symbol) /\ m \in Nat /\ m > 0
  OBVIOUS
<1>1. \A j \in 1 .. n + 1 : ArrayAt(rests, texts, j)
  BY ArrayStep
<1> HIDE DEF rests, n
<1>2. t[q] = texts[i][1] /\ q + m - 1 <= Len(t)
  <2>1. 1 \in 1 .. m /\ q + 1 - 1 = q
    BY <1>0
  <2> QED BY <2>1 DEF Holds
<1> HIDE DEF m
<1>3. q \in 1 .. Len(t) /\ c \in Nat \ {0}
  BY <1>0, <1>2
<1>4. i + 1 \in 1 .. n + 1
  BY <1>0 DEF n
<1>5. rests[i + 1] \in Seq(Symbol) /\ Holds(t, c, rests[i + 1])
  <2>1. ArrayAt(rests, texts, i + 1)
    BY <1>1, <1>4
  <2> QED BY <2>1 DEF ArrayAt, rests, m
<1> HIDE DEF c
<1>6. ASSUME i < n
      PROVE  /\ c <= Len(t) /\ t[c] = Comma /\ Holds(t, c + 1, texts[i + 1])
             /\ Holds(t, c + 1 + Len(texts[i + 1]), rests[i + 2])
             /\ c + Len(rests[i + 1]) = c + 1 + Len(texts[i + 1]) + Len(rests[i + 2])
  <2> DEFINE comma == <<Comma>>
             u == texts[i + 1]
             v == rests[i + 2]
  <2>0. i + 1 \in 1 .. n /\ i + 2 \in 1 .. n + 1 /\ i + 1 + 1 = i + 2
    BY <1>0, <1>6
  <2>1. u \in Seq(Symbol)
    BY <2>0 DEF n
  <2>2. v \in Seq(Symbol)
    <3>1. ArrayAt(rests, texts, i + 2)
      BY <1>1, <2>0
    <3> QED BY <3>1 DEF ArrayAt
  <2>3. rests[i + 1] = (comma \o u) \o v
    <3>1. ArrayAt(rests, texts, i + 1) /\ i + 1 <= n
      BY <1>1, <1>4, <1>6, <2>0
    <3>2. rests[i + 1] = (Separator(i + 1 = 1) \o texts[i + 1]) \o rests[i + 1 + 1]
      BY <3>1, Zenon DEF ArrayAt, n
    <3>3. Separator(i + 1 = 1) = comma
      BY <1>0 DEF Separator
    <3> HIDE DEF comma
    <3> QED BY <2>0, <3>2, <3>3, Zenon
  <2>4. Len(comma) = 1 /\ comma \in Seq(Symbol)
    BY Literals, OneSymbol
  <2> HIDE DEF comma, u, v
  <2>5. comma \o u \in Seq(Symbol) /\ Len(comma \o u) = 1 + Len(u)
    BY <2>1, <2>4, ConcatIs, Zenon
  <2>6. Len((comma \o u) \o v) = Len(comma \o u) + Len(v)
    BY <2>2, <2>5, ConcatIs, Zenon
  <2>7. Holds(t, c, comma \o u) /\ Holds(t, c + (1 + Len(u)), v)
    <3> DEFINE w == comma \o u
    <3>1. w \in Seq(Symbol) /\ Holds(t, c, w \o v)
      BY <1>5, <2>3, <2>5
    <3>2. Holds(t, c, w) /\ Holds(t, c + Len(w), v)
      <4> HIDE DEF w
      <4> QED BY <1>3, <2>2, <3>1, HoldsConcat
    <3> QED BY <2>5, <3>2
  <2>8. Holds(t, c, comma) /\ Holds(t, c + 1, u)
    BY <1>3, <2>1, <2>4, <2>7, HoldsConcat, ZenonT(30)
  <2>9. Len(u) \in Nat /\ Len(v) \in Nat
    BY <2>1, <2>2
  <2>10. c + (1 + Len(u)) = c + 1 + Len(u)
    BY <1>3, <2>9
  <2>11. c + (1 + Len(u) + Len(v)) = c + 1 + Len(u) + Len(v)
    BY <1>3, <2>9
  <2>12. c <= Len(t) /\ t[c] = Comma
    BY <1>3, <2>8, HoldsOne DEF comma
  <2>13. Len(rests[i + 1]) = 1 + Len(u) + Len(v)
    BY <2>3, <2>5, <2>6
  <2>14. c + Len(rests[i + 1]) = c + 1 + Len(u) + Len(v)
    BY <2>11, <2>13
  <2>15. Holds(t, c + 1 + Len(u), v)
    BY <2>7, <2>10
  <2> QED BY <2>8, <2>12, <2>14, <2>15 DEF u, v
<1>7. ASSUME i = n PROVE c <= Len(t) /\ t[c] = "]" /\ Len(rests[i + 1]) = 1
  <2>1. ArrayAt(rests, texts, i + 1) /\ i + 1 > n
    BY <1>0, <1>1, <1>4, <1>7
  <2>2. rests[i + 1] = <<"]">>
    BY <2>1 DEF ArrayAt, n
  <2>3. Holds(t, c, <<"]">>)
    BY <1>5, <2>2
  <2>4. c <= Len(t) /\ t[c] = "]" /\ Len(<<"]">>) = 1
    BY <1>3, <2>3, HoldsOne, Zenon
  <2> QED BY <2>2, <2>4
<1>8. i < n \/ i = n
  BY <1>0 DEF n
<1>9. c \in 1 .. Len(t)
  <2>1. c <= Len(t)
    BY <1>6, <1>7, <1>8
  <2> QED BY <1>0, <1>3, <2>1
<1> QED BY <1>2, <1>3, <1>6, <1>7, <1>9, Zenon DEF ItemShown, c, m, n, rests

\* What was read of an array from an item on.
IsItems(x, s) == x.how = "returned" => \E S : x.value \in Seq(S) /\ (s = "NEXT_ITEM" => Len(x.value) > 0)

\* What an array goes on with.
ItemGives(R, t, s, q) ==
  LET x == R[<<s, q>>]
      val == R[<<"FETCH_VALUE", q>>]
      c == Past(t, val.at + 1, ArrayBlank)
      rest == R[<<"NEXT_ITEM", c + 1>>]
  IN  /\ val.how = "returned" /\ val.at \in q .. Len(t) /\ c \in q .. Len(t)
      /\ \/ t[c] = "]" /\ x.value = <<val.value>>
         \/ t[c] = Comma /\ rest.how = "returned" /\ x.value = <<val.value>> \o rest.value

\* An array that was read has an item that was, and goes on or ends after it.
LEMMA ItemReturned ==
  ASSUME NEW t \in Seq(Symbol), NEW q \in 1 .. Len(t), t[q] # "]", NEW s \in {"FIRST_ITEM", "NEXT_ITEM"},
         Reading(t)[<<s, q>>].how = "returned"
  PROVE  ItemGives(Reading(t), t, s, q)
<1> DEFINE R == Reading(t)
           x == R[<<s, q>>]
           val == R[<<"FETCH_VALUE", q>>]
           c == Past(t, val.at + 1, ArrayBlank)
           rest == R[<<"NEXT_ITEM", c + 1>>]
<1>0. Len(t) \in Nat /\ q \in 1 .. Len(t) + 1 /\ At(t, q) = t[q]
  BY DEF At
<1>1. x = MoreItems(R, t, s, q) /\ Far(val, t, q)
  <2>1. ReadingAt(R, t, q)
    BY <1>0, ReadingStep
  <2>2. "FETCH_VALUE" \in ReadState
    BY StateNames
  <2> QED BY <2>1, <2>2 DEF ReadingAt
<1>2. x = IF val.how # "returned" THEN val
          ELSE IF val.at > Len(t) THEN Undefined
          ELSE IF At(t, c) = "]" THEN Returns(<<val.value>>, c)
          ELSE IF At(t, c) # Comma THEN Throws
          ELSE IF rest.how # "returned" THEN rest
          ELSE Returns(<<val.value>> \o rest.value, rest.at)
  BY <1>0, <1>1 DEF MoreItems
<1>3. x.how = "returned"
  OBVIOUS
<1> HIDE DEF x, rest, R
<1>4. val.how = "returned"
  BY <1>2, <1>3
<1>5. val.at \in q .. Len(t)
  <2>1. val.at \in q .. Len(t) + 2
    BY <1>1, <1>4 DEF Far
  <2>2. ~(val.at > Len(t))
    BY <1>2, <1>3, <1>4, ThrowsIs
  <2> QED BY <1>0, <2>1, <2>2
<1>6. c \in val.at + 1 .. Len(t) + 1
  <2>1. val.at + 1 \in Nat \ {0} /\ val.at + 1 <= Len(t) + 1
    BY <1>0, <1>5
  <2>2. c \in 1 .. Len(t) + 1 /\ val.at + 1 <= c
    BY <2>1, PastIs, Zenon
  <2> QED BY <1>5, <2>1, <2>2
<1> HIDE DEF val, c
<1>7. ~(val.at > Len(t))
  BY <1>0, <1>5
<1>8. At(t, c) \in {"]", Comma}
  BY <1>2, <1>3, <1>4, <1>7, ThrowsIs
<1>9. c \in q .. Len(t) /\ At(t, c) = t[c]
  <2>1. c <= Len(t)
    <3>1. ~(c <= Len(t)) => At(t, c) = "NUL"
      BY DEF At
    <3> QED BY <1>8, <3>1 DEF Comma
  <2> QED BY <1>0, <1>5, <1>6, <2>1 DEF At
<1>10. CASE t[c] = "]"
  <2>1. x = Returns(<<val.value>>, c)
    BY <1>2, <1>4, <1>7, <1>9, <1>10
  <2>2. x.value = <<val.value>>
    BY <2>1, ReturnsIs
  <2> QED BY <1>4, <1>5, <1>9, <1>10, <2>2 DEF ItemGives, x, val, c, R
<1>11. CASE t[c] = Comma
  <2>1. At(t, c) # "]" /\ At(t, c) = Comma
    BY <1>9, <1>11 DEF Comma
  <2>2. rest.how = "returned"
    BY <1>2, <1>3, <1>4, <1>7, <2>1
  <2> DEFINE y == <<val.value>> \o rest.value
  <2>3. x = Returns(y, rest.at)
    BY <1>2, <1>4, <1>7, <2>1, <2>2
  <2> HIDE DEF y
  <2>4. x.value = y
    BY <2>3, ReturnsIs
  <2> QED BY <1>4, <1>5, <1>9, <1>11, <2>2, <2>4 DEF ItemGives, x, val, c, R, rest, y
<1> QED BY <1>8, <1>9, <1>10, <1>11

\* One item and others.
LEMMA SomeItems ==
  ASSUME NEW x, NEW y, NEW S, y \in Seq(S)
  PROVE  <<x>> \o y \in Seq(S \cup {x}) /\ Len(<<x>> \o y) = Len(y) + 1
<1> DEFINE V == S \cup {x}
           h == <<x>>
<1>1. h \in Seq(V) /\ Len(h) = 1
  OBVIOUS
<1>2. y \in Seq(V) /\ Len(y) \in Nat
  OBVIOUS
<1> HIDE DEF V, h
<1>3. h \o y \in Seq(V) /\ Len(h \o y) = Len(h) + Len(y)
  BY <1>1, <1>2, ConcatProperties, Zenon
<1> QED BY <1>1, <1>2, <1>3 DEF V, h

\* After a comma an array has at least one item.
LEMMA ItemsAreSome ==
  ASSUME NEW t \in Seq(Symbol)
  PROVE  \A q \in 1 .. Len(t) + 1 : \A s \in {"FIRST_ITEM", "NEXT_ITEM"} : IsItems(Reading(t)[<<s, q>>], s)
<1> DEFINE R == Reading(t)
           M == Len(t) + 1
           States == {"FIRST_ITEM", "NEXT_ITEM"}
           T == {q \in 1 .. M : \A s \in States : IsItems(R[<<s, q>>], s)}
<1>0. Len(t) \in Nat /\ M \in Nat
  OBVIOUS
<1>1. ASSUME NEW q \in 1 .. M, \A j \in 1 .. M : j > q => j \in T PROVE q \in T
  <2> SUFFICES ASSUME NEW s \in States, R[<<s, q>>].how = "returned" PROVE IsItems(R[<<s, q>>], s)
    BY Zenon DEF IsItems
  <2> DEFINE x == R[<<s, q>>]
             val == R[<<"FETCH_VALUE", q>>]
  <2>1. CASE At(t, q) = "]"
    <3>1. x = MoreItems(R, t, s, q)
      BY ReadingStep, Zenon DEF ReadingAt
    <3>2. x = IF s = "FIRST_ITEM" THEN Returns(<<>>, q) ELSE Throws
      BY <2>1, <3>1 DEF MoreItems
    <3> HIDE DEF x
    <3>3. s = "FIRST_ITEM"
      BY <3>2, ThrowsIs DEF x
    <3>4. x.value = <<>>
      BY <3>2, <3>3, ReturnsIs
    <3> QED BY <3>3, <3>4 DEF IsItems, x
  <2>2. CASE q <= Len(t) /\ At(t, q) # "]"
    <3>1. q \in 1 .. Len(t) /\ t[q] # "]"
      BY <2>2 DEF At
    <3>2. ItemGives(R, t, s, q)
      BY <3>1, ItemReturned, Zenon
    <3> DEFINE c == Past(t, val.at + 1, ArrayBlank)
               rest == R[<<"NEXT_ITEM", c + 1>>]
    <3>3. /\ c \in q .. Len(t)
          /\ \/ x.value = <<val.value>>
             \/ rest.how = "returned" /\ x.value = <<val.value>> \o rest.value
      BY <3>2, Zenon DEF ItemGives
    <3> HIDE DEF c, x, val, R
    <3>4. CASE x.value = <<val.value>>
      <4>1. x.value \in Seq({val.value}) /\ Len(x.value) > 0
        BY <3>4
      <4> QED BY <4>1 DEF IsItems, x
    <3>5. CASE rest.how = "returned" /\ x.value = <<val.value>> \o rest.value
      <4>1. c + 1 \in 1 .. M /\ c + 1 > q
        BY <1>0, <3>3
      <4>2. c + 1 \in T
        <5> HIDE DEF T
        <5> QED BY <1>1, <4>1
      <4>3. IsItems(rest, "NEXT_ITEM")
        BY <4>2
      <4> HIDE DEF rest
      <4>4. PICK S : rest.value \in Seq(S)
        BY <3>5, <4>3 DEF IsItems
      <4>5. x.value \in Seq(S \cup {val.value}) /\ Len(x.value) = Len(rest.value) + 1
        BY <3>5, <4>4, SomeItems
      <4>6. Len(rest.value) \in Nat
        BY <4>4
      <4>7. Len(x.value) > 0
        BY <4>5, <4>6
      <4> QED BY <4>5, <4>7 DEF IsItems, x
    <3> QED BY <3>3, <3>4, <3>5, Zenon
  <2>3. CASE q > Len(t)
    <3>1. q \in 1 .. Len(t) + 1 /\ At(t, q) = "NUL"
      BY <2>3 DEF At
    <3>2. x = MoreItems(R, t, s, q) /\ val = ParseValue(R, t, q)
      BY <3>1, ReadingStep, Zenon DEF ReadingAt
    <3>3. val = Throws
      <4>1. At(t, q) \notin {Quote, LeftBrace, "null", "t", "f", "true", "false", "["} \cup NumberText
        BY <3>1 DEF Quote, LeftBrace, NumberText
      <4> QED BY <3>2, <4>1, ValueCases
    <3>4. x = val
      BY <3>1, <3>2, <3>3, ThrowsIs DEF MoreItems
    <3> QED BY <3>3, <3>4, ThrowsIs
  <2> QED BY <1>0, <2>1, <2>2, <2>3
<1>2. \A q \in 1 .. M : q \in T
  <2> HIDE DEF T, M
  <2> QED BY <1>0, <1>1, Downward, Zenon
<1> QED BY <1>2, Zenon

\* The items from i on are x and y.
FromItem(S, T, f, i, x, y) ==
  /\ f \in Seq(T) /\ i \in 1 .. Len(f)
  /\ y \in Seq(S) /\ <<x>> \o y = SubSeq(f, i, Len(f))

\* An item and those after it.
LEMMA FirstAndRest ==
  ASSUME NEW S, NEW T, NEW f, NEW i, NEW x, NEW y, FromItem(S, T, f, i, x, y)
  PROVE  x = f[i] /\ y = SubSeq(f, i + 1, Len(f))
<1> USE DEF FromItem
<1> DEFINE w == SubSeq(f, i + 1, Len(f))
           u == <<x>> \o y
           v == <<f[i]>> \o w
<1>0. Len(f) \in Nat
  OBVIOUS
<1>1. u = v
  BY SuffixStep, Zenon
<1>2. w \in Seq(T) /\ Len(w) \in Nat /\ Len(y) \in Nat
  OBVIOUS
<1> HIDE DEF w
<1>3. /\ Len(u) = Len(y) + 1 /\ u[1] = x
      /\ \A j \in 1 .. Len(y) : u[j + 1] = y[j]
  OBVIOUS
<1>4. /\ Len(v) = Len(w) + 1 /\ v[1] = f[i]
      /\ \A j \in 1 .. Len(w) : v[j + 1] = w[j]
  BY <1>2
<1> HIDE DEF u, v
<1>5. x = f[i] /\ Len(y) = Len(w) /\ \A j \in 1 .. Len(y) : y[j] = w[j]
  BY <1>1, <1>2, <1>3, <1>4
<1>6. y = w
  BY <1>2, <1>5, SeqEqual
<1> QED BY <1>5, <1>6 DEF w

\* What was read of an element, if it is that element.
ReadBack(r, t, q) ==
  LET res == Reading(t)[<<"FETCH_VALUE", q>>] IN res.how = "returned" /\ res.value = r.tree

\* An element that is read as it was written is kept, so that the parser is in step with
\* the writer after it.
LEMMA ValueBack ==
  ASSUME NEW r, NEW width \in {1, 2}, Shows(r, width), Faithful(r, width), Unquoted(r.nodes),
         NEW t \in Seq(Symbol), NEW q \in 1 .. Len(t), Holds(t, q, r.text),
         Type(r.tree) = "OBJECT" \/ Ended(t, q + Len(r.text)), ReadBack(r, t, q)
  PROVE  /\ Kept(r.nodes, width)
         /\ Followed(t, q + Len(r.text), Type(r.tree)) =>
              Reading(t)[<<"FETCH_VALUE", q>>].at = q + Len(r.text) - 1
<1>1. Kept(r.nodes, width)
  <2>1. GivenBack(r, width, t, q)
    BY DEF Faithful
  <2> QED BY <2>1 DEF GivenBack, ReadBack
<1>2. Leads(r.nodes, width)
  <2>1. Nodes(r.nodes)
    BY DEF Shows
  <2> QED BY <1>1, <2>1, KeptLeads
<1>3. ReadsAt(r, width, t, q)
  BY <1>2 DEF Shows, Synced
<1> QED BY <1>1, <1>3 DEF ReadsAt

\* An array of what is faithful, from an item on.
FaithfulItem(ws, texts, trees, width, t, i) ==
  \A q \in Nat \ {0} :
    /\ Holds(t, q, texts[i]) /\ Holds(t, q + Len(texts[i]), ArrayRests(texts)[i + 1])
    /\ Ended(t, q + Len(texts[i]) + Len(ArrayRests(texts)[i + 1]))
    => \A s \in {"FIRST_ITEM", "NEXT_ITEM"} :
         LET x == Reading(t)[<<s, q>>]
         IN  x.how = "returned" /\ x.value = SubSeq(trees, i, Len(trees)) =>
               /\ \A j \in i .. Len(ws) : Kept(ws[j].nodes, width)
               /\ Type(trees[Len(trees)]) \notin Numbers

\* The items of an array, how they are written, and what they are.
ItemsAre(ws, texts, trees, width) ==
  /\ texts \in Seq(Seq(Symbol)) /\ Len(texts) = Len(ws) /\ Len(trees) = Len(ws) /\ Len(ws) \in Nat
  /\ \E S : trees \in Seq(S)
  /\ \A i \in 1 .. Len(ws) :
       /\ texts[i] = ws[i].text /\ trees[i] = ws[i].tree
       /\ Shows(ws[i], width) /\ Faithful(ws[i], width) /\ Unquoted(ws[i].nodes)

\* An item is, if those after it are: the first was read as it was written, so that the
\* others are read where they stand.  A last one that is a number takes the end of the array
\* for its own, and then no array ends there.
LEMMA ItemIsFaithful ==
  ASSUME NEW ws, NEW texts, NEW trees, NEW width \in {1, 2}, ItemsAre(ws, texts, trees, width),
         NEW t \in Seq(Symbol), NEW i \in 1 .. Len(ws),
         i < Len(ws) => FaithfulItem(ws, texts, trees, width, t, i + 1)
  PROVE  FaithfulItem(ws, texts, trees, width, t, i)
<1> DEFINE n == Len(ws)
           rests == ArrayRests(texts)
           R == Reading(t)
<1>0. n \in Nat /\ i \in Nat /\ i \in 1 .. n /\ Len(trees) = n /\ Len(texts) = n /\ Len(t) \in Nat
  BY DEF ItemsAre
<1>1. /\ texts[i] = ws[i].text /\ trees[i] = ws[i].tree
      /\ Shows(ws[i], width) /\ Faithful(ws[i], width) /\ Unquoted(ws[i].nodes)
  BY DEF ItemsAre
<1>2. texts[i] \in Seq(Symbol) /\ Len(texts[i]) > 0 /\ texts[i][1] \in Starts /\ Len(texts[i]) \in Nat
  <2>1. texts[i] \in Seq(Symbol) /\ Len(texts[i]) > 0 /\ texts[i][1] \in Starts
    BY <1>1 DEF Shows, Synced
  <2> QED BY <2>1
<1> SUFFICES ASSUME NEW q \in Nat \ {0}, Holds(t, q, texts[i]), Holds(t, q + Len(texts[i]), rests[i + 1]),
                    Ended(t, q + Len(texts[i]) + Len(rests[i + 1])), NEW s \in {"FIRST_ITEM", "NEXT_ITEM"},
                    R[<<s, q>>].how = "returned", R[<<s, q>>].value = SubSeq(trees, i, n)
             PROVE  /\ \A j \in i .. n : Kept(ws[j].nodes, width)
                    /\ Type(trees[n]) \notin Numbers
  BY <1>0, Zenon DEF FaithfulItem
<1> DEFINE c == q + Len(texts[i])
           val == R[<<"FETCH_VALUE", q>>]
           c2 == Past(t, val.at + 1, ArrayBlank)
           rest == R[<<"NEXT_ITEM", c2 + 1>>]
<1>3. ItemShown(t, q, texts, i)
  <2>1. texts \in Seq(Seq(Symbol)) /\ i \in 1 .. Len(texts)
    BY <1>0 DEF ItemsAre
  <2> QED BY <1>2, <2>1, ItemHolds, Zenon
<1>4. q \in 1 .. Len(t) /\ c \in 1 .. Len(t) /\ t[q] = texts[i][1] /\ t[q] # "]"
  BY <1>2, <1>3, Zenon DEF ItemShown, Starts
<1>5. /\ i < n => /\ t[c] = Comma /\ Holds(t, c + 1, texts[i + 1]) /\ Holds(t, c + 1 + Len(texts[i + 1]), rests[i + 2])
                  /\ c + Len(rests[i + 1]) = c + 1 + Len(texts[i + 1]) + Len(rests[i + 2])
      /\ i = n => t[c] = "]" /\ Len(rests[i + 1]) = 1
  BY <1>0, <1>3, Zenon DEF ItemShown
<1>6. ItemGives(R, t, s, q)
  BY <1>4, ItemReturned, Zenon
<1>7. /\ val.how = "returned" /\ c2 \in q .. Len(t) /\ val.at \in q .. Len(t)
      /\ \/ t[c2] = "]" /\ R[<<s, q>>].value = <<val.value>>
         \/ t[c2] = Comma /\ rest.how = "returned" /\ R[<<s, q>>].value = <<val.value>> \o rest.value
  BY <1>6, Zenon DEF ItemGives
<1>8. t[c2] = Comma => \E S : rest.value \in Seq(S) /\ Len(rest.value) > 0
  <2>1. c2 + 1 \in 1 .. Len(t) + 1
    <3>1. c2 \in q .. Len(t)
      BY <1>7
    <3> HIDE DEF c2
    <3> QED BY <1>0, <3>1
  <2>2. IsItems(rest, "NEXT_ITEM")
    BY <2>1, ItemsAreSome, Zenon
  <2> QED BY <1>7, <2>2, Zenon DEF IsItems, Comma
<1> HIDE DEF R, c2, rest, val, n, rests
<1>9. /\ val.value = trees[i]
      /\ t[c2] = Comma => rest.value = SubSeq(trees, i + 1, n)
  <2>0. PICK V : trees \in Seq(V)
    BY DEF ItemsAre
  <2>1. CASE t[c2] = Comma
    <3>1. PICK S : rest.value \in Seq(S)
      BY <1>8, <2>1
    <3>2. <<val.value>> \o rest.value = SubSeq(trees, i, Len(trees))
      BY <1>0, <1>7, <2>1, Zenon DEF Comma
    <3>3. i \in 1 .. Len(trees)
      BY <1>0
    <3>4. val.value = trees[i] /\ rest.value = SubSeq(trees, i + 1, Len(trees))
      <4>1. FromItem(S, V, trees, i, val.value, rest.value)
        BY <2>0, <3>1, <3>2, <3>3, Zenon DEF FromItem
      <4> QED BY <4>1, FirstAndRest, Zenon
    <3> QED BY <1>0, <3>4
  <2>2. CASE t[c2] = "]"
    <3>1. <<val.value>> = SubSeq(trees, i, n)
      BY <1>7, <2>2, Zenon DEF Comma
    <3>2. SubSeq(trees, i, n)[1] = trees[i]
      BY <1>0, <2>0
    <3>3. val.value = trees[i]
      <4>1. ASSUME NEW x, <<x>> = SubSeq(trees, i, n) PROVE x = trees[i]
        <5>1. <<x>>[1] = x
          OBVIOUS
        <5> QED BY <3>2, <4>1, <5>1, Zenon
      <4> QED BY <3>1, <4>1, Zenon
    <3> QED BY <2>2, <3>3 DEF Comma
  <2> QED BY <1>7, <2>1, <2>2
<1>10. ReadBack(ws[i], t, q)
  BY <1>1, <1>7, <1>9 DEF ReadBack, val, R
<1> DEFINE e == q + Len(texts[i]) + Len(rests[i + 1])
<1>11. CASE i < n
  <2>1. t[c] = Comma
    BY <1>5, <1>11
  <2>2. Ended(t, c)
    <3>1. c \in c .. Len(t) /\ \A j \in c .. c - 1 : t[j] = "]"
      BY <1>4
    <3> QED BY <2>1, <3>1, Zenon DEF Ended, RunsTo
  <2>3. Kept(ws[i].nodes, width) /\ val.at = c - 1
    <3>1. Followed(t, c, Type(ws[i].tree))
      BY <1>4, <2>1 DEF Followed, NumberEnds
    <3> HIDE DEF c
    <3>2. c = q + Len(ws[i].text) /\ Holds(t, q, ws[i].text)
      BY <1>1 DEF c
    <3>3. Ended(t, q + Len(ws[i].text)) /\ Followed(t, q + Len(ws[i].text), Type(ws[i].tree)) /\ q \in 1 .. Len(t)
      BY <1>4, <2>2, <3>1, <3>2
    <3>4. Kept(ws[i].nodes, width)
      BY <1>1, <1>10, <3>2, <3>3, ValueBack, Zenon
    <3>5. Reading(t)[<<"FETCH_VALUE", q>>].at = q + Len(ws[i].text) - 1
      BY <1>1, <1>10, <3>2, <3>3, ValueBack, Zenon
    <3>6. q + Len(ws[i].text) - 1 = c - 1
      <4> DEFINE l == Len(ws[i].text)
      <4>1. c = q + l /\ l \in Nat
        BY <1>1, <1>2, <3>2
      <4> HIDE DEF l
      <4>2. q + l - 1 = c - 1
        BY <4>1
      <4> QED BY <4>2 DEF l
    <3> QED BY <3>4, <3>5, <3>6 DEF val, R
  <2>4. c2 = c
    <3>1. val.at + 1 = c
      BY <1>4, <2>3
    <3>2. t[c] \notin ArrayBlank
      BY <2>1 DEF ArrayBlank, Space, Comma
    <3> HIDE DEF c
    <3> QED BY <1>4, <3>1, <3>2, PastHere DEF c2
  <2>5. rest.how = "returned" /\ rest.value = SubSeq(trees, i + 1, n) /\ rest = R[<<"NEXT_ITEM", c + 1>>]
    BY <1>7, <1>9, <2>1, <2>4, Zenon DEF Comma, rest
  <2>6. FaithfulItem(ws, texts, trees, width, t, i + 1)
    BY <1>11 DEF n
  <2>7. Ended(t, c + 1 + Len(texts[i + 1]) + Len(rests[i + 1 + 1])) /\ i + 1 + 1 = i + 2
    <3>1. q + Len(texts[i]) + Len(rests[i + 1]) = c + 1 + Len(texts[i + 1]) + Len(rests[i + 2])
      BY <1>5, <1>11, Zenon
    <3>2. i + 1 + 1 = i + 2
      BY <1>0
    <3>3. Ended(t, q + Len(texts[i]) + Len(rests[i + 1]))
      BY DEF rests
    <3> HIDE DEF c
    <3> QED BY <3>1, <3>2, <3>3, Zenon
  <2>8. Holds(t, c + 1, texts[i + 1]) /\ Holds(t, c + 1 + Len(texts[i + 1]), rests[i + 1 + 1])
    BY <1>5, <1>11, <2>7, Zenon
  <2>9. (\A j \in i + 1 .. n : Kept(ws[j].nodes, width)) /\ Type(trees[n]) \notin Numbers
    <3>1. c + 1 \in Nat \ {0}
      BY <1>4
    <3> HIDE DEF c
    <3>2. \A s2 \in {"FIRST_ITEM", "NEXT_ITEM"} :
            LET x == R[<<s2, c + 1>>]
            IN  x.how = "returned" /\ x.value = SubSeq(trees, i + 1, n) =>
                  /\ \A j \in i + 1 .. n : Kept(ws[j].nodes, width)
                  /\ Type(trees[n]) \notin Numbers
      BY <1>0, <2>6, <2>7, <2>8, <3>1, Zenon DEF FaithfulItem, R, n, rests
    <3> QED BY <2>5, <3>2, Zenon
  <2>10. \A j \in i .. n : j = i \/ j \in i + 1 .. n
    BY <1>0
  <2> QED BY <2>3, <2>9, <2>10, Zenon
<1>12. CASE i = n
  <2>1. t[c] = "]" /\ Ended(t, c + 1)
    BY <1>5, <1>12, Zenon
  <2>2. PICK u \in c + 1 .. Len(t) : RunsTo(t, c + 1, u)
    BY <2>1 DEF Ended
  <2>3. RunsTo(t, c, u) /\ u \in c .. Len(t)
    <3>1. \A j \in c .. u - 1 : j = c \/ j \in c + 1 .. u - 1
      <4>1. c \in Nat
        BY <1>4
      <4> HIDE DEF c
      <4> QED BY <4>1
    <3>2. u \in c .. Len(t)
      <4> HIDE DEF c
      <4> QED BY <1>0, <1>4
    <3> QED BY <2>1, <2>2, <3>1, <3>2, Zenon DEF RunsTo
  <2>4. Type(trees[n]) \notin Numbers
    <3> SUFFICES ASSUME Type(ws[i].tree) \in Numbers PROVE FALSE
      BY <1>1, <1>12
    <3>1. Len(texts[i]) = 1 /\ t[q] \in NumberText
      BY <1>1, <1>4 DEF Faithful
    <3>2. c = q + 1
      BY <3>1
    <3>3. val = Returns(NumberValue(t[q]), u - 1)
      <4>1. RunsTo(t, q + 1, u) /\ u \in q + 1 .. Len(t)
        BY <2>3, <3>2
      <4> QED BY <1>4, <3>1, <4>1, NumberRunsOn, Zenon DEF val, R
    <3>4. val.at + 1 = u /\ u \in 1 .. Len(t)
      <4>1. val.at = u - 1
        BY <3>3, ReturnsIs
      <4> QED BY <1>4, <2>3, <4>1
    <3>5. c2 = u
      <4>1. t[u] \notin ArrayBlank
        BY <2>3, Zenon DEF RunsTo, ArrayBlank, Space, Comma, RightBrace
      <4> QED BY <3>4, <4>1, PastHere DEF c2
    <3>6. t[c2] = Comma
      BY <1>7, <2>3, <3>5 DEF RunsTo, RightBrace, Comma
    <3>7. Len(rest.value) > 0 /\ rest.value = SubSeq(trees, n + 1, n)
      BY <1>8, <1>9, <1>12, <3>6
    <3>8. Len(rest.value) = 0
      <4>1. n + 1 \in Int /\ n \in Int /\ n < n + 1
        BY <1>0
      <4>2. SubSeq(trees, n + 1, n) = <<>>
        BY <4>1, SubSeqEmpty
      <4>3. rest.value = <<>>
        BY <3>7, <4>2
      <4>4. Len(<<>>) = 0
        OBVIOUS
      <4> QED BY <4>3, <4>4, Zenon
    <3> DEFINE k == Len(rest.value)
    <3>9. k > 0 /\ k = 0
      BY <3>7, <3>8, Zenon
    <3> HIDE DEF k
    <3> QED BY <3>9
  <2>5. Kept(ws[i].nodes, width)
    <3>1. Ended(t, c)
      BY <2>3 DEF Ended
    <3>2. c = q + Len(ws[i].text) /\ Holds(t, q, ws[i].text)
      BY <1>1
    <3> HIDE DEF c
    <3> QED BY <1>1, <1>4, <1>10, <3>1, <3>2, ValueBack, Zenon
  <2>6. \A j \in i .. n : j = i
    BY <1>0, <1>12
  <2> QED BY <2>4, <2>5, <2>6
<1>13. i < n \/ i = n
  BY <1>0
<1> QED BY <1>11, <1>12, <1>13

\* From each item on, by induction down from the last one.
LEMMA AllItemsFaithful ==
  ASSUME NEW ws, NEW texts, NEW trees, NEW width \in {1, 2}, ItemsAre(ws, texts, trees, width),
         NEW t \in Seq(Symbol)
  PROVE  \A i \in 1 .. Len(ws) : FaithfulItem(ws, texts, trees, width, t, i)
<1> DEFINE n == Len(ws)
           T == {i \in 1 .. n : FaithfulItem(ws, texts, trees, width, t, i)}
<1>0. n \in Nat
  BY DEF ItemsAre
<1>1. ASSUME NEW i \in 1 .. n, \A j \in 1 .. n : j > i => j \in T PROVE i \in T
  <2>1. ASSUME i < n PROVE FaithfulItem(ws, texts, trees, width, t, i + 1)
    <3>1. i + 1 \in 1 .. n /\ i + 1 > i
      BY <1>0, <2>1
    <3>2. i + 1 \in T
      <4> HIDE DEF T
      <4> QED BY <1>1, <3>1
    <3> QED BY <3>2
  <2>2. FaithfulItem(ws, texts, trees, width, t, i)
    BY <2>1, ItemIsFaithful
  <2> QED BY <2>2
<1>2. \A i \in 1 .. n : i \in T
  <2> HIDE DEF T
  <2> QED BY <1>0, <1>1, Downward, Zenon
<1> QED BY <1>2

\* An array is read as it was written only if it and its items are kept.
LEMMA ArrayIsFaithful ==
  ASSUME NEW S, NEW ws \in Seq(S), NEW width \in {1, 2},
         \A i \in 1 .. Len(ws) : Shows(ws[i], width) /\ Faithful(ws[i], width)
  PROVE  Faithful(WrittenArray(ws), width)
<1> DEFINE n == Len(ws)
           r == WrittenArray(ws)
           texts == [i \in 1 .. n |-> ws[i].text]
           trees == [i \in 1 .. n |-> ws[i].tree]
           Trees == {ws[i].tree : i \in 1 .. n}
           rests == ArrayRests(texts)
           open == <<"[">>
<1>0. n \in Nat
  OBVIOUS
<1>1. /\ texts \in Seq(Seq(Symbol)) /\ Len(texts) = n
      /\ \A i \in 1 .. n : texts[i] = ws[i].text /\ texts[i] \in Seq(Symbol)
  <2>1. \A i \in 1 .. n : ws[i].text \in Seq(Symbol)
    BY DEF Shows, Synced
  <2>2. texts \in [1 .. n -> Seq(Symbol)]
    BY <2>1
  <2> HIDE DEF n
  <2>3. texts \in Seq(Seq(Symbol)) /\ Len(texts) = n
    BY <1>0, <2>2, SequenceIs
  <2> QED BY <2>1, <2>3, Zenon
<1>2. trees \in Seq(Trees) /\ Len(trees) = n /\ \A i \in 1 .. n : trees[i] = ws[i].tree
  <2>1. trees \in [1 .. n -> Trees]
    OBVIOUS
  <2> HIDE DEF n, Trees
  <2>2. trees \in Seq(Trees) /\ Len(trees) = n
    BY <1>0, <2>1, SequenceIs
  <2> QED BY <2>2, Zenon
<1>3. /\ r.tree = <<"ARRAY", trees>> /\ r.text = open \o rests[1]
      /\ r.nodes = {r.tree} \cup UNION {ws[i].nodes : i \in 1 .. n}
  BY Zenon DEF WrittenArray, ArrayText
<1>4. /\ Type(r.tree) = "ARRAY" /\ Value(r.tree) = trees
      /\ \A i \in 1 .. n : ws[i].nodes \subseteq r.nodes
  BY <1>3 DEF Type, Value
<1>5. \A i \in 1 .. n : Shows(ws[i], width) /\ Faithful(ws[i], width)
  OBVIOUS
<1> HIDE DEF n, r, texts, trees, Trees, rests
<1>6. \A i \in 1 .. n + 1 : ArrayAt(rests, texts, i)
  BY <1>1, ArrayStep DEF rests
<1>7. \A i \in 1 .. n + 1 : rests[i] \in Seq(Symbol) /\ Len(rests[i]) \in Nat
  <2> SUFFICES ASSUME NEW i \in 1 .. n + 1 PROVE rests[i] \in Seq(Symbol) /\ Len(rests[i]) \in Nat
    OBVIOUS
  <2>1. rests[i] \in Seq(Symbol)
    BY <1>6, Zenon DEF ArrayAt
  <2> QED BY <2>1, LenProperties
<1>8. open \in Seq(Symbol) /\ Len(open) = 1 /\ open[1] = "["
  BY Literals, OneSymbol
<1> HIDE DEF open
<1>9. rests[1] \in Seq(Symbol) /\ Len(rests[1]) \in Nat /\ Len(r.text) = 1 + Len(rests[1])
  <2>1. 1 \in 1 .. n + 1
    BY <1>0
  <2>2. rests[1] \in Seq(Symbol) /\ Len(rests[1]) \in Nat
    BY <1>7, <2>1
  <2>3. Len(open \o rests[1]) = Len(open) + Len(rests[1])
    BY <1>8, <2>2, ConcatIs, Zenon
  <2> QED BY <1>3, <1>8, <2>2, <2>3
<1>10. ASSUME Unquoted(r.nodes), NEW t \in Seq(Symbol), NEW p \in 1 .. Len(t), Holds(t, p, r.text),
              Ended(t, p + Len(r.text)), ReadBack(r, t, p)
       PROVE  Kept(r.nodes, width)
  <2> DEFINE R == Reading(t)
             res == R[<<"FETCH_VALUE", p>>]
             all == R[<<"FIRST_ITEM", p + 1>>]
  <2>0. Len(t) \in Nat /\ p \in Nat \ {0}
    OBVIOUS
  <2>1. Holds(t, p, open) /\ Holds(t, p + 1, rests[1])
    BY <1>3, <1>8, <1>9, <1>10, <2>0, HoldsConcat
  <2>2. t[p] = "["
    BY <1>8, <2>0, <2>1 DEF Holds
  <2>3. res = Typed("ARRAY", all)
    <3>1. res = ParseValue(R, t, p)
      <4>1. p \in 1 .. Len(t) + 1
        BY <2>0
      <4> QED BY <4>1, ReadingStep, Zenon DEF ReadingAt
    <3>2. At(t, p) = "["
      BY <2>0, <2>2 DEF At
    <3>3. ParseValue(R, t, p) = Typed("ARRAY", ParseArray(R, t, p))
      BY <3>2, ValueCases
    <3> QED BY <3>1, <3>3 DEF ParseArray
  <2>4. all.how = "returned" /\ all.value = trees
    <3>1. res.how = "returned" /\ res.value = <<"ARRAY", trees>>
      BY <1>3, <1>10 DEF ReadBack
    <3> HIDE DEF res, all
    <3>2. all.how = "returned"
      BY <2>3, <3>1 DEF Typed
    <3>3. res.value = <<"ARRAY", all.value>>
      <4>1. res = Returns(<<"ARRAY", all.value>>, all.at)
        BY <2>3, <3>2 DEF Typed
      <4> QED BY <4>1, ReturnsIs
    <3> QED BY <3>1, <3>2, <3>3
  <2>5. ItemsAre(ws, texts, trees, width)
    <3>1. \A i \in 1 .. n : Unquoted(ws[i].nodes)
      BY <1>4, <1>10 DEF Unquoted
    <3> QED BY <1>0, <1>1, <1>2, <1>5, <3>1 DEF ItemsAre, n
  <2>6. n > 0 => (\A j \in 1 .. n : Kept(ws[j].nodes, width)) /\ Type(trees[n]) \notin Numbers
    <3> SUFFICES ASSUME n > 0
                 PROVE  (\A j \in 1 .. n : Kept(ws[j].nodes, width)) /\ Type(trees[n]) \notin Numbers
      OBVIOUS
    <3>0. 1 \in 1 .. n /\ 1 + 1 \in 1 .. n + 1 /\ 1 \in 1 .. n + 1 /\ 1 <= Len(texts)
      BY <1>0, <1>1
    <3>1. FaithfulItem(ws, texts, trees, width, t, 1)
      BY <2>5, <3>0, AllItemsFaithful DEF n
    <3>2. rests[1] = (Separator(1 = 1) \o texts[1]) \o rests[1 + 1]
      <4>1. ArrayAt(rests, texts, 1)
        BY <1>6, <3>0
      <4> QED BY <3>0, <4>1, Zenon DEF ArrayAt
    <3>3. texts[1] \in Seq(Symbol) /\ rests[1 + 1] \in Seq(Symbol) /\ Len(texts[1]) \in Nat /\ Len(rests[1 + 1]) \in Nat
      BY <1>1, <1>7, <3>0
    <3>4. Separator(1 = 1) \o texts[1] = texts[1]
      BY <3>3 DEF Separator
    <3>5. /\ Holds(t, p + 1, texts[1]) /\ Holds(t, p + 1 + Len(texts[1]), rests[1 + 1])
          /\ Len(rests[1]) = Len(texts[1]) + Len(rests[1 + 1])
      <4> DEFINE u == texts[1]
                 v == rests[1 + 1]
      <4>0. p + 1 \in Nat \ {0}
        BY <2>0
      <4>1. u \in Seq(Symbol) /\ v \in Seq(Symbol) /\ rests[1] = u \o v
        BY <3>2, <3>3, <3>4, Zenon
      <4> HIDE DEF u, v
      <4>3. Holds(t, p + 1, u \o v)
        BY <2>1, <4>1
      <4>2. Holds(t, p + 1, u) /\ Holds(t, p + 1 + Len(u), v) /\ Len(u \o v) = Len(u) + Len(v)
        BY <4>0, <4>1, <4>3, HoldsConcat
      <4> QED BY <4>1, <4>2, Zenon DEF u, v
    <3>6. Ended(t, p + 1 + Len(texts[1]) + Len(rests[1 + 1]))
      <4> DEFINE u == Len(texts[1])
                 v == Len(rests[1 + 1])
                 w == Len(r.text)
      <4>1. u \in Nat /\ v \in Nat /\ w = 1 + (u + v)
        BY <1>9, <3>3, <3>5
      <4>2. Ended(t, p + w)
        BY <1>10
      <4> HIDE DEF u, v, w
      <4>3. p + w = p + 1 + u + v
        BY <2>0, <4>1
      <4>4. Ended(t, p + 1 + u + v)
        BY <4>2, <4>3, Zenon
      <4> QED BY <4>4, Zenon DEF u, v
    <3>7. trees = SubSeq(trees, 1, Len(trees))
      BY <1>2
    <3>8. p + 1 \in Nat \ {0}
      BY <2>0
    <3>9. all.value = SubSeq(trees, 1, Len(trees))
      BY <2>4, <3>7
    <3> HIDE DEF all
    <3>10. \A s \in {"FIRST_ITEM", "NEXT_ITEM"} :
             LET x == Reading(t)[<<s, p + 1>>]
             IN  x.how = "returned" /\ x.value = SubSeq(trees, 1, Len(trees)) =>
                   /\ \A j \in 1 .. Len(ws) : Kept(ws[j].nodes, width)
                   /\ Type(trees[Len(trees)]) \notin Numbers
      BY <3>1, <3>5, <3>6, <3>8, Zenon DEF FaithfulItem, rests
    <3>11. (\A j \in 1 .. Len(ws) : Kept(ws[j].nodes, width)) /\ Type(trees[Len(trees)]) \notin Numbers
      BY <2>4, <3>9, <3>10, Zenon DEF all
    <3> QED BY <1>2, <3>11 DEF n
  <2>7. ~EndsWithNumber(trees)
    <3>1. trees # <<>> => n > 0 /\ Last(trees) = trees[n]
      BY <1>0, <1>2 DEF Last
    <3> QED BY <2>6, <3>1 DEF EndsWithNumber, Numbers
  <2>8. KeptNode(r.tree, width)
    BY <1>4, <2>7 DEF KeptNode
  <2>9. \A j \in 1 .. n : Kept(ws[j].nodes, width)
    <3>1. n = 0 \/ n > 0
      BY <1>0
    <3> QED BY <2>6, <3>1
  <2> QED BY <1>3, <2>8, <2>9 DEF Kept
<1>11. Type(r.tree) \notin Numbers /\ Type(r.tree) # "OBJECT"
  BY <1>4 DEF Numbers
<1> QED BY <1>10, <1>11 DEF Faithful, GivenBack, ReadBack, r

-----------------------------------------------------------------------------
(* Nor in objects.                                                         *)

\* What was read from where a key is expected: no member, or one and those that
\* follow it.
MembersOf(f, t, s, p) ==
  LET x == f[<<s, p>>]
  IN  x.how = "returned" =>
        \/ x.value = Null
        \/ \E key, v : Plain(key) /\ x.value = PutBefore(key, v, Null)
        \/ \E c \in p + 1 .. Len(t) + 1 :
             LET rest == f[<<"FETCH_KEY_AFTER_COMMA", c>>]
             IN  rest.how = "returned" /\ \E key, v : Plain(key) /\ x.value = PutBefore(key, v, rest.value)

\* The loop of ParseObject reads no other members.
LEMMA MembersRead ==
  ASSUME NEW t \in Seq(Symbol), NEW p \in 1 .. Len(t) + 1, NEW s \in {"FETCH_KEY", "FETCH_KEY_AFTER_COMMA"}
  PROVE  MembersOf(Reading(t), t, s, p)
<1> DEFINE R == Reading(t)
           x == R[<<s, p>>]
           q == Past(t, p, Blank)
           key == ParseString(t, q)
           u == Until(t, key.at + 1, {":"})
           v == Past(t, u + 1, Blank)
           val == R[<<"FETCH_VALUE", v>>]
           c == Past(t, val.at + 1, Blank)
           rest == R[<<"FETCH_KEY_AFTER_COMMA", c + 1>>]
           ends == c > Len(t) \/ At(t, c) = RightBrace
           more == IF At(t, q) = RightBrace /\ q <= Len(t)
                     THEN IF s = "FETCH_KEY" THEN Returns(Null, q) ELSE Throws
                   ELSE IF q <= Len(t) /\ At(t, q) # Quote THEN Throws
                   ELSE IF q > Len(t) \/ v > Len(t) THEN Returns(Null, Len(t) + 1)
                   ELSE IF val.how # "returned" THEN val
                   ELSE IF c > Len(t) \/ At(t, c) = RightBrace
                     THEN Returns(PutBefore(key.value, val.value, Null), c)
                   ELSE IF At(t, c) # Comma THEN Throws
                   ELSE IF rest.how # "returned" THEN rest
                   ELSE Returns(PutBefore(key.value, val.value, rest.value), rest.at)
<1>0. Len(t) \in Nat
  OBVIOUS
<1>1. q \in 1 .. Len(t) + 1 /\ p <= q
  BY PastIs
<1>2. key.at \in q + 1 .. Len(t) + 2 /\ Plain(key.value)
  <2> HIDE DEF q
  <2>1. q + 1 \in 1 .. Len(t) + 2
    BY <1>1
  <2>2. Plain(StringRests(t)[q + 1].value)
    BY <2>1, ReadIsPlain
  <2>3. key.at \in q + 1 .. Len(t) + 2
    BY <1>1, ParseStringIs
  <2> QED BY <2>2, <2>3 DEF ParseString
<1>3. u \in 1 .. Len(t) + 1 /\ (key.at <= Len(t) => u >= key.at + 1)
  <2> HIDE DEF key, q
  <2>1. key.at + 1 \in Nat \ {0}
    BY <1>0, <1>1, <1>2
  <2> QED BY <1>0, <1>1, <1>2, <2>1, UntilIs
<1>4. v \in 1 .. Len(t) + 1 /\ (u <= Len(t) => v >= u + 1) /\ (u > Len(t) => v = Len(t) + 1)
  <2> HIDE DEF u
  <2>1. u + 1 \in Nat \ {0}
    BY <1>0, <1>3
  <2> QED BY <1>0, <1>3, <2>1, PastIs
<1>5. v <= Len(t) => v \in p + 1 .. Len(t) + 1
  <2> HIDE DEF q, key, u, v
  <2>1. key.at > Len(t) => u = Len(t) + 1
    BY <1>0, <1>1, <1>2, UntilIs DEF u
  <2> QED BY <1>0, <1>1, <1>2, <1>3, <1>4, <2>1
<1>6. Far(val, t, v)
  <2> HIDE DEF v
  <2> QED BY <1>4, ReadingStep, StateNames, Zenon DEF ReadingAt
<1>7. ASSUME v <= Len(t), val.how = "returned", c <= Len(t)
      PROVE  c + 1 \in p + 1 .. Len(t) + 1
  <2>1. val.at \in v .. Len(t) + 2
    BY <1>6, <1>7 DEF Far
  <2> HIDE DEF v
  <2>2. val.at + 1 \in Nat \ {0}
    BY <1>0, <1>4, <2>1
  <2> HIDE DEF val
  <2>3. /\ c \in 1 .. Len(t) + 1
        /\ val.at + 1 <= Len(t) + 1 => val.at + 1 <= c
        /\ val.at + 1 > Len(t) => c = Len(t) + 1
    BY <2>2, PastIs
  <2> HIDE DEF c
  <2> QED BY <1>0, <1>4, <1>5, <1>7, <2>1, <2>3
<1>8. x = more
  <2>1. x = MoreMembers(R, t, s, p)
    BY ReadingStep, Zenon DEF ReadingAt
  <2> HIDE DEF R
  <2>2. MoreMembers(R, t, s, p) = more
    BY DEF MoreMembers
  <2> QED BY <2>1, <2>2
<1> HIDE DEF R, x, q, key, u, v, val, c, rest
<1> SUFFICES ASSUME x.how = "returned"
             PROVE  \/ x.value = Null
                    \/ x.value = PutBefore(key.value, val.value, Null)
                    \/ /\ c + 1 \in p + 1 .. Len(t) + 1 /\ rest.how = "returned"
                       /\ x.value = PutBefore(key.value, val.value, rest.value)
  BY <1>2, Zenon DEF MembersOf, x, rest, R
<1> DEFINE Early == \/ At(t, q) = RightBrace /\ q <= Len(t)
                    \/ q <= Len(t) /\ At(t, q) # Quote
                    \/ q > Len(t) \/ v > Len(t)
<1>9. CASE Early
  <2>1. x \in {Returns(Null, q), Throws, Returns(Null, Len(t) + 1)}
    BY <1>8, <1>9
  <2> QED BY <2>1, ReturnsIs, ThrowsIs
<1>10. CASE ~Early
  <2>1. v <= Len(t) /\ val.how = "returned"
    <3>1. v <= Len(t)
      BY <1>0, <1>4, <1>10
    <3> QED BY <1>8, <1>10, <3>1
  <2>2. CASE ends
    <3>1. x = Returns(PutBefore(key.value, val.value, Null), c)
      BY <1>8, <1>10, <2>1, <2>2
    <3> QED BY <3>1, ReturnsIs
  <2>3. CASE ~ends
    <3>1. At(t, c) = Comma
      <4>1. At(t, c) # Comma => x = Throws
        BY <1>8, <1>10, <2>1, <2>3
      <4> QED BY <4>1, ThrowsIs
    <3>2. x = IF rest.how # "returned" THEN rest
              ELSE Returns(PutBefore(key.value, val.value, rest.value), rest.at)
      BY <1>8, <1>10, <2>1, <2>3, <3>1
    <3>3. rest.how = "returned"
      BY <3>2
    <3>4. x.value = PutBefore(key.value, val.value, rest.value)
      BY <3>2, <3>3, ReturnsIs
    <3>5. c <= Len(t)
      <4>1. c \in Nat
        <5>1. val.at \in v .. Len(t) + 2
          BY <1>6, <2>1 DEF Far
        <5>2. val.at + 1 \in Nat \ {0}
          BY <1>0, <1>4, <5>1
        <5> QED BY <5>2, PastIs DEF c
      <4> QED BY <1>0, <2>3, <4>1
    <3> QED BY <1>7, <2>1, <3>3, <3>4, <3>5
  <2> QED BY <2>2, <2>3
<1> QED BY <1>9, <1>10

\* No backslash is in a key that was read,
PlainKeys(x) == x.how = "returned" => \A k \in DOMAIN x.value.elements : Plain(k)

\* from each place on, by induction down from the end of the text.
LEMMA KeysArePlain ==
  ASSUME NEW t \in Seq(Symbol)
  PROVE  \A p \in 1 .. Len(t) + 1 : \A s \in {"FETCH_KEY", "FETCH_KEY_AFTER_COMMA"} :
           PlainKeys(Reading(t)[<<s, p>>])
<1> DEFINE R == Reading(t)
           M == Len(t) + 1
           States == {"FETCH_KEY", "FETCH_KEY_AFTER_COMMA"}
           T == {p \in 1 .. M : \A s \in States : PlainKeys(R[<<s, p>>])}
<1>0. Len(t) \in Nat /\ M \in Nat
  OBVIOUS
<1>1. \A key, v, o : (\A k \in DOMAIN o.elements : Plain(k)) /\ Plain(key) =>
        \A k \in DOMAIN PutBefore(key, v, o).elements : Plain(k)
  BY DEF PutBefore, MakeObject
<1>2. DOMAIN Null.elements = {}
  BY DEF Null
<1>3. ASSUME NEW p \in 1 .. M, \A j \in 1 .. M : j > p => j \in T PROVE p \in T
  <2> SUFFICES ASSUME NEW s \in States, R[<<s, p>>].how = "returned"
               PROVE  \A k \in DOMAIN R[<<s, p>>].value.elements : Plain(k)
    BY DEF PlainKeys
  <2> DEFINE x == R[<<s, p>>]
  <2>1. MembersOf(R, t, s, p)
    BY MembersRead
  <2>2. \A c \in p + 1 .. M : PlainKeys(R[<<"FETCH_KEY_AFTER_COMMA", c>>])
    <3> SUFFICES ASSUME NEW c \in p + 1 .. M PROVE c \in T
      BY Zenon
    <3>1. c \in 1 .. M /\ c > p
      BY <1>0
    <3> HIDE DEF T
    <3> QED BY <1>3, <3>1
  <2> HIDE DEF R, T, M
  <2>3. \A k \in DOMAIN x.value.elements : Plain(k)
    BY <1>1, <1>2, <2>1, <2>2, Zenon DEF MembersOf, PlainKeys, M
  <2> QED BY <2>3
<1>4. \A p \in 1 .. M : p \in T
  <2> HIDE DEF T, M
  <2> QED BY <1>0, <1>3, Downward, Zenon
<1> QED BY <1>4, Zenon

\* What is known of a member that was read as it was written.
MemberBack(f, t, s, m, k, r, width, c) ==
  LET rest == f[<<"FETCH_KEY_AFTER_COMMA", c + 1>>]
  IN  /\ Kept(r.nodes, width)
      /\ t[c] = Comma => rest.how = "returned" /\ f[<<s, m>>].value = PutBefore(k, r.tree, rest.value)

\* A member that was read as it was written is kept, and the others are read after it.
LEMMA MemberIsFaithful ==
  ASSUME NEW t \in Seq(Symbol), NEW m, NEW k \in Seq(Symbol), KeptKey(k), NEW r, NEW width \in {1, 2},
         Shows(r, width), Faithful(r, width), Unquoted(r.nodes),
         NEW c \in 1 .. Len(t), MemberAt(t, m, k, r, c),
         NEW s \in {"FETCH_KEY", "FETCH_KEY_AFTER_COMMA"},
         Reading(t)[<<s, m>>].how = "returned", Reading(t)[<<s, m>>].value.elements[k] = r.tree
  PROVE  MemberBack(Reading(t), t, s, m, k, r, width, c)
<1> DEFINE R == Reading(t)
           z == m + Len(k) + 3
           x == R[<<s, m>>]
           val == R[<<"FETCH_VALUE", z>>]
           d == Past(t, val.at + 1, Blank)
           rest == R[<<"FETCH_KEY_AFTER_COMMA", d + 1>>]
<1>1. MemberReads(R, t, s, m, k) /\ MemberPlaces(t, m, k, r, c)
  <2>1. r.text \in Seq(Symbol) /\ Len(r.text) > 0 /\ r.text[1] \in Starts
    BY DEF Shows, Synced
  <2> QED BY <2>1, MemberStart
<1>2. z \in 1 .. Len(t) /\ Holds(t, z, r.text) /\ c = z + Len(r.text)
  BY <1>1 DEF MemberPlaces
<1>3. x = IF val.how # "returned" THEN val
          ELSE IF d > Len(t) \/ At(t, d) = RightBrace
            THEN Returns(PutBefore(k, val.value, Null), d)
          ELSE IF At(t, d) # Comma THEN Throws
          ELSE IF rest.how # "returned" THEN rest
          ELSE Returns(PutBefore(k, val.value, rest.value), rest.at)
  BY <1>1, Zenon DEF MemberReads
<1>4. x.how = "returned" /\ x.value.elements[k] = r.tree
  OBVIOUS
<1> HIDE DEF z, x, val, d, rest
<1>5. val.how = "returned"
  BY <1>3, <1>4
<1>6. \A o : PutBefore(k, val.value, o).elements[k] = val.value
  BY DEF PutBefore, MakeObject
<1>7. \/ x.value = PutBefore(k, val.value, Null)
      \/ x.value = PutBefore(k, val.value, rest.value)
  <2>1. CASE d > Len(t) \/ At(t, d) = RightBrace
    BY <1>3, <1>5, <2>1, ReturnsIs
  <2>2. CASE ~(d > Len(t) \/ At(t, d) = RightBrace)
    <3>1. At(t, d) # Comma => x = Throws
      BY <1>3, <1>5, <2>2
    <3>2. At(t, d) = Comma
      BY <1>4, <3>1, ThrowsIs
    <3>3. x = IF rest.how # "returned" THEN rest
              ELSE Returns(PutBefore(k, val.value, rest.value), rest.at)
      BY <1>3, <1>5, <2>2, <3>2
    <3> QED BY <1>4, <3>3, ReturnsIs
  <2> QED BY <2>1, <2>2
<1>8. val.value = r.tree
  BY <1>4, <1>6, <1>7
<1>9. ReadBack(r, t, z)
  BY <1>5, <1>8 DEF ReadBack, val
<1>10. t[c] \in {Comma, RightBrace} /\ Ended(t, c) /\ Followed(t, c, Type(r.tree))
  <2>1. t[c] \in {Comma, RightBrace}
    BY Zenon DEF MemberAt
  <2>2. c \in c .. Len(t) /\ (\A j \in c .. c - 1 : t[j] = "]") /\ c <= Len(t)
    OBVIOUS
  <2> QED BY <2>1, <2>2 DEF Ended, RunsTo, Followed, NumberEnds
<1>11. Kept(r.nodes, width) /\ val.at = c - 1
  <2>1. Ended(t, z + Len(r.text)) /\ Followed(t, z + Len(r.text), Type(r.tree))
    BY <1>2, <1>10
  <2>2. Kept(r.nodes, width)
    BY <1>2, <1>9, <2>1, ValueBack, Zenon
  <2>3. val.at = z + Len(r.text) - 1
    BY <1>2, <1>9, <2>1, ValueBack DEF val
  <2>4. z + Len(r.text) - 1 = c - 1
    <3> DEFINE w == Len(r.text)
    <3>1. w \in Nat
      <4>1. r.text \in Seq(Symbol)
        BY DEF Shows, Synced
      <4> QED BY <4>1
    <3>2. z \in Nat /\ c = z + w
      BY <1>2
    <3> HIDE DEF w
    <3>3. z + w - 1 = c - 1
      BY <3>1, <3>2
    <3> QED BY <3>3 DEF w
  <2> QED BY <2>2, <2>3, <2>4
<1>12. d = c
  <2>1. val.at + 1 = c
    BY <1>11
  <2>2. t[c] \notin Blank
    BY <1>10 DEF Blank, Comma, RightBrace, Space
  <2>3. Past(t, c, Blank) = c
    BY <2>2, PastHere
  <2> QED BY <2>1, <2>3 DEF d
<1>13. ASSUME t[c] = Comma PROVE rest.how = "returned" /\ x.value = PutBefore(k, r.tree, rest.value)
  <2>1. ~(d > Len(t) \/ At(t, d) = RightBrace) /\ At(t, d) = Comma
    <3>1. c <= Len(t) /\ ~(c > Len(t)) /\ Comma # RightBrace
      BY DEF Comma, RightBrace
    <3> QED BY <1>12, <1>13, <3>1 DEF At
  <2>2. x = IF rest.how # "returned" THEN rest
            ELSE Returns(PutBefore(k, val.value, rest.value), rest.at)
    BY <1>3, <1>5, <2>1
  <2>3. rest.how = "returned"
    BY <1>4, <2>2
  <2>4. x.value = PutBefore(k, val.value, rest.value)
    BY <2>2, <2>3, ReturnsIs
  <2> QED BY <1>8, <2>3, <2>4
<1>14. rest = R[<<"FETCH_KEY_AFTER_COMMA", c + 1>>]
  BY <1>12 DEF rest
<1> QED BY <1>11, <1>13, <1>14 DEF MemberBack, x

\* An object is read as it was written only if it and its members are kept: from each key
\* on, by induction down from the last one.  An object without members is read as null.
LEMMA ObjectIsFaithful ==
  ASSUME NEW keys \in SUBSET Key, NEW ws, DOMAIN ws = keys, NEW width \in {1, 2},
         \A k \in keys : Shows(ws[k], width) /\ Faithful(ws[k], width)
  PROVE  Faithful(WrittenObject(ws), width)
<1> DEFINE N == Len(KeyOrder)
           r == WrittenObject(ws)
           texts == [k \in keys |-> ws[k].text]
           trees == [k \in keys |-> ws[k].tree]
           rests == ObjectRests(texts)
           open == <<LeftBrace>>
           Members(i) == {KeyOrder[j] : j \in i .. N} \cap keys
<1>0. N \in Nat
  BY KeysAre
<1>1. /\ texts \in [keys -> Seq(Symbol)]
      /\ \A k \in keys : texts[k] = ws[k].text /\ texts[k] \in Seq(Symbol)
  <2>1. \A k \in keys : ws[k].text \in Seq(Symbol)
    BY DEF Shows, Synced
  <2> QED BY <2>1
<1>2. DOMAIN trees = keys /\ \A k \in keys : trees[k] = ws[k].tree
  OBVIOUS
<1>3. /\ r.tree = <<"OBJECT", MakeObject(trees)>> /\ r.text = open \o rests[1]
      /\ r.nodes = {r.tree} \cup UNION {ws[k].nodes : k \in keys}
  BY DEF WrittenObject, ObjectText
<1>4. /\ Type(r.tree) = "OBJECT" /\ Value(r.tree) = MakeObject(trees)
      /\ Value(r.tree).elements = trees /\ ~Value(r.tree).null
      /\ r.tree \in r.nodes
      /\ \A k \in keys : ws[k].nodes \subseteq r.nodes
  BY <1>3 DEF Type, Value, MakeObject
<1>5. \A k \in keys : Shows(ws[k], width) /\ Faithful(ws[k], width)
  OBVIOUS
<1> HIDE DEF N, r, texts, trees, rests
<1>6. \A i \in 1 .. N + 1 : ObjectAt(rests, texts, i)
  BY <1>1, ObjectStep DEF rests, N
<1>7. open \in Seq(Symbol) /\ Len(open) = 1
  BY Literals, OneSymbol
<1> HIDE DEF open
<1>8. \A i \in 1 .. N + 1 : rests[i] \in Seq(Symbol)
  BY <1>6 DEF ObjectAt
<1>9. rests[N + 1] = <<RightBrace>>
  <2>1. N + 1 \in 1 .. N + 1 /\ N + 1 > N
    BY <1>0
  <2>2. ObjectAt(rests, texts, N + 1)
    BY <1>6, <2>1
  <2> QED BY <2>1, <2>2 DEF ObjectAt, N
<1>10. \A i \in 1 .. N : rests[i] = MemberText(texts, i) \o rests[i + 1]
  <2> SUFFICES ASSUME NEW i \in 1 .. N PROVE rests[i] = MemberText(texts, i) \o rests[i + 1]
    OBVIOUS
  <2>1. i \in 1 .. N + 1 /\ i <= N
    BY <1>0
  <2>2. ObjectAt(rests, texts, i)
    BY <1>6, <2>1
  <2> QED BY <2>1, <2>2, Zenon DEF ObjectAt, N
<1>11. \A i \in 1 .. N : /\ KeyOrder[i] \in keys => Members(i) = {KeyOrder[i]} \cup Members(i + 1)
                         /\ KeyOrder[i] \notin keys => Members(i) = Members(i + 1)
  <2> SUFFICES ASSUME NEW i \in 1 .. N
               PROVE  {KeyOrder[j] : j \in i .. N} = {KeyOrder[i]} \cup {KeyOrder[j] : j \in i + 1 .. N}
    OBVIOUS
  <2>1. i .. N = {i} \cup (i + 1 .. N)
    BY <1>0
  <2> QED BY <2>1
<1>12. Members(1) = keys /\ Members(N + 1) = {}
  <2>1. N + 1 .. N = {}
    BY <1>0
  <2>2. \A k \in keys : \E j \in 1 .. N : k = KeyOrder[j]
    BY KeysAre DEF N
  <2> QED BY <2>1, <2>2
<1>13. \A i \in 1 .. N : KeyOrder[i] \notin Members(i + 1)
  <2> SUFFICES ASSUME NEW i \in 1 .. N, NEW j \in i + 1 .. N PROVE KeyOrder[i] # KeyOrder[j]
    OBVIOUS
  <2>1. j \in 1 .. N /\ i # j
    BY <1>0
  <2> QED BY <2>1, KeysAssumption DEF N
<1>14. ASSUME Unquoted(r.nodes), NEW t \in Seq(Symbol), NEW p0 \in 1 .. Len(t), Holds(t, p0, r.text),
              ReadBack(r, t, p0)
       PROVE  Kept(r.nodes, width)
  <2> DEFINE R == Reading(t)
             Whole(x, i) == x.how = "returned" /\ \A k \in Members(i) : /\ k \in DOMAIN x.value.elements
                                                                         /\ x.value.elements[k] = trees[k]
             AllKept(i) == \A k \in Members(i) : Kept(ws[k].nodes, width)
             First(p, i) == LET x == R[<<"FETCH_KEY", p>>]
                            IN  Whole(x, i) => AllKept(i) /\ (Members(i) = {} => x.value.null)
             Later(p, i) ==
               /\ p <= Len(t)
               /\ Members(i) = {} => t[p] = RightBrace
               /\ Members(i) # {} => /\ t[p] = Comma
                                     /\ Whole(R[<<"FETCH_KEY_AFTER_COMMA", p + 1>>], i) => AllKept(i)
             Claim(i) ==
               \A p \in Nat \ {0} :
                 Holds(t, p, rests[i]) =>
                   /\ Leading(keys, i) => First(p, i)
                   /\ ~Leading(keys, i) => Later(p, i)
             T == {i \in 1 .. N + 1 : Claim(i)}
             res == R[<<"FETCH_VALUE", p0>>]
             all == R[<<"FETCH_KEY", p0 + 1>>]
  <2>0. Len(t) \in Nat /\ p0 \in Nat \ {0} /\ N + 1 \in Nat
    BY <1>0
  <2>1. Holds(t, p0, open) /\ Holds(t, p0 + 1, rests[1])
    <3>1. Holds(t, p0, open \o rests[1]) /\ 1 \in 1 .. N + 1
      BY <1>0, <1>3, <1>14
    <3>2. rests[1] \in Seq(Symbol)
      BY <1>8, <3>1
    <3> QED BY <1>7, <2>0, <3>1, <3>2, HoldsConcat, ZenonT(120)
  <2>2. t[p0] = LeftBrace
    BY <2>0, <2>1, HoldsOne DEF open
  <2>3. res = Typed("OBJECT", all)
    <3>1. res = ParseValue(R, t, p0)
      <4>1. p0 \in 1 .. Len(t) + 1
        BY <2>0
      <4> QED BY <4>1, ReadingStep, Zenon DEF ReadingAt
    <3>2. At(t, p0) = LeftBrace
      BY <2>0, <2>2 DEF At
    <3>3. ParseValue(R, t, p0) = Typed("OBJECT", ParseObject(R, t, p0))
      BY <3>2, ValueCases
    <3>4. ParseObject(R, t, p0) = all
      BY <3>2 DEF ParseObject, LeftBrace
    <3> QED BY <3>1, <3>3, <3>4
  <2>4. all.how = "returned" /\ all.value = MakeObject(trees)
    <3>1. res.how = "returned" /\ res.value = <<"OBJECT", MakeObject(trees)>>
      BY <1>3, <1>14 DEF ReadBack
    <3> HIDE DEF res, all
    <3>2. all.how = "returned"
      BY <2>3, <3>1 DEF Typed
    <3>3. res.value = <<"OBJECT", all.value>>
      <4>1. res = Returns(<<"OBJECT", all.value>>, all.at)
        BY <2>3, <3>2 DEF Typed
      <4> QED BY <4>1, ReturnsIs
    <3> QED BY <3>1, <3>2, <3>3
  <2>5. all.value.elements = trees /\ ~all.value.null
    BY <2>4 DEF MakeObject
  <2>6. \A k \in keys : KeptKey(k)
    <3> SUFFICES ASSUME NEW k \in keys PROVE KeptKey(k)
      OBVIOUS
    <3>1. Plain(k)
      <4>1. p0 + 1 \in 1 .. Len(t) + 1
        BY <2>0
      <4>2. PlainKeys(all)
        BY <4>1, KeysArePlain, Zenon
      <4> QED BY <1>2, <2>4, <2>5, <4>2 DEF PlainKeys
    <3>2. ~Contains(k, Quote)
      <4>1. ~HasQuotedKey(r.tree)
        BY <1>4, <1>14 DEF Unquoted
      <4> QED BY <1>2, <1>4, <4>1 DEF HasQuotedKey
    <3>3. ~Contains(k, Backslash)
      BY <3>1 DEF Plain, Contains
    <3> QED BY <3>2, <3>3 DEF KeptKey
  <2>7. \A k \in keys : Unquoted(ws[k].nodes)
    BY <1>4, <1>14 DEF Unquoted
  <2>8. ASSUME NEW i \in 1 .. N + 1, \A j \in 1 .. N + 1 : j > i => j \in T PROVE i \in T
    <3> SUFFICES ASSUME NEW p \in Nat \ {0}, Holds(t, p, rests[i])
                 PROVE  /\ Leading(keys, i) => First(p, i)
                        /\ ~Leading(keys, i) => Later(p, i)
      BY Zenon
    <3>1. CASE i = N + 1
      <4>1. p <= Len(t) /\ t[p] = RightBrace /\ Members(i) = {}
        <5>1. rests[i] = <<RightBrace>> /\ Members(i) = {}
          BY <1>9, <1>12, <3>1
        <5>2. Holds(t, p, <<RightBrace>>)
          BY <5>1
        <5> HIDE DEF Members, T, Claim
        <5>3. p <= Len(t) /\ t[p] = RightBrace
          BY <5>2, HoldsOne
        <5> QED BY <5>1, <5>3
      <4>2. First(p, i)
        <5> DEFINE q == Past(t, p, Blank)
                   x == R[<<"FETCH_KEY", p>>]
        <5>1. q = p
          <6>1. t[p] \notin Blank /\ p \in 1 .. Len(t)
            BY <2>0, <4>1 DEF Blank, RightBrace, Space
          <6> QED BY <6>1, PastHere
        <5>2. x = MoreMembers(R, t, "FETCH_KEY", p)
          <6>1. p \in 1 .. Len(t) + 1
            BY <2>0, <4>1
          <6> QED BY <6>1, ReadingStep, Zenon DEF ReadingAt
        <5>3. At(t, q) = RightBrace /\ q <= Len(t)
          BY <4>1, <5>1 DEF At
        <5>4. MoreMembers(R, t, "FETCH_KEY", p) = Returns(Null, q)
          BY <5>3 DEF MoreMembers
        <5> HIDE DEF q, x, Members
        <5>5. x.value = Null
          BY <5>2, <5>4, ReturnsIs
        <5>6. x.value.null
          BY <5>5 DEF Null
        <5> QED BY <4>1, <5>6 DEF x
      <4> HIDE DEF First, Members
      <4> QED BY <4>1, <4>2
    <3>2. CASE i # N + 1 /\ KeyOrder[i] \notin keys
      <4>1. i \in 1 .. N /\ i + 1 \in 1 .. N + 1 /\ i + 1 > i
        BY <1>0, <3>2
      <4>2. rests[i] = rests[i + 1]
        <5>1. MemberText(texts, i) = <<>> /\ DOMAIN texts = keys
          BY <1>1, <3>2 DEF MemberText
        <5>2. rests[i + 1] \in Seq(Symbol)
          BY <1>8, <4>1
        <5>3. <<>> \o rests[i + 1] = rests[i + 1]
          BY <5>2
        <5>4. rests[i] = MemberText(texts, i) \o rests[i + 1]
          BY <1>10, <4>1
        <5> QED BY <5>1, <5>3, <5>4
      <4>3. Members(i) = Members(i + 1)
        <5> HIDE DEF Members
        <5> QED BY <1>11, <3>2, <4>1
      <4>4. Leading(keys, i) <=> Leading(keys, i + 1)
        <5>1. \A j : j \in 1 .. (i + 1) - 1 <=> j \in 1 .. i - 1 \/ j = i
          BY <4>1
        <5> QED BY <3>2, <5>1, Zenon DEF Leading
      <4>5. Claim(i + 1)
        <5> HIDE DEF Claim
        <5> QED BY <2>8, <4>1
      <4>6. /\ Leading(keys, i + 1) => First(p, i + 1)
            /\ ~Leading(keys, i + 1) => Later(p, i + 1)
        <5> HIDE DEF First, Later
        <5> QED BY <4>2, <4>5
      <4> HIDE DEF Members, T
      <4>7. First(p, i) <=> First(p, i + 1)
        BY <4>3
      <4>8. Later(p, i) <=> Later(p, i + 1)
        BY <4>3
      <4> HIDE DEF First, Later
      <4> QED BY <4>4, <4>6, <4>7, <4>8
    <3>3. CASE i # N + 1 /\ KeyOrder[i] \in keys
      <4> DEFINE k == KeyOrder[i]
                 s == Shift(keys, i)
                 m == p + s
                 w == MemberText(texts, i)
                 c == p + Len(w)
                 st == IF Leading(keys, i) THEN "FETCH_KEY" ELSE "FETCH_KEY_AFTER_COMMA"
                 next == R[<<"FETCH_KEY_AFTER_COMMA", c + 1>>]
                 x == R[<<st, m>>]
      <4>1. i \in 1 .. N /\ i + 1 \in 1 .. N + 1 /\ i + 1 > i /\ i \in Nat
        BY <1>0, <3>3
      <4>0. s \in Nat
        BY DEF Shift
      <4>2. w \in Seq(Symbol) /\ Len(w) \in Nat
        <5>1. w \in Seq(Symbol)
          BY <1>1, <4>1, MemberTextType, Zenon DEF N
        <5> QED BY <5>1, LenProperties
      <4>3. /\ ~Leading(keys, i) => p <= Len(t) /\ t[p] = Comma
            /\ Holds(t, c, rests[i + 1]) /\ MemberShown(t, p, keys, texts, i, k)
        <5>1. rests[i] = w \o rests[i + 1] /\ rests[i + 1] \in Seq(Symbol)
          BY <1>8, <1>10, <4>1
        <5> HIDE DEF w
        <5>2. Holds(t, p, w) /\ Holds(t, c, rests[i + 1])
          BY <4>2, <5>1, HoldsConcat
        <5>3. MemberShown(t, p, keys, texts, i, k)
          <6>1. k \in keys /\ i \in 1 .. Len(KeyOrder) /\ k = KeyOrder[i] /\ texts \in [keys -> Seq(Symbol)]
            BY <1>1, <3>3, <4>1 DEF N
          <6>2. Holds(t, p, MemberText(texts, i))
            BY <5>2 DEF w
          <6> HIDE DEF k, s, m, c, st, x, next, T, Claim, First, Later, Whole, Members
          <6> QED BY <6>1, <6>2, MemberHolds, Zenon
        <5>4. ~Leading(keys, i) => p <= Len(t) /\ t[p] = Comma
          BY <5>3 DEF MemberShown
        <5> QED BY <5>2, <5>3, <5>4
      <4>4. ~Leading(keys, i + 1)
        <5>1. i \in 1 .. (i + 1) - 1
          BY <4>1
        <5> QED BY <3>3, <5>1 DEF Leading
      <4>5. c \in Nat \ {0} /\ Later(c, i + 1)
        <5>1. c \in Nat \ {0}
          BY <4>2
        <5>2. Claim(i + 1)
          <6> HIDE DEF Claim
          <6> QED BY <2>8, <4>1
        <5> HIDE DEF Later, First
        <5> QED BY <4>3, <4>4, <5>1, <5>2
      <4>6. c \in 1 .. Len(t)
        <5>1. c <= Len(t)
          BY <4>5
        <5> HIDE DEF c
        <5> QED BY <2>0, <4>5, <5>1
      <4>7. /\ t[c] \in {Comma, RightBrace} /\ (Members(i + 1) # {} => t[c] = Comma)
            /\ Whole(next, i + 1) => AllKept(i + 1)
        <5>1. Members(i + 1) = {} => AllKept(i + 1)
          OBVIOUS
        <5> HIDE DEF Members, AllKept, Whole, c
        <5> QED BY <4>5, <5>1
      <4>8. MemberAt(t, m, k, ws[k], c)
        <5>1. k \in keys /\ texts[k] = ws[k].text /\ k \in Seq(Symbol) /\ Len(k) \in Nat /\ Len(texts[k]) \in Nat
          <6>1. k \in keys /\ texts[k] = ws[k].text /\ k \in Seq(Symbol) /\ texts[k] \in Seq(Symbol)
            BY <1>1, <3>3, <4>1, KeysAre DEF N
          <6> QED BY <6>1, LenProperties
        <5>2. /\ p + s + Len(k) + 2 <= Len(t)
              /\ t[p + s] = Quote /\ Holds(t, p + s + 1, k) /\ t[p + s + Len(k) + 1] = Quote
              /\ t[p + s + Len(k) + 2] = ":"
              /\ Holds(t, p + s + Len(k) + 3, texts[k])
              /\ Len(w) = s + Len(k) + 3 + Len(texts[k])
          BY <4>3 DEF MemberShown
        <5> HIDE DEF s, k, w
        <5>3. c = m + Len(k) + 3 + Len(texts[k]) /\ m \in 1 .. Len(t)
          <6> DEFINE a == Len(k)
                     b == Len(texts[k])
                     d == Len(w)
          <6>1. a \in Nat /\ b \in Nat /\ p + s + a + 2 <= Len(t) /\ d = s + a + 3 + b
            BY <5>1, <5>2
          <6> HIDE DEF a, b, d
          <6>2. p + d = (p + s) + a + 3 + b /\ p + s \in 1 .. Len(t)
            BY <2>0, <4>0, <6>1
          <6> QED BY <6>2 DEF a, b, d
        <5>4. t[c] \in {Comma, RightBrace}
          BY <4>7
        <5> HIDE DEF c
        <5> QED BY <5>1, <5>2, <5>3, <5>4 DEF MemberAt
      <4>9. Members(i) = {k} \cup Members(i + 1) /\ k \in Members(i) /\ k \notin Members(i + 1)
        <5>1. Members(i) = {k} \cup Members(i + 1)
          BY <1>11, <3>3, <4>1
        <5>2. k \notin Members(i + 1)
          BY <1>13, <4>1
        <5> HIDE DEF Members
        <5> QED BY <5>1, <5>2
      <4>10. ASSUME Whole(x, i) PROVE AllKept(i)
        <5>1. x.how = "returned" /\ x.value.elements[k] = ws[k].tree
          <6>1. k \in keys
            BY <3>3
          <6> HIDE DEF Members, k, x
          <6> QED BY <1>2, <4>9, <4>10, <6>1
        <5>2. MemberBack(R, t, st, m, k, ws[k], width, c)
          <6>1. k \in keys /\ k \in Seq(Symbol) /\ KeptKey(k) /\ Unquoted(ws[k].nodes)
                /\ Shows(ws[k], width) /\ Faithful(ws[k], width)
            BY <1>5, <2>6, <2>7, <3>3, <4>1, KeysAre DEF N
          <6>2. st \in {"FETCH_KEY", "FETCH_KEY_AFTER_COMMA"}
            OBVIOUS
          <6> DEFINE q == ws[k]
          <6>3. MemberAt(t, m, k, q, c) /\ Shows(q, width) /\ Faithful(q, width) /\ Unquoted(q.nodes)
            BY <4>8, <6>1
          <6>4. R[<<st, m>>].how = "returned" /\ R[<<st, m>>].value.elements[k] = q.tree
            BY <5>1
          <6> HIDE DEF k, m, c, st, q, x, T, Claim, Later, First, Members, Whole, AllKept, next, w, s, res, all
          <6>5. MemberBack(Reading(t), t, st, m, k, q, width, c)
            BY <4>6, <6>1, <6>2, <6>3, <6>4, MemberIsFaithful, Zenon
          <6> QED BY <6>5 DEF q
        <5>3. Kept(ws[k].nodes, width)
          BY <5>2 DEF MemberBack
        <5>4. t[c] = Comma => next.how = "returned" /\ x.value = PutBefore(k, ws[k].tree, next.value)
          BY <5>2 DEF MemberBack
        <5>5. CASE Members(i + 1) = {}
          <6> HIDE DEF Members, k
          <6>1. \A y \in Members(i) : y = k
            BY <4>9, <5>5
          <6> QED BY <5>3, <6>1
        <5>6. CASE Members(i + 1) # {}
          <6>1. next.how = "returned" /\ x.value = PutBefore(k, ws[k].tree, next.value)
            BY <4>7, <5>4, <5>6
          <6> HIDE DEF k, next, x, Members
          <6>2. \A y : y # k /\ y \in DOMAIN x.value.elements =>
                        y \in DOMAIN next.value.elements /\ x.value.elements[y] = next.value.elements[y]
            BY <6>1 DEF PutBefore, MakeObject
          <6>3. Whole(next, i + 1)
            <7> SUFFICES ASSUME NEW y \in Members(i + 1)
                         PROVE  y \in DOMAIN next.value.elements /\ next.value.elements[y] = trees[y]
              BY <6>1
            <7>1. y # k /\ y \in Members(i)
              BY <4>9
            <7>2. y \in DOMAIN x.value.elements /\ x.value.elements[y] = trees[y]
              BY <4>10, <7>1
            <7> QED BY <6>2, <7>1, <7>2
          <6>4. AllKept(i + 1)
            <7> HIDE DEF Whole, AllKept
            <7> QED BY <4>7, <6>3
          <6> QED BY <4>9, <5>3, <6>4
        <5> QED BY <5>5, <5>6
      <4> HIDE DEF AllKept, Whole
      <4>11. Members(i) # {}
        <5> HIDE DEF Members
        <5> QED BY <4>9
      <4>12. CASE Leading(keys, i)
        <5>1. m = p /\ st = "FETCH_KEY"
          BY <4>12 DEF Shift
        <5> HIDE DEF Members
        <5> QED BY <4>10, <4>11, <4>12, <5>1
      <4>13. CASE ~Leading(keys, i)
        <5>1. m = p + 1 /\ st = "FETCH_KEY_AFTER_COMMA"
          BY <4>13 DEF Shift
        <5> HIDE DEF Members
        <5> QED BY <4>3, <4>10, <4>11, <4>13, <5>1, Zenon
      <4> QED BY <4>12, <4>13
    <3> QED BY <3>1, <3>2, <3>3, Zenon
  <2>9. First(p0 + 1, 1)
    <3>1. 1 \in 1 .. N + 1
      BY <1>0
    <3>2. \A i \in 1 .. N + 1 : i \in T
      <4> HIDE DEF T
      <4> QED BY <2>0, <2>8, Downward, Zenon
    <3>3. Leading(keys, 1)
      BY DEF Leading
    <3>4. p0 + 1 \in Nat \ {0}
      BY <2>0
    <3>5. Claim(1)
      BY <3>1, <3>2, Zenon
    <3> HIDE DEF First, Later
    <3> QED BY <2>1, <3>3, <3>4, <3>5
  <2>10. Whole(all, 1)
    <3> HIDE DEF all, Members
    <3> QED BY <1>2, <1>12, <2>4, <2>5
  <2>11. AllKept(1) /\ Members(1) # {}
    <3> HIDE DEF Whole, AllKept, Members
    <3> QED BY <2>5, <2>9, <2>10
  <2>12. keys # {} /\ \A k \in keys : Kept(ws[k].nodes, width)
    <3> HIDE DEF Members
    <3> QED BY <1>12, <2>11
  <2>13. KeptNode(r.tree, width)
    BY <1>2, <1>4, <2>6, <2>12 DEF KeptNode
  <2> QED BY <1>3, <2>12, <2>13, Zenon DEF Kept
<1>15. Type(r.tree) \notin Numbers
  BY <1>4 DEF Numbers
<1> QED BY <1>14, <1>15 DEF Faithful, GivenBack, ReadBack, r

-----------------------------------------------------------------------------
(* Nor in all that is written.                                             *)

\* Whatever is written is read back only if it is kept.
LEMMA AllFaithful ==
  ASSUME TypeOK, NEW width \in {1, 2}
  PROVE  \A r \in AllWritten(width) : Faithful(r, width)
<1> DEFINE T == {r \in AllWritten(width) : Faithful(r, width)}
<1>0. \A r \in AllWritten(width) : Shows(r, width)
  BY AllShow
<1>1. \A e \in Scalars : WrittenScalar(e, width) \in AllWritten(width) => WrittenScalar(e, width) \in T
  BY ScalarIsFaithful
<1>2. WrittenNull \in AllWritten(width) => WrittenNull \in T
  BY NullIsFaithful
<1>3. \A w \in T : Shows(w, width) /\ Faithful(w, width)
  BY <1>0
<1> HIDE DEF T
<1>4. \A ws \in Seq(T) : Faithful(WrittenArray(ws), width)
  <2> SUFFICES ASSUME NEW ws \in Seq(T) PROVE Faithful(WrittenArray(ws), width)
    OBVIOUS
  <2>1. \A i \in 1 .. Len(ws) : Shows(ws[i], width) /\ Faithful(ws[i], width)
    BY <1>3
  <2> QED BY <2>1, ArrayIsFaithful
<1>5. \A keys \in SUBSET Key : \A ws \in [keys -> T] : Faithful(WrittenObject(ws), width)
  <2> SUFFICES ASSUME NEW keys \in SUBSET Key, NEW ws \in [keys -> T] PROVE Faithful(WrittenObject(ws), width)
    OBVIOUS
  <2>1. DOMAIN ws = keys /\ \A k \in keys : Shows(ws[k], width) /\ Faithful(ws[k], width)
    BY <1>3
  <2> QED BY <2>1, ObjectIsFaithful
<1>6. AllWritten(width) \subseteq T
  <2>1. \A ws \in Seq(T) : WrittenArray(ws) \in AllWritten(width) => WrittenArray(ws) \in T
    BY <1>4 DEF T
  <2>2. \A keys \in SUBSET Key : \A ws \in [keys -> T] :
           WrittenObject(ws) \in AllWritten(width) => WrittenObject(ws) \in T
    BY <1>5 DEF T
  <2> QED BY <1>1, <1>2, <2>1, <2>2, WrittenInduction, Zenon
<1> QED BY <1>3, <1>6

\* A text of ToString is read as what was written only if that is kept.
LEMMA WholeIsKept ==
  ASSUME NEW r, NEW width \in {1, 2}, Shows(r, width), Faithful(r, width), Unquoted(r.nodes),
         NEW tree, r.tree = <<"OBJECT", tree>>,
         Parsed(r.text).how = "returned", Parsed(r.text).value = tree
  PROVE  Kept(r.nodes, width)
<1> DEFINE t == r.text
           R == Reading(t)
           res == R[<<"FETCH_VALUE", 1>>]
           all == ParseObject(R, t, 1)
<1>0. Type(r.tree) = "OBJECT"
  BY DEF Type
<1>1. t \in Seq(Symbol) /\ Len(t) > 0 /\ t[1] \in {LeftBrace, "null"} /\ Len(t) \in Nat
  <2>1. t \in Seq(Symbol) /\ Len(t) > 0
    BY DEF Shows, Synced
  <2>2. t[1] \in {LeftBrace, "null"}
    BY <1>0 DEF Shows, Begins
  <2> HIDE DEF t
  <2> QED BY <2>1, <2>2, LenProperties
<1>2. Holds(t, 1, t)
  <2> HIDE DEF t
  <2>1. 1 + Len(t) - 1 <= Len(t)
    BY <1>1
  <2>2. \A i \in 1 .. Len(t) : 1 + i - 1 = i
    BY <1>1
  <2> QED BY <2>1, <2>2 DEF Holds
<1>3. 1 \in 1 .. Len(t) /\ 1 \in 1 .. Len(t) + 1
  BY <1>1
<1>4. res = Typed("OBJECT", all)
  <2>1. res = ParseValue(R, t, 1)
    BY <1>1, <1>3, ReadingStep, Zenon DEF ReadingAt
  <2>2. At(t, 1) \in {LeftBrace, "null"}
    BY <1>1 DEF At
  <2> QED BY <2>1, <2>2, ValueCases
<1>5. all.how = "returned" /\ all.value = tree
  BY DEF Parsed
<1>6. GivenBack(r, width, t, 1)
  BY <1>1, <1>3 DEF Faithful
<1> HIDE DEF all, R
<1>7. res.how = "returned" /\ res.value = r.tree
  <2>1. res = Returns(<<"OBJECT", all.value>>, all.at)
    BY <1>4, <1>5 DEF Typed
  <2> QED BY <1>5, <2>1, ReturnsIs
<1> QED BY <1>0, <1>2, <1>6, <1>7 DEF GivenBack, R

-----------------------------------------------------------------------------
(* The document on its way.                                                *)

\* The document on its way, as it was written.
IsDocument(r) ==
  /\ Shows(r, document.width) /\ Faithful(r, document.width) /\ document.width \in {1, 2}
  /\ r.tree = <<"OBJECT", document.tree>> /\ r.nodes = document.nodes /\ r.text = text

\* What the reader asked for and was given.
Asked(k) ==
  /\ k \in DOMAIN document.tree.elements /\ result.how = "returned"
  /\ got = <<k, GetAs(result.value, k, Type(document.tree.elements[k]))>>

\* What is on its way is a text of ToString, and what was read is what Parser makes of it.
WayIsKnown ==
  /\ phase \in {"written", "readWhole", "asked"} => \E r : IsDocument(r)
  /\ phase \in {"readWhole", "asked"} => result = Parsed(text)
  /\ phase = "asked" => \E k : Asked(k)

\* What is written is read as far as nothing in it misleads the parser.
LEMMA DocumentIsRead ==
  ASSUME NEW r, IsDocument(r), result = Parsed(text), Leads(document.nodes, document.width)
  PROVE  /\ result.how = "returned"
         /\ DOMAIN result.value.elements = DOMAIN document.tree.elements
         /\ \A k \in DOMAIN document.tree.elements :
              Alike(result.value.elements[k], document.tree.elements[k])
         /\ DocumentIsKept => AsWritten
<1> DEFINE w == document.width
           v == <<"OBJECT", result.value>>
<1>1. Shows(r, w) /\ r.tree = <<"OBJECT", document.tree>> /\ r.nodes = document.nodes /\ r.text = text
  BY DEF IsDocument
<1>2. Type(r.tree) = "OBJECT" /\ Value(r.tree) = document.tree /\ Value(v) = result.value
  BY <1>1 DEF Type, Value
<1>3. result.how = "returned" /\ Found(v, r, w)
  BY <1>1, <1>2, WholeIsRead
<1> HIDE DEF v
<1>4. /\ DOMAIN Value(v).elements = DOMAIN Value(r.tree).elements
      /\ \A k \in DOMAIN Value(r.tree).elements : Alike(Value(v).elements[k], Value(r.tree).elements[k])
      /\ Kept(r.nodes, w) => v = r.tree
  BY <1>2, <1>3 DEF Found
<1>5. DocumentIsKept => result.value = document.tree
  <2>1. v = r.tree => Value(v) = Value(r.tree)
    OBVIOUS
  <2> QED BY <1>1, <1>2, <1>4, <2>1 DEF DocumentIsKept
<1> QED BY <1>2, <1>3, <1>4, <1>5 DEF AsWritten

\* A document that is kept is read as it was written.
LEMMA KeptIsAsWritten ==
  ASSUME NEW r, IsDocument(r), result = Parsed(text), DocumentIsKept
  PROVE  AsWritten
<1>1. Leads(document.nodes, document.width)
  BY KeptLeads DEF IsDocument, Shows, DocumentIsKept
<1> QED BY <1>1, DocumentIsRead

\* A document that is read as it was written is kept.
LEMMA AsWrittenIsKept ==
  ASSUME NEW r, IsDocument(r), result = Parsed(text), AsWritten
  PROVE  DocumentIsKept \/ \E e \in document.nodes : HasQuotedKey(e)
<1> SUFFICES ASSUME Unquoted(document.nodes) PROVE DocumentIsKept
  BY DEF Unquoted
<1> DEFINE w == document.width
           tree == document.tree
<1>1. /\ Shows(r, w) /\ Faithful(r, w) /\ w \in {1, 2} /\ r.tree = <<"OBJECT", tree>>
      /\ r.nodes = document.nodes /\ r.text = text
  BY DEF IsDocument
<1>2. Parsed(r.text).how = "returned" /\ Parsed(r.text).value = tree /\ Unquoted(r.nodes)
  BY <1>1 DEF AsWritten
<1> HIDE DEF w, tree
<1>3. Kept(r.nodes, w)
  BY <1>1, <1>2, WholeIsKept
<1> QED BY <1>1, <1>3 DEF DocumentIsKept, w

\* What a getter gives is what was put, if nothing misled the parser and the
\* double was shown with a point.
LEMMA AskedIsRead ==
  ASSUME WayIsKnown
  PROVE  NumbersAreRead
<1> SUFFICES ASSUME phase = "asked", got[2] = <<"indeterminate">>, Leads(document.nodes, document.width)
             PROVE  LET e == document.tree.elements[got[1]]
                    IN  Type(e) = "DOUBLE" /\ DoubleText[Value(e)] \notin Dotted
  BY DEF NumbersAreRead, Leads
<1>1. PICK r : IsDocument(r)
  BY DEF WayIsKnown
<1>2. PICK k : Asked(k)
  BY DEF WayIsKnown
<1> DEFINE e == document.tree.elements[k]
           v == result.value.elements[k]
           type == Type(e)
<1>3. /\ k \in DOMAIN document.tree.elements
      /\ got[1] = k /\ got[2] = GetAs(result.value, k, type)
  BY <1>2 DEF Asked
<1>4. result = Parsed(text)
  BY DEF WayIsKnown
<1>5. k \in DOMAIN result.value.elements /\ Alike(v, e)
  BY <1>1, <1>3, <1>4, DocumentIsRead
<1>6. type # "indeterminate"
  <2>1. HasTypes(r.tree) /\ Type(r.tree) = "OBJECT" /\ Value(r.tree) = document.tree
    BY <1>1 DEF IsDocument, Shows, Type, Value
  <2>2. type \in Types
    BY <1>3, <2>1 DEF HasTypes
  <2> QED BY <2>2 DEF Types
<1>7. Type(v) # type
  <2> SUFFICES ASSUME Type(v) = type PROVE FALSE
    OBVIOUS
  <2>1. GetAs(result.value, k, type) = v
    BY <1>5 DEF GetAs
  <2>2. v = <<"indeterminate">>
    BY <1>3, <2>1
  <2>3. Type(v) = "indeterminate"
    BY <2>2 DEF Type
  <2> QED BY <1>6, <2>3
<1> QED BY <1>3, <1>5, <1>7 DEF Alike

\* The phases of a document.
PhaseType == phase \in {"building", "overflowed", "written", "cut", "formatted",
                        "readWhole", "readCut", "readFormatted", "asked"}

\* The invariant of a document on its way.
DocumentInv == TypeOK /\ PhaseType /\ WayIsKnown

\* It holds before there is a document.
LEMMA InitIsKnown == Init => DocumentInv
<1> SUFFICES ASSUME Init PROVE DocumentInv
  OBVIOUS
<1>1. TypeOK
  BY NothingType DEF Init, BuildInit, TypeOK
<1> QED BY <1>1 DEF Init, DocumentInv, PhaseType, WayIsKnown

\* It holds of what ToString writes.
LEMMA WriteIsKnown ==
  ASSUME DocumentInv, NEW x \in Object, NEW width \in Widths, Write(x, width)
  PROVE  DocumentInv'
<1> DEFINE r == Written(width)[Cardinality(Reference)][<<"OBJECT", x>>]
<1>1. r \in AllWritten(width)
  <2>1. Cardinality(Reference) \in 0 .. Cardinality(Reference)
    BY ReferencesAreFinite
  <2>2. <<"OBJECT", x>> \in Scalars \cup Reference
    BY DEF Reference
  <2> QED BY <2>1, <2>2 DEF AllWritten
<1>2. width \in {1, 2}
  BY WidthsAssumption
<1>3. Shows(r, width) /\ Faithful(r, width)
  BY <1>1, <1>2, AllShow, AllFaithful DEF DocumentInv
<1>4. r.tree = <<"OBJECT", Value(r.tree)>>
  <2> DEFINE n == Cardinality(Reference)
             e == <<"OBJECT", x>>
             below == Written(width)[n - 1]
  <2>1. n \in 0 .. Cardinality(Reference) /\ e \in Scalars \cup Reference /\ e \notin Scalars
    <3>1. Type(e) = "OBJECT"
      BY DEF Type
    <3>2. \A s \in Scalars : Type(s) \in {"STRING", "BOOLEAN", "INTEGER", "DOUBLE"}
      BY <1>2, ScalarShows
    <3>3. e \notin Scalars
      <4> HIDE DEF e
      <4> QED BY <3>1, <3>2
    <3> QED BY <3>3, ReferencesAreFinite DEF Reference
  <2>2. r = WrittenNull \/ r = WrittenNode(e, below)
    <3>1. WrittenAt(Written(width), width, n)
      BY <2>1, WrittenStep
    <3> HIDE DEF e
    <3> QED BY <2>1, <3>1 DEF WrittenAt, e
  <2>3. CASE r = WrittenNull
    <3>1. r.tree = <<"OBJECT", Null>>
      BY <2>3 DEF WrittenNull
    <3> QED BY <3>1 DEF Value
  <2>4. CASE r = WrittenNode(e, below)
    <3> DEFINE m == elements[map[x]]
               ws == [k \in DOMAIN m |-> below[m[k]]]
    <3>1. r = IF null[x] THEN WrittenNull ELSE WrittenObject(ws)
      BY <2>4 DEF WrittenNode, Type, Value
    <3>2. WrittenNull.tree = <<"OBJECT", Null>>
      BY DEF WrittenNull
    <3> HIDE DEF ws
    <3>3. \E v : WrittenObject(ws).tree = <<"OBJECT", v>>
      BY DEF WrittenObject
    <3>4. \E v : r.tree = <<"OBJECT", v>>
      <4> HIDE DEF r
      <4> QED BY <3>1, <3>2, <3>3
    <3> HIDE DEF r
    <3> QED BY <3>4 DEF Value
  <2> QED BY <2>2, <2>3, <2>4
<1>5. /\ phase' = "written" /\ text' = r.text
      /\ document'.tree = Value(r.tree) /\ document'.nodes = r.nodes /\ document'.width = width
  BY DEF Write
<1>6. TypeOK'
  BY NothingType DEF Write, Forget, TypeOK
<1> HIDE DEF r
<1>9. PICK q : q = r
  OBVIOUS
<1>10. Shows(q, width) /\ Faithful(q, width) /\ q.tree = <<"OBJECT", Value(q.tree)>>
  BY <1>3, <1>4, <1>9
<1>11. /\ document'.tree = Value(q.tree) /\ document'.nodes = q.nodes /\ document'.width = width
       /\ text' = q.text
  BY <1>5, <1>9
<1>7. IsDocument(q)'
  BY <1>2, <1>10, <1>11 DEF IsDocument
<1>8. WayIsKnown' /\ PhaseType'
  BY <1>5, <1>7 DEF WayIsKnown, PhaseType
<1> QED BY <1>6, <1>8 DEF DocumentInv

\* No call breaks the types.
LEMMA CallKeepsTypes ==
  ASSUME IInv, Build
  PROVE  TypeOK'
<1>1. IInv'
  BY PutValueStep, DeleteStep, SetNullStep, CopyStep, PutItemStep DEF Build
<1> QED BY <1>1 DEF IInv

\* Every step keeps it.
LEMMA StepIsKnown ==
  ASSUME IInv, DocumentInv, [Next]_vars
  PROVE  DocumentInv'
<1> USE DEF DocumentInv
<1>1. CASE UNCHANGED vars
  BY <1>1 DEF vars, building, TypeOK, PhaseType, WayIsKnown, IsDocument, Asked
<1>2. CASE Call
  <2>1. TypeOK'
    BY <1>2, CallKeepsTypes DEF Call
  <2>2. phase' = "building"
    BY <1>2 DEF Call
  <2> QED BY <2>1, <2>2 DEF PhaseType, WayIsKnown
<1>3. CASE \E x \in Object : Overflow(x)
  <2>1. TypeOK' /\ phase' = "overflowed"
    BY <1>3 DEF Overflow, building, TypeOK
  <2> QED BY <2>1 DEF PhaseType, WayIsKnown
<1>4. CASE \E x \in Object, width \in Widths : Write(x, width)
  BY <1>4, WriteIsKnown
<1>5. CASE \E n \in 0 .. Len(text) : Cut(n)
  <2>1. TypeOK' /\ phase' = "cut"
    BY <1>5 DEF Cut, building, TypeOK
  <2> QED BY <2>1 DEF PhaseType, WayIsKnown
<1>6. CASE \E i \in 0 .. Len(text), blank \in ArrayBlank : Format(i, blank)
  <2>1. TypeOK' /\ phase' = "formatted"
    BY <1>6 DEF Format, building, TypeOK
  <2> QED BY <2>1 DEF PhaseType, WayIsKnown
<1>7. CASE Read
  <2>1. TypeOK' /\ phase' \in {"readWhole", "readCut", "readFormatted"} /\ (phase' = "readWhole" => phase = "written")
    BY <1>7 DEF Read, building, TypeOK
  <2>2. phase' = "readWhole" => result' = Parsed(text') /\ text' = text /\ document' = document
    BY <1>7 DEF Read
  <2>3. phase' = "readWhole" => \E r : IsDocument(r)'
    <3> SUFFICES ASSUME phase' = "readWhole" PROVE \E r : IsDocument(r)'
      OBVIOUS
    <3>1. PICK r : IsDocument(r)
      BY <2>1 DEF WayIsKnown
    <3>2. IsDocument(r)'
      BY <2>2, <3>1 DEF IsDocument
    <3> QED BY <3>2
  <2> QED BY <2>1, <2>2, <2>3 DEF PhaseType, WayIsKnown
<1>8. CASE \E k \in Key : Get(k)
  <2>1. PICK k \in Key : Get(k)
    BY <1>8
  <2>2. TypeOK' /\ phase' = "asked" /\ phase = "readWhole" /\ text' = text /\ document' = document /\ result' = result
    BY <2>1 DEF Get, building, TypeOK
  <2>3. Asked(k)'
    BY <2>1, <2>2 DEF Get, Asked
  <2>4. PICK r : IsDocument(r)
    BY <2>2 DEF WayIsKnown
  <2>5. IsDocument(r)'
    BY <2>2, <2>4 DEF IsDocument
  <2>6. result' = Parsed(text')
    BY <2>2 DEF WayIsKnown
  <2> QED BY <2>2, <2>3, <2>5, <2>6 DEF PhaseType, WayIsKnown
<1> QED BY <1>1, <1>2, <1>3, <1>4, <1>5, <1>6, <1>7, <1>8 DEF Next

\* Every step of a document keeps what is known of objects and arrays.
LEMMA BuildingStep ==
  ASSUME IInv, [Next]_vars
  PROVE  IInv'
<1>1. CASE UNCHANGED building
  BY <1>1 DEF building, IInv, TypeOK, SharingIsKnown, NullIsEmpty
<1>2. CASE Forget
  BY <1>2, NothingType DEF Forget, IInv, TypeOK, SharingIsKnown, NullIsEmpty
<1>3. CASE Build
  BY <1>3, PutValueStep, DeleteStep, SetNullStep, CopyStep, PutItemStep DEF Build
<1> QED BY <1>1, <1>2, <1>3, Zenon DEF Next, vars, Call, Overflow, Write, Cut, Format, Read, Get

\* The invariants of objects and arrays and of the document hold for any number of them,
\* any keys, values and letters, and both widths of replace_.
THEOREM DocumentInvariance == Spec => [](IInv /\ DocumentInv)
<1>1. Init => IInv /\ DocumentInv
  <2>1. Init => IInv
    BY NothingType DEF Init, BuildInit, IInv, TypeOK, SharingIsKnown, NullIsEmpty
  <2> QED BY <2>1, InitIsKnown
<1>2. (IInv /\ DocumentInv) /\ [Next]_vars => (IInv /\ DocumentInv)'
  BY StepIsKnown, BuildingStep
<1> QED BY <1>1, <1>2, PTL DEF Spec

\* A getter gives bytes of another type only for a double that was shown without a point,
\* or in documents whose text misleads the parser.
THEOREM NumbersComeBack == Spec => []NumbersAreRead
<1>1. DocumentInv => NumbersAreRead
  BY AskedIsRead DEF DocumentInv
<1> QED BY <1>1, DocumentInvariance, PTL

\* A document that is kept is read back as it was written, whatever objects and arrays it
\* is built of.
THEOREM WhatIsKeptComesBack == Spec => []KeptComesBack
<1>1. DocumentInv => KeptComesBack
  BY KeptIsAsWritten DEF DocumentInv, WayIsKnown, KeptComesBack
<1> QED BY <1>1, DocumentInvariance, PTL

\* What Parser makes of a text of ToString is what was written for the kept documents, and
\* for no others that have no quote in a key.
THEOREM ExactlyWhatIsKeptComesBack == Spec => []RoundTrip
<1>1. DocumentInv => RoundTrip
  <2> SUFFICES ASSUME DocumentInv, phase = "readWhole"
               PROVE  /\ DocumentIsKept => AsWritten
                      /\ AsWritten => DocumentIsKept \/ \E e \in document.nodes : HasQuotedKey(e)
    BY DEF RoundTrip, KeptComesBack, OnlyKeptComesBack
  <2>1. result = Parsed(text) /\ \E r : IsDocument(r)
    BY DEF DocumentInv, WayIsKnown
  <2> QED BY <2>1, KeptIsAsWritten, AsWrittenIsKept
<1> QED BY <1>1, DocumentInvariance, PTL

\* An object that says it is null holds nothing unless it was copied, also in a program
\* that goes on to write it.
THEOREM DocumentNullIsEmpty == Spec => []NullIsEmpty
<1>1. IInv => NullIsEmpty
  BY DEF IInv
<1> QED BY <1>1, DocumentInvariance, PTL
=============================================================================
