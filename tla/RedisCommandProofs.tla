------------------------- MODULE RedisCommandProofs -------------------------
(***************************************************************************)
(* Proofs about RedisCommand, for every set of keys and values and any     *)
(* number of commands: what they return, whatever other clients and a lost *)
(* connection do to them.                                                  *)
(***************************************************************************)
EXTENDS RedisCommand, FiniteSetTheorems, TLAPS

\* A reply is what the server answers, of the store it had, to what it need not
\* refuse.
ReplyIsTrue ==
  /\ fate = "done" => ~MustRefuse(before, call) /\ reply \in Replies(before, call)
  /\ fate = "refused" => reply = Answer("error", 0, <<>>)

\* Until another client changes it, the store is as the command has left it.
StoreIsLeft ==
  others = seen =>
    /\ fate = "done" => store \in Effects(before, call)
    /\ fate = "refused" => store = before

IInv ==
  /\ TypeOK /\ ReplyIsTrue /\ StoreIsLeft
  /\ TestTellsTruth /\ ListTellsTruth /\ EndsForAReason /\ WriteIsAllOrNothing
-----------------------------------------------------------------------------
(* What the server does with its store. *)

\* A request has up to two keys, as the command takes them, and with each the
\* value it is about.
LEMMA RequestShape ==
  ASSUME NEW c \in Requests
  PROVE  /\ c.method \in Methods
         /\ Len(c.keys) \in {0, 1, 2} /\ c.keys \in Seq(Key)
         /\ c.method \notin Manies => Len(c.keys) = 1
         /\ c.method \in Writes \cup {"LREM"} =>
              Len(c.values) = Len(c.keys) /\ c.values \in Seq(Value)
         /\ c.method # "EXPIRE" => c.time = "none"
<1>1. ASSUME NEW S, NEW x \in OneOrTwo(S) PROVE x \in Seq(S) /\ Len(x) \in {0, 1, 2}
  <2>1. CASE x \in {<<y>> : y \in S}
    <3>1. PICK y \in S : x = <<y>>
      BY <2>1
    <3>. QED
      BY <3>1
  <2>2. CASE x \in S \X S
    <3>1. PICK y \in S, z \in S : x = <<y, z>>
      BY <2>2
    <3>. QED
      BY <3>1
  <2>. QED
    BY <2>1, <2>2 DEF OneOrTwo
<1>2. ASSUME NEW S, NEW x \in UpToTwo(S) PROVE x \in Seq(S) /\ Len(x) \in {0, 1, 2}
  <2>1. CASE x = <<>>
    BY <2>1
  <2>2. CASE x \in OneOrTwo(S)
    BY <1>1, <2>2
  <2>. QED
    BY <1>2, <2>1, <2>2 DEF UpToTwo
<1>. QED
  BY <1>2 DEF Requests

\* What need not be refused has a key.
LEMMA FirstKey ==
  ASSUME NEW c \in Requests, c.method \notin Manies \/ c.keys # <<>>
  PROVE  c.keys[1] \in Key /\ 1 \in 1 .. Len(c.keys)
<1>1. Len(c.keys) \in {0, 1, 2} /\ c.keys \in Seq(Key)
  BY RequestShape
<1>2. Len(c.keys) # 0
  <2>1. CASE c.method \notin Manies
    BY <2>1, RequestShape
  <2>2. CASE c.keys # <<>>
    BY <1>1, <2>2
  <2>. QED
    BY <2>1, <2>2
<1>. QED
  BY <1>1, <1>2

\* The places of a value in a list are finitely many, and one of them alone is
\* there exactly if their number is one.
LEMMA PlacesCounted ==
  ASSUME NEW list \in Seq(Value), NEW v
  PROVE  /\ Places(list, v) \subseteq 1 .. Len(list)
         /\ Cardinality(Places(list, v)) \in Nat
         /\ Cardinality(Places(list, v)) = 1 <=> \E i \in Places(list, v) : Places(list, v) = {i}
<1>1. Places(list, v) \subseteq 1 .. Len(list)
  BY DEF Places
<1>2. IsFiniteSet(1 .. Len(list))
  BY FS_Interval
<1>3. IsFiniteSet(Places(list, v))
  BY <1>1, <1>2, FS_Subset
<1>4. \A i : Places(list, v) = {i} => i \in Places(list, v)
  OBVIOUS
<1>. QED
  BY <1>1, <1>3, <1>4, FS_CardinalityType, FS_Singleton

\* What is left of a list are values of it.
LEMMA WithoutType ==
  ASSUME NEW list \in Seq(Value), NEW v, NEW rest \in Without(list, v)
  PROVE  rest \in Seq(Value)
<1> DEFINE kept == (1 .. Len(list)) \ Places(list, v)
           n == Cardinality(kept)
<1>1. PICK p \in [1 .. n -> kept] : rest = [i \in 1 .. n |-> list[p[i]]]
  BY DEF Without
<1>2. IsFiniteSet(1 .. Len(list)) /\ kept \subseteq 1 .. Len(list)
  BY FS_Interval
<1>3. n \in Nat
  BY <1>2, FS_Subset, FS_CardinalityType
<1>. HIDE DEF n
<1>4. \A i \in 1 .. n : p[i] \in 1 .. Len(list)
  BY <1>1, <1>2
<1>. QED
  BY <1>1, <1>3, <1>4

\* The order of an answer is one of values of the list.
LEMMA OrderType ==
  ASSUME NEW list \in Seq(Value), NEW method, NEW order \in Orders(method, list)
  PROVE  order \in Seq(Value) /\ Len(order) = Len(list)
<1>1. CASE method # "SORT"
  BY <1>1 DEF Orders
<1>2. CASE method = "SORT"
  <2>1. PICK p \in [1 .. Len(list) -> 1 .. Len(list)] :
          order = [i \in 1 .. Len(list) |-> list[p[i]]]
    BY <1>2 DEF Orders
  <2>2. \A i \in 1 .. Len(list) : list[p[i]] \in Value
    OBVIOUS
  <2>. QED
    BY <2>1, <2>2
<1>. QED
  BY <1>1, <1>2

\* One entry may be written over.
LEMMA EntryWritten ==
  ASSUME NEW s, StoreType(s), NEW k \in Key, NEW e \in Entries,
         e.values = <<>> <=> e.type = "none"
  PROVE  StoreType([s EXCEPT ![k] = e])
BY DEF StoreType

\* Each key that is given has a last value.
LEMMA AssignedType ==
  ASSUME NEW c \in Requests, c.method \in Sets \cup {"MSET", "HMSET"},
         NEW j \in Key, NEW i \in 1 .. Len(c.keys), c.keys[i] = j
  PROVE  /\ Assigned(c, j) \in Entries
         /\ Assigned(c, j).values # <<>> /\ Assigned(c, j).type # "none"
<1> DEFINE Last(n) == c.keys[n] = j /\ \A l \in n + 1 .. Len(c.keys) : c.keys[l] # j
           last == CHOOSE n \in 1 .. Len(c.keys) : Last(n)
<1>1. \E n \in 1 .. Len(c.keys) : Last(n)
  <2>1. Len(c.keys) \in {0, 1, 2}
    BY RequestShape
  <2>. QED
    BY <2>1
<1>2. last \in 1 .. Len(c.keys)
  BY <1>1
<1>. HIDE DEF last
<1>3. c.values[last] \in Value
  BY <1>2, RequestShape DEF Writes
<1>4. TypeOf(c.method) \in {"string", "hash"}
  BY DEF TypeOf, Sets, Pushes, Ranges
<1>5. Assigned(c, j) = Entry(TypeOf(c.method), <<c.values[last]>>)
  BY Zenon DEF Assigned, last
<1>. QED
  BY <1>3, <1>4, <1>5 DEF Entry, Entries

\* An entry: a missing key has no values, and any other has some.
IsEntry(e) == e \in Entries /\ (e.values = <<>> <=> e.type = "none")

\* What is left under a key is an entry.
LEMMA LeftType ==
  ASSUME NEW c \in Requests, NEW e, IsEntry(e), NEW d \in Left(c, e)
  PROVE  IsEntry(d)
<1>1. c.method \in Pushes \cup {"LREM"} => c.values[1] \in Value
  <2>1. c.method \in Pushes \cup {"LREM"} => c.method \in Writes \cup {"LREM"} /\ c.method \notin Manies
    BY DEF Writes, Manies, Pushes
  <2>. QED
    BY <2>1, RequestShape
<1>2. ASSUME NEW list \in Seq(Value), list # <<>> PROVE IsEntry(Entry("list", list))
  BY <1>2 DEF IsEntry, Entries, Entry
<1>3. IsEntry(Missing)
  BY DEF IsEntry, Entries, Entry, Missing
<1>4. e.values \in Seq(Value)
  BY DEF IsEntry, Entries
<1> DEFINE pushed == <<c.values[1]>> \o e.values
           added == Append(e.values, c.values[1])
           rests == {IF rest = <<>> THEN Missing ELSE Entry("list", rest) :
                       rest \in Without(e.values, c.values[1])}
<1>5. c.method \in Pushes => pushed \in Seq(Value) /\ pushed # <<>>
                              /\ added \in Seq(Value) /\ added # <<>>
  BY <1>1, <1>4
<1>6. ASSUME NEW r \in rests PROVE IsEntry(r)
  BY <1>2, <1>3, <1>4, WithoutType
<1>7. Left(c, e) = CASE c.method = "LPUSH" -> {Entry("list", pushed)}
                     [] c.method = "RPUSH" -> {Entry("list", added)}
                     [] c.method = "LREM" -> rests
                     [] c.method = "DEL" -> {Missing}
                     [] c.time = "now" -> {Missing}
                     [] c.time = "beyond" -> {e, Missing}
                     [] OTHER -> {e}
  BY DEF Left
<1>. HIDE DEF pushed, added, rests
<1>. QED
  BY <1>2, <1>3, <1>5, <1>6, <1>7 DEF Pushes

\* The store stays one whatever the server executes.
LEMMA EffectsType ==
  ASSUME NEW s, StoreType(s), NEW c \in Requests, ~MustRefuse(s, c), NEW t \in Effects(s, c)
  PROVE  StoreType(t)
<1>1. CASE c.method \in Sets \cup {"MSET", "HMSET"}
  <2>1. t = [j \in Key |-> IF \E i \in 1 .. Len(c.keys) : c.keys[i] = j
                           THEN Assigned(c, j) ELSE s[j]]
    BY <1>1 DEF Effects
  <2>2. ASSUME NEW j \in Key
        PROVE  t[j] \in Entries /\ (t[j].values = <<>> <=> t[j].type = "none")
    BY <1>1, <2>1, AssignedType DEF StoreType
  <2>. QED
    BY <2>1, <2>2 DEF StoreType
<1>2. CASE c.method \notin Sets \cup {"MSET", "HMSET"}
  <2>1. c.keys[1] \in Key
    BY FirstKey DEF MustRefuse
  <2>2. PICK e \in Left(c, s[c.keys[1]]) : t = [s EXCEPT ![c.keys[1]] = e]
    BY <1>2 DEF Effects
  <2>3. IsEntry(s[c.keys[1]])
    BY <2>1 DEF StoreType, IsEntry
  <2>4. IsEntry(e)
    BY <2>2, <2>3, LeftType
  <2>. QED
    BY <2>1, <2>2, <2>4, EntryWritten DEF IsEntry
<1>. QED
  BY <1>1, <1>2

\* The last of the places of a key is the one whose value is assigned.
LEMMA LastAssigned ==
  ASSUME NEW c \in Requests, c.method \in Sets \cup {"MSET", "HMSET"},
         NEW i \in 1 .. Len(c.keys)
  PROVE  /\ Assigned(c, c.keys[i]).type = TypeOf(c.method)
         /\ (\A j \in i + 1 .. Len(c.keys) : c.keys[j] # c.keys[i]) =>
              Assigned(c, c.keys[i]).values = <<c.values[i]>>
<1> DEFINE k == c.keys[i]
           Last(n) == c.keys[n] = k /\ \A l \in n + 1 .. Len(c.keys) : c.keys[l] # k
           last == CHOOSE n \in 1 .. Len(c.keys) : Last(n)
<1>1. Assigned(c, k) = Entry(TypeOf(c.method), <<c.values[last]>>)
  BY Zenon DEF Assigned
<1>2. ASSUME Last(i) PROVE last = i
  <2>1. last \in 1 .. Len(c.keys) /\ Last(last)
    BY <1>2
  <2>. HIDE DEF last
  <2>2. Len(c.keys) \in Nat
    BY RequestShape
  <2>. QED
    BY <1>2, <2>1, <2>2
<1>. HIDE DEF last
<1>. QED
  BY <1>1, <1>2 DEF Entry

\* What the server makes of its store with a write are the values of the write.
LEMMA EffectsWritten ==
  ASSUME NEW s, StoreType(s), NEW c \in Requests, c.method \in Writes,
         NEW t \in Effects(s, c)
  PROVE  IsWritten(t, s, c)
<1>1. c.keys \in Seq(Key) /\ \A i \in 1 .. Len(c.keys) : c.keys[i] \in Key
  BY RequestShape
<1>2. CASE c.method \in Sets \cup {"MSET", "HMSET"}
  <2>1. t = [j \in Key |-> IF \E i \in 1 .. Len(c.keys) : c.keys[i] = j
                           THEN Assigned(c, j) ELSE s[j]]
    BY <1>2 DEF Effects
  <2>2. \A k \in Key : (\A i \in 1 .. Len(c.keys) : c.keys[i] # k) => t[k] = s[k]
    BY <2>1
  <2>3. \A i \in 1 .. Len(c.keys) : t[c.keys[i]] = Assigned(c, c.keys[i])
    BY <1>1, <2>1
  <2>4. c.method # "LPUSH" /\ c.method # "RPUSH"
    BY <1>2 DEF Sets
  <2>. QED
    BY <1>2, <2>2, <2>3, <2>4, LastAssigned DEF IsWritten
<1>3. CASE c.method \in Pushes
  <2>1. c.method \notin Sets \cup {"MSET", "HMSET"} /\ c.method \notin Manies
    BY <1>3 DEF Sets, Pushes, Manies
  <2>2. Len(c.keys) = 1 /\ c.keys[1] \in Key /\ c.values[1] \in Value /\ c.time = "none"
    BY <1>3, <2>1, RequestShape, FirstKey DEF Pushes
  <2> DEFINE k == c.keys[1]
             old == s[k].values
             v == c.values[1]
  <2>3. PICK e \in Left(c, s[k]) : t = [s EXCEPT ![k] = e]
    BY <2>1 DEF Effects
  <2>4. s \in [Key -> Entries] /\ old \in Seq(Value)
    BY <2>2 DEF StoreType, Entries
  <2>5. t[k] = e /\ \A j \in Key : j # k => t[j] = s[j]
    BY <2>2, <2>3, <2>4
  <2>6. TypeOf(c.method) = "list"
    BY <1>3 DEF TypeOf, Pushes
  <2>7. CASE c.method = "LPUSH"
    <3>1. Left(c, s[k]) = {Entry("list", <<v>> \o old)}
      BY <2>2, <2>7 DEF Left
    <3>2. e = Entry("list", <<v>> \o old)
      BY <2>3, <3>1
    <3>3. (<<v>> \o old)[1] = v /\ Tail(<<v>> \o old) = old
      BY <2>2, <2>4
    <3>4. e.type = "list" /\ e.values[1] = v /\ Tail(e.values) = old
      BY <3>2, <3>3 DEF Entry
    <3>. HIDE DEF old, v
    <3>. QED
      BY <2>2, <2>5, <2>6, <2>7, <3>4 DEF IsWritten, old, v
  <2>8. CASE c.method = "RPUSH"
    <3>1. Left(c, s[k]) = {Entry("list", Append(old, v))}
      BY <2>2, <2>8 DEF Left
    <3>2. e.type = "list" /\ e.values = Append(old, v)
      BY <2>3, <3>1 DEF Entry
    <3>. HIDE DEF old, v
    <3>. QED
      BY <2>2, <2>5, <2>6, <2>8, <3>2 DEF IsWritten, old, v
  <2>. QED
    BY <1>3, <2>7, <2>8 DEF Pushes
<1>. QED
  BY <1>2, <1>3 DEF Writes
-----------------------------------------------------------------------------
(* What the server answers. *)

\* No reply of the server is taken for a null pointer.
LEMMA RepliesAreSeen ==
  ASSUME NEW s, NEW c, NEW r \in Replies(s, c)
  PROVE  r # NoReply
<1>1. \A n, e : /\ Answer("integer", n, e) # NoReply /\ Answer("string", n, e) # NoReply
                /\ Answer("array", n, e) # NoReply /\ Answer("status", n, e) # NoReply
                /\ Answer("error", n, e) # NoReply
  BY DEF Answer, NoReply
<1>2. \A order : Reply(s, c, order) # NoReply
  BY <1>1 DEF Reply
<1>. QED
  BY <1>1, <1>2 DEF Replies

\* What each kind of command is answered.
LEMMA ReplyOf ==
  ASSUME NEW s, NEW c, NEW order
  PROVE  /\ c.method = "LREM" =>
              Reply(s, c, order) =
                Answer("integer", Cardinality(Places(s[c.keys[1]].values, c.values[1])), <<>>)
         /\ c.method \in Tests \ {"LREM"} =>
              Reply(s, c, order) =
                Answer("integer", IF s[c.keys[1]] = Missing THEN 0 ELSE 1, <<>>)
         /\ c.method \in Gets =>
              Reply(s, c, order) = Answer("string", 0, <<Found(s, c, c.keys[1])>>)
         /\ c.method \in Ranges => Reply(s, c, order) = Answer("array", 0, order)
         /\ c.method \in {"MGET", "HMGET"} =>
              Reply(s, c, order) =
                Answer("array", 0, [i \in 1 .. Len(c.keys) |-> Found(s, c, c.keys[i])])
<1> DEFINE removed == Answer("integer", Cardinality(Places(s[c.keys[1]].values, c.values[1])), <<>>)
           there == Answer("integer", IF s[c.keys[1]] = Missing THEN 0 ELSE 1, <<>>)
           one == Answer("string", 0, <<Found(s, c, c.keys[1])>>)
           range == Answer("array", 0, order)
           each == Answer("array", 0, [i \in 1 .. Len(c.keys) |-> Found(s, c, c.keys[i])])
           status == Answer("status", 0, <<>>)
<1>1. Reply(s, c, order) = CASE c.method = "LREM" -> removed
                             [] c.method \in Tests \ {"LREM"} -> there
                             [] c.method \in Gets -> one
                             [] c.method \in Ranges -> range
                             [] c.method \in {"MGET", "HMGET"} -> each
                             [] OTHER -> status
  BY DEF Reply
<1>. HIDE DEF removed, there, one, range, each, status
<1>2. /\ c.method = "LREM" => Reply(s, c, order) = removed
      /\ c.method \in Tests \ {"LREM"} => Reply(s, c, order) = there
      /\ c.method \in Gets => Reply(s, c, order) = one
      /\ c.method \in Ranges => Reply(s, c, order) = range
      /\ c.method \in {"MGET", "HMGET"} => Reply(s, c, order) = each
  BY <1>1 DEF Tests, Gets, Ranges
<1>. QED
  BY <1>2 DEF removed, there, one, range, each

\* A test that was executed has one for its answer exactly if what it asks holds.
LEMMA TestReply ==
  ASSUME NEW s, StoreType(s), NEW c \in Requests, c.method \in Tests,
         ~MustRefuse(s, c), NEW r \in Replies(s, c)
  PROVE  r.integer = 1 <=> Holds(s, c)
<1> DEFINE e == s[c.keys[1]]
           places == Places(e.values, c.values[1])
<1>1. IsEntry(e)
  BY FirstKey DEF StoreType, IsEntry, MustRefuse
<1>2. PICK order : r = Reply(s, c, order)
  BY DEF Replies
<1>3. CASE c.method = "LREM"
  <2>1. e.type \in {"none", "list"}
    BY <1>3 DEF TypeOf, WrongType, MustRefuse
  <2>2. Holds(s, c) <=> e.type = "list" /\ \E i \in places : places = {i}
    BY <1>3 DEF Holds
  <2>3. r = Answer("integer", Cardinality(places), <<>>)
    BY <1>2, <1>3, ReplyOf
  <2>4. e.values \in Seq(Value)
    BY <1>1 DEF IsEntry, Entries
  <2>5. Cardinality(places) = 1 <=> \E i \in places : places = {i}
    BY <2>4, PlacesCounted
  <2>6. CASE e.type = "none"
    <3>1. e.values = <<>>
      BY <1>1, <2>6 DEF IsEntry
    <3>2. ~\E i \in places : TRUE
      BY <3>1 DEF Places
    <3>. QED
      BY <2>2, <2>3, <2>5, <3>2 DEF Answer
  <2>7. CASE e.type = "list"
    BY <2>2, <2>3, <2>5, <2>7 DEF Answer
  <2>. QED
    BY <2>1, <2>6, <2>7
<1>4. CASE c.method # "LREM"
  <2>1. r = Answer("integer", IF e = Missing THEN 0 ELSE 1, <<>>)
    BY <1>2, <1>4, ReplyOf
  <2>. QED
    BY <1>4, <2>1 DEF Holds, Answer
<1>. QED
  BY <1>3, <1>4

\* What is found under a key is a value, or the key is of another type.
LEMMA FoundValue ==
  ASSUME NEW s, StoreType(s), NEW c \in Requests, c.method \in Gets \cup {"MGET", "HMGET"},
         NEW k \in Key
  PROVE  IF s[k].type = TypeOf(c.method)
         THEN Found(s, c, k) = s[k].values[1] /\ s[k].values[1] \in Value
         ELSE Found(s, c, k) = Nil
<1>1. TypeOf(c.method) \in {"string", "hash"}
  BY DEF TypeOf, Gets, Pushes, Ranges
<1>2. s[k] \in Entries /\ (s[k].values = <<>> <=> s[k].type = "none")
  BY DEF StoreType
<1>3. s[k].type = TypeOf(c.method) => s[k].values[1] \in Value
  BY <1>1, <1>2 DEF Entries
<1>. QED
  BY <1>3 DEF Found

\* The elements of a list's answer.
LEMMA ListElements ==
  ASSUME NEW s, StoreType(s), NEW c \in Requests, c.method \in Lists,
         ~MustRefuse(s, c), NEW r \in Replies(s, c)
  PROVE  /\ c.method \in Ranges =>
              /\ r.elements \in Orders(c.method, s[c.keys[1]].values)
              /\ r.elements \in Seq(Value)
         /\ c.method \notin Ranges =>
              r.elements = [i \in 1 .. Len(c.keys) |-> Found(s, c, c.keys[i])]
<1>1. PICK order \in Orders(c.method, s[c.keys[1]].values) : r = Reply(s, c, order)
  BY DEF Replies
<1>2. s[c.keys[1]].values \in Seq(Value)
  BY FirstKey DEF StoreType, Entries, MustRefuse
<1>3. order \in Seq(Value)
  BY <1>1, <1>2, OrderType
<1>4. CASE c.method \in Ranges
  <2>1. r = Answer("array", 0, order)
    BY <1>1, <1>4, ReplyOf
  <2>. QED
    BY <1>1, <1>3, <1>4, <2>1 DEF Answer
<1>5. CASE c.method \in {"MGET", "HMGET"}
  <2>1. r = Answer("array", 0, [i \in 1 .. Len(c.keys) |-> Found(s, c, c.keys[i])])
    BY <1>1, <1>5, ReplyOf
  <2>. QED
    BY <1>5, <2>1 DEF Answer, Ranges
<1>. QED
  BY <1>4, <1>5 DEF Lists

\* Elements that are all there make the texts that were asked for.
LEMMA ListTexts ==
  ASSUME NEW s, StoreType(s), NEW c \in Requests, c.method \in Lists,
         ~MustRefuse(s, c), NEW r \in Replies(s, c),
         ~\E i \in 1 .. Len(r.elements) : r.elements[i] = Nil
  PROVE  LET texts == [i \in 1 .. Len(r.elements) |-> CString[r.elements[i]]]
         IN  texts \in Seq(Value) /\ AreTexts(s, c, texts)
<1> DEFINE texts == [i \in 1 .. Len(r.elements) |-> CString[r.elements[i]]]
           each == [i \in 1 .. Len(c.keys) |-> s[c.keys[i]].values[1]]
<1>1. CASE c.method \in Ranges
  <2>1. /\ r.elements \in Orders(c.method, s[c.keys[1]].values)
        /\ r.elements \in Seq(Value)
    BY <1>1, ListElements
  <2>2. /\ texts \in Seq(Value) /\ Len(texts) = Len(r.elements)
        /\ \A i \in 1 .. Len(r.elements) : texts[i] = CString[r.elements[i]]
    BY <2>1, ValueAssumption
  <2>. HIDE DEF texts
  <2>. QED
    BY <1>1, <2>1, <2>2 DEF AreTexts
<1>2. CASE c.method \notin Ranges
  <2>1. c.method \in Gets \cup {"MGET", "HMGET"}
    BY <1>2 DEF Lists
  <2>2. r.elements = [i \in 1 .. Len(c.keys) |-> Found(s, c, c.keys[i])]
    BY <1>2, ListElements
  <2>3. Len(c.keys) \in Nat /\ \A i \in 1 .. Len(c.keys) : c.keys[i] \in Key
    BY RequestShape
  <2>4. Len(r.elements) = Len(c.keys)
    BY <2>2, <2>3
  <2>5. \A i \in 1 .. Len(c.keys) : Found(s, c, c.keys[i]) # Nil
    BY <2>2, <2>4
  <2>6. \A i \in 1 .. Len(c.keys) :
          /\ s[c.keys[i]].type = TypeOf(c.method)
          /\ r.elements[i] = s[c.keys[i]].values[1] /\ r.elements[i] \in Value
    BY <2>1, <2>2, <2>3, <2>5, FoundValue
  <2>7. /\ texts \in Seq(Value) /\ Len(texts) = Len(c.keys)
        /\ \A i \in 1 .. Len(c.keys) : texts[i] = CString[r.elements[i]]
    BY <2>3, <2>4, <2>6, ValueAssumption
  <2>8. Len(each) = Len(c.keys) /\ \A i \in 1 .. Len(c.keys) : each[i] = r.elements[i]
    BY <2>3, <2>6
  <2>9. /\ Len(texts) = Len(each)
        /\ \A i \in 1 .. Len(each) : texts[i] = CString[each[i]]
    BY <2>7, <2>8
  <2>. HIDE DEF texts
  <2>10. AreTexts(s, c, texts) <=>
           /\ \A i \in 1 .. Len(c.keys) : s[c.keys[i]].type = TypeOf(c.method)
           /\ Len(texts) = Len(each) /\ \A i \in 1 .. Len(each) : texts[i] = CString[each[i]]
    BY <1>2 DEF AreTexts
  <2>11. texts \in Seq(Value) /\ AreTexts(s, c, texts)
    BY <2>6, <2>7, <2>9, <2>10
  <2>. QED
    BY <2>11 DEF texts
<1>. QED
  BY <1>1, <1>2

\* A missing value is that of a key which has none of the type.
LEMMA MissingValue ==
  ASSUME NEW s, StoreType(s), NEW c \in Requests, ~MustRefuse(s, c), NEW r \in Replies(s, c),
         \/ c.method \in Gets /\ r.elements = <<Nil>>
         \/ c.method \in Lists /\ \E i \in 1 .. Len(r.elements) : r.elements[i] = Nil
  PROVE  \E i \in 1 .. Len(c.keys) : s[c.keys[i]].type # TypeOf(c.method)
<1>1. \A i \in 1 .. Len(c.keys) : c.keys[i] \in Key
  BY RequestShape
<1>2. ASSUME c.method \in Gets \cup {"MGET", "HMGET"},
             NEW i \in 1 .. Len(c.keys), Found(s, c, c.keys[i]) = Nil
      PROVE  s[c.keys[i]].type # TypeOf(c.method)
  BY <1>1, <1>2, FoundValue, NilAssumption
<1>3. CASE c.method \in Gets /\ r.elements = <<Nil>>
  <2>1. PICK order : r = Reply(s, c, order)
    BY DEF Replies
  <2>2. r = Answer("string", 0, <<Found(s, c, c.keys[1])>>)
    BY <1>3, <2>1, ReplyOf
  <2>3. Found(s, c, c.keys[1]) = Nil /\ 1 \in 1 .. Len(c.keys)
    BY <1>3, <2>2, FirstKey DEF Answer, MustRefuse
  <2>. QED
    BY <1>2, <1>3, <2>3
<1>4. CASE c.method \in Lists /\ \E i \in 1 .. Len(r.elements) : r.elements[i] = Nil
  <2>1. PICK n \in 1 .. Len(r.elements) : r.elements[n] = Nil
    BY <1>4
  <2>2. c.method \notin Ranges
    <3>1. r.elements \notin Seq(Value)
      BY <2>1, NilAssumption
    <3>. QED
      BY <1>4, <3>1, ListElements
  <2>3. r.elements = [i \in 1 .. Len(c.keys) |-> Found(s, c, c.keys[i])]
    BY <1>4, <2>2, ListElements
  <2>4. Len(r.elements) = Len(c.keys)
    BY <2>3, RequestShape
  <2>. QED
    BY <1>2, <1>4, <2>1, <2>2, <2>3, <2>4 DEF Lists
<1>. QED
  BY <1>3, <1>4

\* A value that is not missing is one that the server has.
LEMMA ValueGot ==
  ASSUME NEW s, StoreType(s), NEW c \in Requests, c.method \in Gets, ~MustRefuse(s, c),
         NEW r \in Replies(s, c), r.elements # <<Nil>>
  PROVE  HasValue(s, c)
<1>1. PICK order : r = Reply(s, c, order)
  BY DEF Replies
<1>2. r = Answer("string", 0, <<Found(s, c, c.keys[1])>>)
  BY <1>1, ReplyOf
<1>3. Found(s, c, c.keys[1]) # Nil
  BY <1>2 DEF Answer
<1>. QED
  BY <1>3 DEF Found, HasValue
-----------------------------------------------------------------------------
(* The invariant. *)

\* Each kind of command ends as the invariant says.
LEMMA ReceiveStep ==
  ASSUME IInv, Receive
  PROVE  IInv'
<1> USE DEF IInv
<1>1. PICK r \in {reply, NoReply} : Write(r) \/ Test(r) \/ Get(r) \/ List(r)
  BY DEF Receive
<1>2. Got(r)
  BY <1>1 DEF Write, Test, Get, List
<1>3. /\ call \in Requests /\ StoreType(before)
      /\ fate \in {"none", "done", "refused"}
      /\ fate # "none" \/ connection = "lost"
      /\ r = NoReply => connection = "lost"
      /\ r # NoReply => fate # "none"
      /\ r # NoReply /\ fate = "done" => ~MustRefuse(before, call) /\ r \in Replies(before, call)
      /\ r # NoReply /\ fate = "refused" => r = Answer("error", 0, <<>>)
  <2>1. Answer("error", 0, <<>>) # NoReply
    BY DEF Answer, NoReply
  <2>. QED
    BY <1>2, <2>1, RepliesAreSeen DEF Got, ReplyIsTrue, TypeOK
<1>4. ASSUME NEW x, Returns(x),
             x.kind \in {"void", "bool", "text", "list", "threw"}, x.list \in Seq(Value),
             x = Void => call.method \in Writes,
             x.kind = "bool" =>
               fate # "none" /\ (x.truth <=> fate = "done" /\ Holds(before, call)),
             x.kind = "list" => \/ fate = "done" /\ AreTexts(before, call, x.list)
                                \/ fate = "refused" /\ x.list = <<>>,
             x.kind = "threw" => fate = "done" /\ \E i \in 1 .. Len(call.keys) :
                                   before[call.keys[i]].type # TypeOf(call.method),
             x.kind = "text" => fate = "refused" \/ (fate = "done" /\ HasValue(before, call))
      PROVE  IInv'
  <2>1. /\ result' = x /\ phase' = "idle"
        /\ UNCHANGED <<store, connection, call, reply, calls, others, fate, before, seen>>
    BY <1>4 DEF Returns, history
  <2>2. TypeOK' /\ ReplyIsTrue' /\ StoreIsLeft'
    BY <1>4, <2>1 DEF TypeOK, StoreType, ReplyIsTrue, StoreIsLeft
  <2>3. TestTellsTruth' /\ ListTellsTruth'
    BY <1>4, <2>1 DEF TestTellsTruth, ListTellsTruth
  <2>4. EndsForAReason'
    BY <1>4, <2>1 DEF EndsForAReason
  <2>5. WriteIsAllOrNothing'
    <3>1. call.method \in Writes /\ fate = "done" /\ others = seen => IsWritten(store, before, call)
      BY <1>3, EffectsWritten DEF StoreIsLeft
    <3>2. x = Void => CASE fate = "done" -> others = seen => IsWritten(store, before, call)
                        [] fate = "refused" -> others = seen => store = before
                        [] fate = "none" -> connection = "lost"
      BY <1>3, <1>4, <3>1 DEF StoreIsLeft
    <3>3. IsWritten(store, before, call)' <=> IsWritten(store, before, call)
      BY <2>1 DEF IsWritten
    <3>. QED
      BY <2>1, <3>2, <3>3 DEF WriteIsAllOrNothing
  <2>. QED
    BY <2>2, <2>3, <2>4, <2>5
<1>5. ASSUME Crashes, call.method \notin Writes,
             \/ connection = "lost"
             \/ call.method \in Gets /\ fate = "refused"
             \/ call.method \in Gets /\ fate = "done" /\ HasValue(before, call)
      PROVE  IInv'
  <2>1. /\ phase' = "crashed"
        /\ UNCHANGED <<store, connection, call, reply, result, calls, others, fate, before, seen>>
    BY <1>5 DEF Crashes, history
  <2>. QED
    BY <1>5, <2>1 DEF TypeOK, StoreType, ReplyIsTrue, StoreIsLeft, TestTellsTruth,
                      ListTellsTruth, EndsForAReason, WriteIsAllOrNothing
<1>6. \A m \in Tests \cup Gets \cup Lists : m \notin Writes
  BY DEF Writes, Tests, Gets, Lists, Ranges, Pushes, Sets
<1> DEFINE threw == Result("threw", FALSE, <<>>)
<1>7. threw.kind = "threw" /\ threw.list \in Seq(Value)
  BY DEF Result
<1>8. Void.kind = "void" /\ Void.list \in Seq(Value)
  BY DEF Void, Result
<1>13. r # NoReply /\ fate = "refused" => r.elements = <<>> /\ r.integer = 0
  BY <1>3 DEF Answer
<1>. HIDE DEF threw
<1>9. CASE Write(r)
  BY <1>4, <1>9, <1>8 DEF Write
<1>10. CASE Test(r)
  <2>1. call.method \in Tests
    BY <1>10 DEF Test
  <2>2. CASE r = NoReply
    BY <1>3, <1>5, <1>6, <1>10, <2>1, <2>2 DEF Test
  <2>3. CASE r # NoReply
    <3>1. r.integer = 1 <=> fate = "done" /\ Holds(before, call)
      BY <1>3, <1>13, <2>1, <2>3, TestReply
    <3> DEFINE x == Result("bool", r.integer = 1, <<>>)
    <3>2. x.kind = "bool" /\ x.list \in Seq(Value)
      BY DEF Result
    <3>3. Returns(x)
      BY <1>10, <2>3 DEF Test
    <3>4. x.truth = (r.integer = 1)
      BY DEF Result
    <3>. HIDE DEF x
    <3>5. x.truth <=> fate = "done" /\ Holds(before, call)
      BY <3>1, <3>4, Zenon
    <3>6. x # Void /\ x.kind # "list" /\ x.kind # "threw" /\ x.kind # "text"
      BY <1>8, <3>2
    <3>. QED
      BY <1>3, <1>4, <2>3, <3>2, <3>3, <3>5, <3>6
  <2>. QED
    BY <2>2, <2>3
<1>11. CASE Get(r)
  <2>1. call.method \in Gets
    BY <1>11 DEF Get
  <2>2. CASE r # NoReply /\ r.elements = <<Nil>>
    <3>1. fate = "done"
      BY <1>3, <1>13, <2>2
    <3>2. \E i \in 1 .. Len(call.keys) : before[call.keys[i]].type # TypeOf(call.method)
      BY <1>3, <2>1, <2>2, <3>1, MissingValue
    <3>3. Returns(threw)
      BY <1>11, <2>2 DEF Get, threw
    <3>. QED
      BY <1>4, <1>7, <1>8, <3>1, <3>2, <3>3
  <2>3. CASE r = NoReply \/ r.elements # <<Nil>>
    <3>1. r # NoReply => fate = "refused" \/ (fate = "done" /\ HasValue(before, call))
      BY <1>3, <2>1, <2>3, ValueGot
    <3>2. CASE Crashes
      BY <1>3, <1>5, <1>6, <2>1, <3>1, <3>2
    <3>3. CASE ~Crashes
      <4>0. NoReply.elements # <<Nil>>
        BY DEF NoReply, Answer
      <4>1. PICK v \in Value : r # NoReply /\ Returns(Result("text", FALSE, <<v>>))
        BY <1>11, <2>3, <3>3, <4>0 DEF Get
      <4> DEFINE x == Result("text", FALSE, <<v>>)
      <4>2. x.kind = "text" /\ x.list \in Seq(Value)
        BY DEF Result
      <4>. HIDE DEF x
      <4>3. Returns(x)
        BY <4>1 DEF x
      <4>. QED
        BY <1>4, <1>8, <3>1, <4>1, <4>2, <4>3
    <3>. QED
      BY <3>2, <3>3
  <2>. QED
    BY <2>2, <2>3
<1>12. CASE List(r)
  <2>1. call.method \in Lists
    BY <1>12 DEF List
  <2>2. CASE r = NoReply
    BY <1>3, <1>5, <1>6, <1>12, <2>1, <2>2 DEF List
  <2>3. CASE r # NoReply /\ \E i \in 1 .. Len(r.elements) : r.elements[i] = Nil
    <3>1. fate = "done"
      BY <1>3, <1>13, <2>3
    <3>2. \E i \in 1 .. Len(call.keys) : before[call.keys[i]].type # TypeOf(call.method)
      BY <1>3, <2>1, <2>3, <3>1, MissingValue
    <3>3. Returns(threw)
      BY <1>12, <2>3 DEF List, threw
    <3>. QED
      BY <1>4, <1>7, <1>8, <3>1, <3>2, <3>3
  <2>4. CASE r # NoReply /\ ~\E i \in 1 .. Len(r.elements) : r.elements[i] = Nil
    <3> DEFINE texts == [i \in 1 .. Len(r.elements) |-> CString[r.elements[i]]]
    <3>1. fate = "done" => texts \in Seq(Value) /\ AreTexts(before, call, texts)
      BY <1>3, <2>1, <2>4, ListTexts
    <3>2. fate = "refused" => texts \in Seq(Value) /\ texts = <<>>
      BY <1>13, <2>4
    <3> DEFINE x == Result("list", FALSE, texts)
    <3>3. Returns(x)
      BY <1>12, <2>4 DEF List
    <3>. HIDE DEF texts
    <3>4. x.kind = "list" /\ x.list = texts
      BY DEF Result
    <3>. HIDE DEF x
    <3>. QED
      BY <1>3, <1>4, <1>8, <2>4, <3>1, <3>2, <3>3, <3>4
  <2>. QED
    BY <2>2, <2>3, <2>4
<1>. QED
  BY <1>1, <1>9, <1>10, <1>11, <1>12

\* The first command of all.
LEMMA InitStep == Init => IInv
<1>. SUFFICES ASSUME Init PROVE IInv
  OBVIOUS
<1>1. IsEntry(Missing)
  BY DEF IsEntry, Entries, Entry, Missing
<1>2. StoreType(store) /\ StoreType(before)
  BY <1>1 DEF Init, StoreType, IsEntry
<1>3. call \in Requests
  <2>1. PICK k \in Key : call = Request("DEL", <<k>>, <<>>, "none")
    BY DEF Init
  <2>2. <<k>> \in UpToTwo(Key) /\ <<>> \in UpToTwo(Value) /\ Len(<<k>>) = 1
    BY DEF UpToTwo, OneOrTwo
  <2>3. /\ "DEL" \in Methods /\ "DEL" \notin Writes \cup {"LREM"}
        /\ "DEL" \notin Manies
    BY DEF Methods, Tests, Writes, Pushes, Sets, Manies
  <2>. QED
    BY <2>1, <2>2, <2>3 DEF Requests, Request
<1>4. 0 \in 0 .. MaxCalls /\ 0 \in 0 .. MaxOthers
  BY BoundAssumption
<1>5. TypeOK
  BY <1>2, <1>3, <1>4 DEF Init, TypeOK, Void, Result
<1>. QED
  BY <1>5 DEF Init, IInv, ReplyIsTrue, StoreIsLeft, TestTellsTruth, ListTellsTruth,
              EndsForAReason, WriteIsAllOrNothing, Void, Result

\* The invariant holds whatever the server, its other clients and the
\* connection do.
THEOREM Invariance == Spec => []IInv
<1> USE DEF IInv
<1>1. IInv /\ [Next]_vars => IInv'
  <2> SUFFICES ASSUME IInv, [Next]_vars PROVE IInv'
    OBVIOUS
  <2> USE DEF ReplyIsTrue, StoreIsLeft, TestTellsTruth, ListTellsTruth, EndsForAReason,
              WriteIsAllOrNothing, history
  <2>1. ASSUME NEW c \in Requests, Send(c) PROVE IInv'
    <3>1. TypeOK'
      <4>1. calls' \in 0 .. MaxCalls /\ seen' \in 0 .. others'
        BY <2>1, BoundAssumption DEF Send, TypeOK
      <4>. QED
        BY <2>1, <4>1 DEF Send, TypeOK, StoreType
    <3>. QED
      BY <2>1, <3>1 DEF Send
  <2>2. CASE Execute
    <3>1. StoreType(store) /\ call \in Requests /\ ~MustRefuse(store, call)
      BY <2>2 DEF TypeOK, Execute
    <3>2. StoreType(store')
      BY <2>2, <3>1, EffectsType DEF Execute
    <3>3. StoreType(store)' /\ StoreType(before)'
      BY <2>2, <3>1, <3>2 DEF StoreType, Execute
    <3>4. TypeOK'
      <4>1. seen' \in 0 .. others'
        BY <2>2, BoundAssumption DEF Execute, TypeOK
      <4>. QED
        BY <2>2, <3>3, <4>1 DEF Execute, TypeOK
    <3>5. ReplyIsTrue' /\ StoreIsLeft'
      <4>1. /\ ~MustRefuse(before, call)' /\ (reply \in Replies(before, call))'
            /\ (store \in Effects(before, call))'
        BY <2>2, <3>1, Zenon DEF Execute
      <4>. QED
        BY <2>2, <4>1 DEF Execute
    <3>. QED
      BY <2>2, <3>4, <3>5 DEF Execute
  <2>7. CASE Refuse
    <3>1. TypeOK'
      <4>1. seen' \in 0 .. others'
        BY <2>7, BoundAssumption DEF Refuse, TypeOK
      <4>. QED
        BY <2>7, <4>1 DEF Refuse, TypeOK, StoreType
    <3>2. phase' = "sent"
      BY <2>7 DEF Refuse
    <3>3. ReplyIsTrue' /\ StoreIsLeft'
      BY <2>7 DEF Refuse
    <3>4. TestTellsTruth' /\ ListTellsTruth' /\ EndsForAReason'
      BY <3>2
    <3>5. WriteIsAllOrNothing'
      BY <3>2
    <3>. HIDE DEF ReplyIsTrue, StoreIsLeft, TestTellsTruth, ListTellsTruth, EndsForAReason,
                  WriteIsAllOrNothing
    <3>. QED
      BY <3>1, <3>3, <3>4, <3>5
  <2>3. CASE Receive
    BY <2>3, ReceiveStep
  <2>4. CASE Lose
    <3>1. TypeOK'
      BY <2>4 DEF Lose, TypeOK, StoreType
    <3>2. /\ connection' = "lost"
          /\ UNCHANGED <<store, phase, call, reply, result, calls, others, fate, before, seen>>
      BY <2>4 DEF Lose
    <3>3. fate \in {"none", "done", "refused"}
      BY DEF TypeOK
    <3>4. ReplyIsTrue' /\ StoreIsLeft'
      BY <3>2
    <3>5. TestTellsTruth' /\ ListTellsTruth' /\ EndsForAReason'
      BY <3>2
    <3>6. WriteIsAllOrNothing'
      BY <3>2, <3>3
    <3>. QED
      BY <3>1, <3>4, <3>5, <3>6
  <2>5. ASSUME NEW k \in Key, OtherClient(k) PROVE IInv'
    <3>1. PICK e \in {Missing} \cup [type : {"string", "list"}, values : {<<v>> : v \in Value}] :
            store' = [store EXCEPT ![k] = e]
      BY <2>5 DEF OtherClient
    <3>2. IsEntry(e)
      <4>1. CASE e \in [type : {"string", "list"}, values : {<<v>> : v \in Value}]
        <5>1. PICK v \in Value : e.values = <<v>>
          BY <4>1
        <5>2. /\ e = [type |-> e.type, values |-> e.values]
              /\ e.type \in {"string", "list"}
          BY <4>1
        <5>3. e.values \in Seq(Value) /\ e.values # <<>>
          BY <5>1
        <5>. QED
          BY <5>2, <5>3 DEF IsEntry, Entries
      <4>2. CASE e = Missing
        BY <4>2 DEF IsEntry, Entries, Entry, Missing
      <4>. QED
        BY <3>1, <4>1, <4>2
    <3>3. StoreType(store')
      BY <3>1, <3>2, EntryWritten DEF TypeOK, IsEntry
    <3>4. TypeOK'
      <4>1. others' \in 0 .. MaxOthers /\ seen' \in 0 .. others'
        BY <2>5, BoundAssumption DEF OtherClient, TypeOK
      <4>2. StoreType(store)'
        BY <3>3 DEF StoreType
      <4>. QED
        BY <2>5, <4>1, <4>2 DEF OtherClient, TypeOK, StoreType
    <3>5. others' # seen'
      BY <2>5, BoundAssumption DEF OtherClient, TypeOK
    <3>6. UNCHANGED <<connection, phase, call, reply, result, calls, fate, before>>
      BY <2>5 DEF OtherClient
    <3>7. fate \in {"none", "done", "refused"}
      BY DEF TypeOK
    <3>8. ReplyIsTrue' /\ StoreIsLeft'
      BY <3>5, <3>6
    <3>9. TestTellsTruth' /\ ListTellsTruth' /\ EndsForAReason'
      BY <3>6
    <3>10. WriteIsAllOrNothing'
      BY <3>5, <3>6, <3>7
    <3>. QED
      BY <3>4, <3>8, <3>9, <3>10
  <2>6. CASE UNCHANGED vars
    <3>1. TypeOK'
      BY <2>6 DEF vars, TypeOK, StoreType
    <3>. QED
      BY <2>6, <3>1 DEF vars
  <2>. QED
    BY <2>1, <2>2, <2>3, <2>4, <2>5, <2>6, <2>7 DEF Next
<1>. QED
  BY <1>1, InitStep, PTL DEF Spec

\* The types are kept: what the server stores stays an entry of one type with its
\* values, and a result has the texts of values.
THEOREM TypeCorrect == Spec => []TypeOK
<1>1. IInv => TypeOK
  BY DEF IInv
<1>. QED
  BY <1>1, Invariance, PTL

\* What LRem, Del, Expire and Exists return as true was so of the store at the
\* moment the server executed the command; what they return as false was not, or
\* was refused.
THEOREM TestsTellTruth == Spec => []TestTellsTruth
<1>1. IInv => TestTellsTruth
  BY DEF IInv
<1>. QED
  BY <1>1, Invariance, PTL

\* The list of LRange, Sort, MGet and HMGet has the texts of that store, and none
\* if it was refused.
THEOREM ListsTellTruth == Spec => []ListTellsTruth
<1>1. IInv => ListTellsTruth
  BY DEF IInv
<1>. QED
  BY <1>1, Invariance, PTL

\* Crashes are for a lost connection or for a string that was freed before it was
\* read, exceptions for a missing value; a write never crashes.
THEOREM EndedForAReason == Spec => []EndsForAReason
<1>1. IInv => EndsForAReason
  BY DEF IInv
<1>. QED
  BY <1>1, Invariance, PTL

\* A write that returned has written all its values, or was refused and has
\* written none, or the connection was lost before it was executed.
THEOREM WritesAllOrNothing == Spec => []WriteIsAllOrNothing
<1>1. IInv => WriteIsAllOrNothing
  BY DEF IInv
<1>. QED
  BY <1>1, Invariance, PTL
=============================================================================
