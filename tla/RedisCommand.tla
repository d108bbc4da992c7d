---------------------------- MODULE RedisCommand ----------------------------
(***************************************************************************)
(* The commands of a redis::Redis object whose context is its own: each    *)
(* sends one request, waits for the reply, and makes a result of it.       *)
(*                                                                         *)
(* The server holds a string, a list or a hash of one field under a key.   *)
(* It may refuse a command, other clients change what it holds, and the    *)
(* connection is lost, at any time.                                        *)
(***************************************************************************)
EXTENDS Naturals, Sequences, FiniteSets

CONSTANTS Key, Value,
          CString,      \* of each value what is left of it as a C string
          MaxLength,    \* bound: length of a list
          MaxCalls,     \* bound: commands
          MaxOthers     \* bound: changes by other clients

ASSUME ValueAssumption == CString \in [Value -> Value]
ASSUME BoundAssumption == {MaxLength, MaxCalls, MaxOthers} \subseteq Nat

VARIABLES
  store,       \* what the server has under each key
  connection,  \* "connected" or "lost"
  phase,       \* "idle", "sent", "unsent", or "crashed"
  call,        \* the command under way, or the last one
  reply,       \* of it, once it was executed
  result,      \* what it returned
  calls, others,
  fate,        \* history: what the server did of the call
  before,      \* history: the store when it did
  seen         \* history: the changes by other clients until then

history == <<calls, others, fate, before, seen>>
vars == <<store, connection, phase, call, reply, result, history>>

Entry(type, values) == [type |-> type, values |-> values]
Missing == Entry("none", <<>>)
Nil == "nil"
ASSUME NilAssumption == Nil \notin Value

Pushes == {"LPUSH", "RPUSH"}
Sets == {"SET", "HSET"}
Tests == {"LREM", "DEL", "EXPIRE", "EXISTS"}
Gets == {"GET", "HGET"}
Ranges == {"LRANGE", "SORT"}
Lists == Ranges \cup {"MGET", "HMGET"}
Writes == Pushes \cup Sets \cup {"MSET", "HMSET"}
Methods == Writes \cup Tests \cup Gets \cup Lists
Manies == {"MSET", "HMSET", "MGET", "HMGET"}   \* of any number of values

TypeOf(method) ==
  CASE method \in Pushes \cup Ranges \cup {"LREM"} -> "list"
    [] method \in {"SET", "GET", "MSET", "MGET"} -> "string"
    [] method \in {"HSET", "HGET", "HMSET", "HMGET"} -> "hash"
    [] OTHER -> "any"
-----------------------------------------------------------------------------
(* The server: what it answers a command c, and what it makes of its store s. *)

Answer(kind, integer, elements) ==
  [kind |-> kind, integer |-> integer, elements |-> elements]

WrongType(s, c) ==
  /\ TypeOf(c.method) # "any" /\ c.method \notin {"SET", "MSET", "MGET"}
  /\ s[c.keys[1]].type \notin {"none", TypeOf(c.method)}

\* A command of no values has too few arguments.
MustRefuse(s, c) == c.keys = <<>> \/ WrongType(s, c)

Places(list, v) == {i \in 1 .. Len(list) : list[i] = v}

\* A list without a value: the other places, in their order.
Without(list, v) ==
  LET kept == (1 .. Len(list)) \ Places(list, v)
      n == Cardinality(kept)
      increasing == {p \in [1 .. n -> kept] : \A i, j \in 1 .. n : i < j => p[i] < p[j]}
  IN  {[i \in 1 .. n |-> list[p[i]]] : p \in increasing}

\* The last of several values for a key counts.
Assigned(c, k) ==
  LET i == CHOOSE i \in 1 .. Len(c.keys) :
             c.keys[i] = k /\ \A j \in i + 1 .. Len(c.keys) : c.keys[j] # k
  IN  Entry(TypeOf(c.method), <<c.values[i]>>)

\* What a command leaves under its key, of the entry e that is there.  A list
\* that became empty is removed; so is, at once, a key that is to expire in no
\* time or less, as which a server that does not refuse it may take a time that
\* is beyond its numbers.
Left(c, e) ==
  CASE c.method = "LPUSH"  -> {Entry("list", <<c.values[1]>> \o e.values)}
    [] c.method = "RPUSH"  -> {Entry("list", Append(e.values, c.values[1]))}
    [] c.method = "LREM"   -> {IF rest = <<>> THEN Missing ELSE Entry("list", rest) :
                                 rest \in Without(e.values, c.values[1])}
    [] c.method = "DEL"    -> {Missing}
    [] c.time = "now"      -> {Missing}
    [] c.time = "beyond"   -> {e, Missing}
    [] OTHER -> {e}

Effects(s, c) ==
  IF c.method \in Sets \cup {"MSET", "HMSET"}
  THEN {[j \in Key |-> IF \E i \in 1 .. Len(c.keys) : c.keys[i] = j
                       THEN Assigned(c, j) ELSE s[j]]}
  ELSE {[s EXCEPT ![c.keys[1]] = e] : e \in Left(c, s[c.keys[1]])}

Found(s, c, k) ==
  IF s[k].type = TypeOf(c.method) THEN s[k].values[1] ELSE Nil

\* SORT takes its order from the values or from other keys, and may have any.
Orders(method, list) ==
  IF method # "SORT" THEN {list}
  ELSE LET place == 1 .. Len(list)
       IN  {[i \in place |-> list[p[i]]] :
              p \in {p \in [place -> place] : \A i, j \in place : p[i] = p[j] => i = j}}

Reply(s, c, order) ==
  LET k == c.keys[1]
  IN  CASE c.method = "LREM" ->
             Answer("integer", Cardinality(Places(s[k].values, c.values[1])), <<>>)
        [] c.method \in Tests \ {"LREM"} ->
             Answer("integer", IF s[k] = Missing THEN 0 ELSE 1, <<>>)
        [] c.method \in Gets   -> Answer("string", 0, <<Found(s, c, k)>>)
        [] c.method \in Ranges -> Answer("array", 0, order)
        [] c.method \in {"MGET", "HMGET"} ->
             Answer("array", 0, [i \in 1 .. Len(c.keys) |-> Found(s, c, c.keys[i])])
        [] OTHER -> Answer("status", 0, <<>>)

Replies(s, c) == {Reply(s, c, order) : order \in Orders(c.method, s[c.keys[1]].values)}

Execute ==
  /\ phase = "sent" /\ fate = "none" /\ ~MustRefuse(store, call)
  /\ fate' = "done" /\ before' = store /\ seen' = others
  /\ reply' \in Replies(store, call)
  /\ store' \in Effects(store, call)
  /\ UNCHANGED <<connection, phase, call, result, calls, others>>

\* Any command may be refused: the server is loading, out of memory, cannot save,
\* is a replica, does not take the time of an EXPIRE.
Refuse ==
  /\ phase = "sent" /\ fate = "none"
  /\ fate' = "refused" /\ before' = store /\ seen' = others
  /\ reply' = Answer("error", 0, <<>>)
  /\ UNCHANGED <<store, connection, phase, call, result, calls, others>>

\* Another client writes, or a key expires.
OtherClient(k) ==
  /\ others < MaxOthers /\ others' = others + 1
  /\ \E e \in {Missing} \cup [type : {"string", "list"}, values : {<<v>> : v \in Value}] :
       store' = [store EXCEPT ![k] = e]
  /\ UNCHANGED <<connection, phase, call, reply, result, calls, fate, before, seen>>

Lose ==
  /\ connection = "connected" /\ connection' = "lost"
  /\ UNCHANGED <<store, phase, call, reply, result, history>>
-----------------------------------------------------------------------------
(* The commands *)

Request(method, keys, values, time) ==
  [method |-> method, keys |-> keys, values |-> values, time |-> time]

OneOrTwo(S) == {<<x>> : x \in S} \cup (S \X S)
UpToTwo(S) == {<<>>} \cup OneOrTwo(S)

Requests ==
  {c \in [method : Methods, keys : UpToTwo(Key), values : UpToTwo(Value),
          time : {"none", "later", "now", "beyond"}] :
     /\ c.method \notin Manies => Len(c.keys) = 1
     /\ IF c.method \in Writes \cup {"LREM"} THEN Len(c.values) = Len(c.keys)
        ELSE c.values = <<>>
     /\ c.method \in {"HMSET", "HMGET"} /\ Len(c.keys) = 2 => c.keys[1] = c.keys[2]
     /\ c.method = "EXPIRE" <=> c.time # "none"}

Result(kind, truth, list) == [kind |-> kind, truth |-> truth, list |-> list]
Void == Result("void", FALSE, <<>>)
NoReply == Answer("none", 0, <<>>)

Init ==
  /\ store = [k \in Key |-> Missing] /\ connection = "connected"
  /\ phase = "idle" /\ call \in {Request("DEL", <<k>>, <<>>, "none") : k \in Key}
  /\ reply = NoReply /\ result = Void
  /\ calls = 0 /\ others = 0
  /\ fate = "none" /\ before = store /\ seen = 0

\* A context that failed sends nothing any more.
Send(c) ==
  /\ phase = "idle" /\ calls < MaxCalls
  /\ c.method \in Pushes => Len(store[c.keys[1]].values) < MaxLength
  /\ call' = c /\ calls' = calls + 1
  /\ phase' = IF connection = "connected" THEN "sent" ELSE "unsent"
  /\ fate' = "none" /\ reply' = NoReply /\ before' = store /\ seen' = others
  /\ UNCHANGED <<store, connection, result, others>>

\* What redisCommandArgv returns: the reply, or a null pointer.
Got(r) ==
  /\ phase \in {"sent", "unsent"}
  /\ \/ fate # "none" /\ r = reply
     \/ connection = "lost" /\ r = NoReply

Returns(r) ==
  /\ result' = r /\ phase' = "idle"
  /\ UNCHANGED <<store, connection, call, reply, history>>

\* A null pointer, or memory that was freed, is dereferenced.
Crashes ==
  /\ phase' = "crashed"
  /\ UNCHANGED <<store, connection, call, reply, result, history>>

\* Mutations of Write: the reply is looked at; it is not waited for.
LooksAtReply(r) ==
  /\ Got(r) /\ call.method \in Writes
  /\ IF r = NoReply THEN Crashes ELSE Returns(Void)
ReturnsEarly(r) ==
  phase = "sent" /\ call.method \in Writes /\ Returns(Void)

\* LPush, RPush, Set, MSet, HSet, HMSet: whatever came is freed.
Write(r) == Got(r) /\ call.method \in Writes /\ Returns(Void)

\* Mutation of Test: any number is true.
AnyNumber(r) ==
  /\ Got(r) /\ call.method \in Tests
  /\ IF r = NoReply THEN Crashes
     ELSE Returns(Result("bool", r.integer # 0, <<>>))

\* LRem, Del, Expire, Exists.
Test(r) ==
  /\ Got(r) /\ call.method \in Tests
  /\ IF r = NoReply THEN Crashes
     ELSE Returns(Result("bool", r.integer = 1, <<>>))

\* Get, HGet: the string of a value or of an error is read after the reply was
\* freed, and may be any by then, or not be there to be read; that of a missing
\* value is a null pointer, which makes no string.
Get(r) ==
  /\ Got(r) /\ call.method \in Gets
  /\ \/ r.elements # <<Nil>> /\ Crashes
     \/ r.elements = <<Nil>> /\ Returns(Result("threw", FALSE, <<>>))
     \/ /\ r # NoReply /\ r.elements # <<Nil>>
        /\ \E v \in Value : Returns(Result("text", FALSE, <<v>>))

\* Mutation of List: missing elements are left out.
SkipsMissing(r) ==
  /\ Got(r) /\ call.method \in Lists
  /\ IF r = NoReply THEN Crashes
     ELSE LET found == SelectSeq(r.elements, LAMBDA x : x # Nil)
          IN  Returns(Result("list", FALSE, [i \in 1 .. Len(found) |-> CString[found[i]]]))

\* LRange, Sort, SortBy, MGet, HMGet: a missing element ends the loop with an
\* exception; the reply, which is then not freed, is not kept track of.
List(r) ==
  /\ Got(r) /\ call.method \in Lists
  /\ IF r = NoReply THEN Crashes
     ELSE IF \E i \in 1 .. Len(r.elements) : r.elements[i] = Nil
       THEN Returns(Result("threw", FALSE, <<>>))
     ELSE Returns(Result("list", FALSE, [i \in 1 .. Len(r.elements) |-> CString[r.elements[i]]]))

Receive == \E r \in {reply, NoReply} : Write(r) \/ Test(r) \/ Get(r) \/ List(r)
-----------------------------------------------------------------------------
Next ==
  \/ \E c \in Requests : Send(c)
  \/ Execute \/ Refuse \/ Receive \/ Lose
  \/ \E k \in Key : OtherClient(k)

Spec == Init /\ [][Next]_vars
-----------------------------------------------------------------------------
(* Correctness *)

Entries == [type : {"none", "string", "list", "hash"}, values : Seq(Value)]

StoreType(s) ==
  /\ s \in [Key -> Entries]
  /\ \A k \in Key : s[k].values = <<>> <=> s[k].type = "none"

TypeOK ==
  /\ StoreType(store) /\ StoreType(before)
  /\ connection \in {"connected", "lost"}
  /\ phase \in {"idle", "sent", "unsent", "crashed"}
  /\ call \in Requests
  /\ result.kind \in {"void", "bool", "text", "list", "threw"} /\ result.list \in Seq(Value)
  /\ calls \in 0 .. MaxCalls /\ others \in 0 .. MaxOthers
  /\ fate \in {"none", "done", "refused"} /\ seen \in 0 .. others

\* What a test asks of a store: the key is there, or, for LRem, the value is,
\* exactly once.
Holds(s, c) ==
  LET e == s[c.keys[1]]
      places == Places(e.values, c.values[1])
  IN  IF c.method # "LREM" THEN e # Missing
      ELSE e.type = "list" /\ \E i \in places : places = {i}

\* What is true was so of the store when the server executed the command.  What is
\* false was not so, or was refused, whatever the store was: nothing else is ever
\* false, and neither comes of a lost connection.
TestTellsTruth ==
  phase = "idle" /\ result.kind = "bool" =>
    /\ fate # "none"
    /\ result.truth <=> fate = "done" /\ Holds(before, call)

\* The texts a command asks of a store: of the list in its order, or in the order
\* of a SORT, or of one value for each key in the order they were asked for.  Of
\* a value with a NUL the text ends there.
AreTexts(s, c, texts) ==
  LET ofEach(values) == /\ Len(texts) = Len(values)
                        /\ \A i \in 1 .. Len(values) : texts[i] = CString[values[i]]
  IN  IF c.method \in Ranges
      THEN \E order \in Orders(c.method, s[c.keys[1]].values) : ofEach(order)
      ELSE /\ \A i \in 1 .. Len(c.keys) : s[c.keys[i]].type = TypeOf(c.method)
           /\ ofEach([i \in 1 .. Len(c.keys) |-> s[c.keys[i]].values[1]])

\* A list has the texts of what the server had when it executed the command, and
\* none if the command was refused.
ListTellsTruth ==
  phase = "idle" /\ result.kind = "list" =>
    \/ fate = "done" /\ AreTexts(before, call, result.list)
    \/ fate = "refused" /\ result.list = <<>>

\* The server has what a Get asks for.
HasValue(s, c) == s[c.keys[1]].type = TypeOf(c.method)

\* A command crashes for a lost connection or, if it is a Get or HGet, because the
\* reply it freed had a string; a write never does.  Only a value that the server
\* did not have makes a command throw, and never gives a text.
EndsForAReason ==
  /\ phase = "crashed" =>
       /\ call.method \notin Writes
       /\ \/ connection = "lost"
          \/ /\ call.method \in Gets
             /\ \/ fate = "refused"
                \/ fate = "done" /\ HasValue(before, call)
  /\ phase = "idle" /\ result.kind = "threw" =>
       /\ fate = "done"
       /\ \E i \in 1 .. Len(call.keys) : before[call.keys[i]].type # TypeOf(call.method)
  /\ phase = "idle" /\ result.kind = "text" =>
       fate = "refused" \/ (fate = "done" /\ HasValue(before, call))

\* The store s is the store t with the values of c in it, the last for each key,
\* and no other change.
IsWritten(s, t, c) ==
  /\ \A k \in Key : (\A i \in 1 .. Len(c.keys) : c.keys[i] # k) => s[k] = t[k]
  /\ \A i \in 1 .. Len(c.keys) :
       LET new == s[c.keys[i]].values
           old == t[c.keys[i]].values
           isLast == \A j \in i + 1 .. Len(c.keys) : c.keys[j] # c.keys[i]
       IN  /\ s[c.keys[i]].type = TypeOf(c.method)
           /\ CASE c.method = "LPUSH" -> new[1] = c.values[i] /\ Tail(new) = old
                [] c.method = "RPUSH" -> new = Append(old, c.values[i])
                [] OTHER -> isLast => new = <<c.values[i]>>

\* A write that returned was executed and has written all its values; or it was
\* refused, and has written none; or the connection was lost, and the server did
\* not execute it until then.  The program is not told which, and until another
\* client changes it the store is as the write has left it.
WriteIsAllOrNothing ==
  phase = "idle" /\ calls > 0 /\ result = Void =>
    CASE fate = "done" -> others = seen => IsWritten(store, before, call)
      [] fate = "refused" -> others = seen => store = before
      [] fate = "none" -> connection = "lost"
=============================================================================
