---------------------------- MODULE RedisContext ----------------------------
(***************************************************************************)
(* Who owns the hiredis context of a redis::Redis object: construction,    *)
(* copies, moves, assignments, destruction, and commands that use it.      *)
(*                                                                         *)
(* After a use or a second redisFree of a freed context, or a command      *)
(* without one, nothing can be said of the program, and it stops here.     *)
(***************************************************************************)
EXTENDS Naturals

CONSTANTS Object,    \* variables of the program that may hold a Redis
          Context    \* connections there can be, each made once

Null == "nullptr"
Dead == "no object"

ASSUME ContextAssumption == Null \notin Context /\ Dead \notin Context

VARIABLES
  held,         \* context_ of each object, or Dead
  connection,   \* state of each context
  program,      \* "runs" or "undefined"
  shared,       \* history: contexts that two objects held at a time
  overwritten   \* history: contexts whose last holder was assigned over

vars == <<held, connection, program, shared, overwritten>>

Live == {o \in Object : held[o] # Dead}
Holders(c) == {o \in Object : held[o] = c}
Open(c) == connection[c] \in {"connected", "lost"}

Init ==
  /\ held = [o \in Object |-> Dead]
  /\ connection = [c \in Context |-> "unused"]
  /\ program = "runs"
  /\ shared = {} /\ overwritten = {}
-----------------------------------------------------------------------------
\* The result of redisConnect is not looked at: it may be a context that is not
\* connected, or none.
Construct(o) ==
  /\ program = "runs" /\ o \notin Live
  /\ \/ held' = [held EXCEPT ![o] = Null] /\ UNCHANGED connection
     \/ \E c \in Context, s \in {"connected", "lost"} :
          /\ connection[c] = "unused"
          /\ held' = [held EXCEPT ![o] = c]
          /\ connection' = [connection EXCEPT ![c] = s]
  /\ UNCHANGED <<program, shared, overwritten>>

\* Both constructors from another object leave it as it was.
Copy(o, p) ==
  /\ program = "runs" /\ o \notin Live /\ p \in Live
  /\ held' = [held EXCEPT ![o] = held[p]]
  /\ shared' = shared \cup ({held[p]} \cap Context)
  /\ UNCHANGED <<connection, program, overwritten>>

\* Mutation of Assign: the context that is replaced is freed, as it would be by
\* its destructor.
AssignFrees(o, p) ==
  /\ program = "runs" /\ o \in Live /\ p \in Live
  /\ held' = [held EXCEPT ![o] = held[p]]
  /\ connection' = [c \in Context |-> IF c = held[o] THEN "freed" ELSE connection[c]]
  /\ shared' = IF o = p THEN shared ELSE shared \cup ({held[p]} \cap Context)
  /\ UNCHANGED <<program, overwritten>>

\* Both assignments, of an object to itself as well.  The context that o had is
\* neither freed nor given back.
Assign(o, p) ==
  /\ program = "runs" /\ o \in Live /\ p \in Live
  /\ held' = [held EXCEPT ![o] = held[p]]
  /\ shared' = IF o = p THEN shared ELSE shared \cup ({held[p]} \cap Context)
  /\ overwritten' = overwritten \cup
       {c \in Context : held[o] = c /\ held[p] # c /\ Holders(c) = {o}}
  /\ UNCHANGED <<connection, program>>

\* Mutation of Destroy: the context is forgotten.
Forgets(o) ==
  /\ program = "runs" /\ o \in Live
  /\ held' = [held EXCEPT ![o] = Dead]
  /\ UNCHANGED <<connection, program, shared, overwritten>>

Destroy(o) ==
  /\ program = "runs" /\ o \in Live
  /\ held' = [held EXCEPT ![o] = Dead]
  /\ IF held[o] = Null THEN UNCHANGED <<connection, program>>
     ELSE /\ connection' = [connection EXCEPT ![held[o]] = "freed"]
          /\ program' = IF connection[held[o]] = "freed" THEN "undefined" ELSE program
  /\ UNCHANGED <<shared, overwritten>>

\* A command on a context that was freed, or on none.  On an open context it
\* changes nothing here.
Command(o) ==
  /\ program = "runs" /\ o \in Live
  /\ held[o] \in Context => connection[held[o]] = "freed"
  /\ program' = "undefined"
  /\ UNCHANGED <<held, connection, shared, overwritten>>

\* The other end closes, or a command fails.
Lose(c) ==
  /\ program = "runs" /\ connection[c] = "connected"
  /\ connection' = [connection EXCEPT ![c] = "lost"]
  /\ UNCHANGED <<held, program, shared, overwritten>>
-----------------------------------------------------------------------------
Next ==
  \/ \E o \in Object : Construct(o) \/ Destroy(o) \/ Command(o)
  \/ \E o, p \in Object : Copy(o, p) \/ Assign(o, p)
  \/ \E c \in Context : Lose(c)

Spec == Init /\ [][Next]_vars
-----------------------------------------------------------------------------
(* Correctness *)

TypeOK ==
  /\ held \in [Object -> Context \cup {Null, Dead}]
  /\ connection \in [Context -> {"unused", "connected", "lost", "freed"}]
  /\ \A o \in Object : held[o] \in Context => connection[held[o]] # "unused"
  /\ program \in {"runs", "undefined"}
  /\ shared \subseteq Context /\ overwritten \subseteq Context

\* Two objects have one context only if one was made from the other, and a
\* freed context is held only by those that were left of such a sharing.  A
\* program without copies, moves and assignments frees each context once.
OnlySharedDangle ==
  /\ \A c \in Context \ shared : \A o, p \in Holders(c) : o = p
  /\ \A c \in Context : connection[c] = "freed" /\ Holders(c) # {} => c \in shared
  /\ program = "undefined" =>
       \/ \E c \in shared : connection[c] = "freed"
       \/ \E o \in Object : held[o] = Null

\* A context that is not freed has a holder that will, unless the last one was
\* assigned another.
NothingLeaks ==
  \A c \in Context : Open(c) /\ Holders(c) = {} => c \in overwritten
=============================================================================
