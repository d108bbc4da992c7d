------------------------- MODULE RedisContextProofs -------------------------
(***************************************************************************)
(* Proofs about RedisContext, for every set of objects and contexts.       *)
(***************************************************************************)
EXTENDS RedisContext, TLAPS

IInv == TypeOK /\ OnlySharedDangle /\ NothingLeaks

\* Types, of which that nobody holds a context that was not made yet.
LEMMA TypesStep == TypeOK /\ [Next]_vars => TypeOK'
<1> SUFFICES ASSUME TypeOK, [Next]_vars PROVE TypeOK'
  OBVIOUS
<1> USE ContextAssumption DEF TypeOK, Live
<1>1. ASSUME NEW o \in Object, Construct(o) PROVE TypeOK'
  BY ZenonT(30), <1>1 DEF Construct, Null, Dead
<1>2. ASSUME NEW o \in Object, Destroy(o) PROVE TypeOK'
  BY <1>2 DEF Destroy
<1>3. ASSUME NEW o \in Object, Command(o) PROVE TypeOK'
  BY <1>3 DEF Command
<1>4. ASSUME NEW o \in Object, NEW p \in Object, Copy(o, p) PROVE TypeOK'
  BY <1>4 DEF Copy
<1>5. ASSUME NEW o \in Object, NEW p \in Object, Assign(o, p) PROVE TypeOK'
  BY <1>5 DEF Assign
<1>6. ASSUME NEW c \in Context, Lose(c) PROVE TypeOK'
  BY <1>6 DEF Lose
<1>7. CASE UNCHANGED vars
  BY <1>7 DEF vars
<1>. QED
  BY <1>1, <1>2, <1>3, <1>4, <1>5, <1>6, <1>7 DEF Next

\* No step makes a second holder, or frees under one, but of a shared context.
LEMMA DangleStep == IInv /\ [Next]_vars => OnlySharedDangle'
<1> SUFFICES ASSUME IInv, [Next]_vars PROVE OnlySharedDangle'
  OBVIOUS
<1>0. TypeOK /\ OnlySharedDangle
  BY DEF IInv
<1> USE <1>0, ContextAssumption DEF OnlySharedDangle, Holders, TypeOK, Live
<1>1. ASSUME NEW o \in Object, Construct(o) PROVE OnlySharedDangle'
  <2>1. CASE held' = [held EXCEPT ![o] = Null] /\ UNCHANGED connection
    BY <1>1, <2>1 DEF Construct
  <2>2. ASSUME NEW c \in Context, connection[c] = "unused", held' = [held EXCEPT ![o] = c],
               NEW s \in {"connected", "lost"}, connection' = [connection EXCEPT ![c] = s]
        PROVE  OnlySharedDangle'
    <3>1. \A p \in Object : held[p] # c
      BY <2>2
    <3>. QED
      BY <1>1, <2>2, <3>1 DEF Construct
  <2>. QED
    BY <1>1, <2>1, <2>2 DEF Construct
<1>2. ASSUME NEW o \in Object, Destroy(o) PROVE OnlySharedDangle'
  <2>1. CASE held[o] = Null
    BY <1>2, <2>1 DEF Destroy
  <2>2. CASE held[o] # Null
    <3>1. held[o] \in Context /\ connection' = [connection EXCEPT ![held[o]] = "freed"]
          /\ held' = [held EXCEPT ![o] = Dead] /\ UNCHANGED shared
          /\ program' = IF connection[held[o]] = "freed" THEN "undefined" ELSE "runs"
      BY <1>2, <2>2 DEF Destroy
    <3>2. \A c \in Context \ shared : \A p, q \in Object :
            held'[p] = c /\ held'[q] = c => p = q
      BY <3>1
    <3>3. ASSUME NEW c \in Context, connection'[c] = "freed", NEW p \in Object, held'[p] = c
          PROVE  c \in shared
      BY <3>1, <3>3
    <3>4. program' = "undefined" => held[o] \in shared /\ connection'[held[o]] = "freed"
      BY <3>1
    <3>. QED
      BY <3>1, <3>2, <3>3, <3>4
  <2>. QED
    BY <2>1, <2>2
<1>3. ASSUME NEW o \in Object, Command(o) PROVE OnlySharedDangle'
  BY <1>3 DEF Command
<1>4. ASSUME NEW o \in Object, NEW p \in Object, Copy(o, p) PROVE OnlySharedDangle'
  BY <1>4 DEF Copy
<1>5. ASSUME NEW o \in Object, NEW p \in Object, Assign(o, p) PROVE OnlySharedDangle'
  BY <1>5 DEF Assign
<1>6. ASSUME NEW c \in Context, Lose(c) PROVE OnlySharedDangle'
  BY <1>6 DEF Lose
<1>7. CASE UNCHANGED vars
  BY <1>7 DEF vars
<1>. QED
  BY <1>1, <1>2, <1>3, <1>4, <1>5, <1>6, <1>7 DEF Next

\* Only an assignment takes the last holder from an open context.
LEMMA LeakStep == IInv /\ [Next]_vars => NothingLeaks'
<1> SUFFICES ASSUME IInv, [Next]_vars PROVE NothingLeaks'
  OBVIOUS
<1>0. TypeOK /\ NothingLeaks
  BY DEF IInv
<1> USE <1>0, ContextAssumption DEF NothingLeaks, Holders, Open, TypeOK, Live
<1>1. ASSUME NEW o \in Object, Construct(o) PROVE NothingLeaks'
  BY <1>1 DEF Construct
<1>2. ASSUME NEW o \in Object, Destroy(o) PROVE NothingLeaks'
  BY <1>2 DEF Destroy
<1>3. ASSUME NEW o \in Object, Command(o) PROVE NothingLeaks'
  BY <1>3 DEF Command
<1>4. ASSUME NEW o \in Object, NEW p \in Object, Copy(o, p) PROVE NothingLeaks'
  BY <1>4 DEF Copy
<1>5. ASSUME NEW o \in Object, NEW p \in Object, Assign(o, p) PROVE NothingLeaks'
  BY <1>5 DEF Assign
<1>6. ASSUME NEW c \in Context, Lose(c) PROVE NothingLeaks'
  BY <1>6 DEF Lose
<1>7. CASE UNCHANGED vars
  BY <1>7 DEF vars
<1>. QED
  BY <1>1, <1>2, <1>3, <1>4, <1>5, <1>6, <1>7 DEF Next

\* The three together are inductive.
THEOREM Invariance == Spec => []IInv
<1>1. Init => IInv
  BY ContextAssumption
     DEF Init, IInv, TypeOK, OnlySharedDangle, NothingLeaks, Holders, Open, Null, Dead
<1>2. IInv /\ [Next]_vars => IInv'
  BY TypesStep, DangleStep, LeakStep DEF IInv
<1>. QED
  BY <1>1, <1>2, PTL DEF Spec

\* A context that no two objects shared is not used after it was freed, and not
\* freed twice.
THEOREM UnsharedIsSafe == Spec => []OnlySharedDangle
<1>1. IInv => OnlySharedDangle
  BY DEF IInv
<1>. QED
  BY <1>1, Invariance, PTL

\* A context is lost to the program only by an assignment over its last holder.
THEOREM LeaksAreOverwritten == Spec => []NothingLeaks
<1>1. IInv => NothingLeaks
  BY DEF IInv
<1>. QED
  BY <1>1, Invariance, PTL
=============================================================================
