--------------------------- MODULE BuildToolProofs ---------------------------
(***************************************************************************)
(* Proofs about BuildTool, for every set of sources and headers and every  *)
(* bound.  The invariant follows the times: what was recorded is never     *)
(* later than the file, and a file whose recorded time is its time is in   *)
(* the object as it is on disk, unless it was edited in the race.          *)
(***************************************************************************)
EXTENDS BuildTool, TLAPS

\* A time that is compared equal after an edit would be the time of an older
\* file, so recorded times must stay behind.
Behind(recorded) == \A f \in File : recorded[f] <= disk[f]

Own(s) == {s} \cup Private(s)

\* The object of s has the file as it is on disk.
Fresh(s, f) == object[s][f] = disk[f]

\* What the recorded times say of own files, and of headers.
OwnRecorded(recorded) ==
  \A s \in Source : \A f \in Own(s) :
    recorded[f] = disk[f] /\ f \notin raced /\ HasObject(s) => Fresh(s, f)
HeaderRecorded(recorded) ==
  \A h \in Header : recorded[h] = disk[h] /\ h \notin raced =>
    \E s \in Source : h \in Includes[s] /\ (Fresh(s, h) \/ ~HasObject(s))

\* Between a compilation and its recording only edits in the race happen.
InHand ==
  phase = "compiled" =>
    HasObject(current) /\ \A f \in Reads(current) : f \notin raced => Fresh(current, f)

\* A build that is not disturbed leaves every source it has looked at fresh.
LookedAt ==
  phase # "idle" /\ quiet =>
    \A s \in Source : s \notin todo \/ (phase = "writing" /\ s = current) =>
      \A f \in Own(s) : f \notin raced => Fresh(s, f)

Recorded ==
  /\ Behind(stamps) /\ Behind(state)
  /\ OwnRecorded(stamps) /\ OwnRecorded(state)
  /\ HeaderRecorded(stamps) /\ HeaderRecorded(state)

\* A build that is going on has not got to the end.
Unfinished == phase # "idle" => ~linked

IInv == TypeOK /\ Recorded /\ InHand /\ LookedAt /\ Unfinished /\ LinkedIsCurrent
-----------------------------------------------------------------------------
\* No time is a time of the range the types allow.
LEMMA NoneType == None \in [File -> 0 .. MaxEdits]
  BY BoundAssumption DEF None

\* Every step keeps the types.
LEMMA TypesStep == TypeOK /\ [Next]_vars => TypeOK'
<1> SUFFICES ASSUME TypeOK, [Next]_vars PROVE TypeOK'
  OBVIOUS
<1> USE BoundAssumption, NoneType DEF TypeOK, builds, script, history, Ends
<1>0. Source \subseteq File /\ \A f \in File : disk[f] \in 0 .. MaxEdits
  BY DEF File
<1>1. ASSUME NEW f \in File, Edit(f) PROVE TypeOK'
  <2>1. disk' \in [File -> 1 .. MaxEdits] /\ raced' \subseteq File
    BY <1>1 DEF Edit
  <2>. QED
    BY <1>1, <2>1 DEF Edit
<1>2. CASE RemoveBuildDirectory
  <2>1. object' \in [Source -> [File -> 0 .. MaxEdits]] /\ mishaps' \in 0 .. MaxMishaps
    BY <1>2 DEF RemoveBuildDirectory
  <2>. QED
    BY <1>2, <2>1 DEF RemoveBuildDirectory
<1>3. CASE Interrupt
  BY <1>3 DEF Interrupt
<1>4. CASE Start
  BY <1>4 DEF Start
<1>5. CASE Record
  <2>1. state' \in [File -> 0 .. MaxEdits]
    BY <1>0, <1>5 DEF Record
  <2>. QED
    BY <1>5, <2>1 DEF Record
<1>6. CASE WriteState
  BY <1>6 DEF WriteState
<1>7. CASE Link
  BY <1>7 DEF Link
<1>8. CASE LinkFails
  <2>1. binary' \in [Source -> [File -> 0 .. MaxEdits]]
    BY <1>8 DEF LinkFails
  <2>. QED
    BY <1>8, <2>1 DEF LinkFails
<1>9. ASSUME NEW s \in Source, Skip(s) PROVE TypeOK'
  BY <1>9 DEF Skip
<1>10. ASSUME NEW s \in Source, Compile(s) PROVE TypeOK'
  <2>1. [f \in File |-> IF f \in Reads(s) THEN disk[f] ELSE 0] \in [File -> 0 .. MaxEdits]
    BY <1>0
  <2>2. object' \in [Source -> [File -> 0 .. MaxEdits]]
    BY <1>10, <2>1 DEF Compile
  <2>. QED
    BY <1>10, <2>2 DEF Compile
<1>11. ASSUME NEW s \in Source, CompileFails(s) PROVE TypeOK'
  <2>1. object' \in [Source -> [File -> 0 .. MaxEdits]]
    BY <1>11 DEF CompileFails
  <2>. QED
    BY <1>11, <2>1 DEF CompileFails
<1>12. CASE UNCHANGED vars
  BY <1>12 DEF vars
<1>. QED
  BY <1>1, <1>2, <1>3, <1>4, <1>5, <1>6, <1>7, <1>8, <1>9, <1>10, <1>11, <1>12
     DEF Next, CompileFile

\* The types hold at the start.
LEMMA InitTypes == Init => TypeOK
<1> SUFFICES ASSUME Init PROVE TypeOK
  OBVIOUS
<1>1. disk \in [File -> 1 .. MaxEdits]
  BY BoundAssumption DEF Init
<1>2. /\ object \in [Source -> [File -> 0 .. MaxEdits]]
      /\ binary \in [Source -> [File -> 0 .. MaxEdits]]
  BY NoneType DEF Init
<1>3. mishaps \in 0 .. MaxMishaps
  BY BoundAssumption DEF Init
<1>. QED
  BY <1>1, <1>2, <1>3, NoneType DEF Init, TypeOK

\* Types hold for every set of files and every bound.
THEOREM TypeCorrect == Spec => []TypeOK
  BY InitTypes, TypesStep, PTL DEF Spec
-----------------------------------------------------------------------------
\* A header that s includes and t does not share is no other file of t.
LEMMA OwnIsNobodyElses ==
  ASSUME TypeOK, NEW s \in Source, NEW t \in Source, NEW f \in Own(s), f \in Reads(t)
  PROVE  s = t
  BY FilesAssumption DEF Own, Private, Reads

\* What is one's own one reads, and it is a file.
LEMMA OwnIsRead ==
  ASSUME NEW s \in Source
  PROVE  Own(s) \subseteq Reads(s) /\ Reads(s) \subseteq File
  BY FilesAssumption DEF Own, Private, Reads, File

\* The objects of a step that compiles: s has what it reads as it is on disk.
LEMMA Compiled ==
  ASSUME TypeOK, NEW s \in Source, Compile(s)
  PROVE  /\ \A f \in Reads(s) : Fresh(s, f)'
         /\ \A t \in Source \ {s} : object'[t] = object[t]
         /\ HasObject(s)'
<1>1. object' = [object EXCEPT ![s] = [f \in File |-> IF f \in Reads(s) THEN disk[f] ELSE 0]]
      /\ disk' = disk
  BY DEF Compile
<1>2. object'[s] = [f \in File |-> IF f \in Reads(s) THEN disk[f] ELSE 0]
      /\ \A t \in Source \ {s} : object'[t] = object[t]
  BY <1>1 DEF TypeOK
<1>3. \A f \in Reads(s) : object'[s][f] = disk'[f]
  BY <1>1, <1>2, OwnIsRead
<1>4. s \in Reads(s) /\ s \in File
  BY DEF Reads, File
<1>5. object'[s][s] # None[s]
  BY <1>1, <1>3, <1>4, BoundAssumption DEF TypeOK, None
<1>. QED
  BY <1>2, <1>3, <1>5 DEF Fresh, HasObject

\* No file has the time of a file that was never recorded.
LEMMA NoneIsNoTime == TypeOK => \A f \in File : None[f] # disk[f] /\ None[f] <= disk[f]
  BY BoundAssumption DEF TypeOK, None

\* Recorded times never run ahead of the files.
LEMMA BehindStep == IInv /\ TypeOK' /\ [Next]_vars => Behind(stamps)' /\ Behind(state)'
<1> SUFFICES ASSUME IInv, TypeOK', [Next]_vars PROVE Behind(stamps)' /\ Behind(state)'
  OBVIOUS
<1> USE DEF IInv, Recorded, Behind, builds, script, history, Ends
<1>0. \A f \in File : /\ disk[f] \in Nat /\ disk'[f] \in Nat
                      /\ stamps[f] \in Nat /\ state[f] \in Nat
  BY BoundAssumption DEF TypeOK
<1>1. ASSUME NEW f \in File, Edit(f) PROVE Behind(stamps)' /\ Behind(state)'
  <2>1. \A g \in File : disk[g] <= disk'[g]
    BY <1>0, <1>1 DEF Edit, TypeOK
  <2>. QED
    BY <1>0, <1>1, <2>1 DEF Edit
<1>2. CASE RemoveBuildDirectory
  BY <1>2, NoneIsNoTime DEF RemoveBuildDirectory
<1>3. CASE Interrupt
  BY <1>3, NoneIsNoTime DEF Interrupt
<1>4. CASE Start
  BY <1>4 DEF Start
<1>5. CASE Record
  BY <1>0, <1>5 DEF Record
<1>6. CASE WriteState
  BY <1>6 DEF WriteState
<1>7. CASE Link
  BY <1>7, NoneIsNoTime DEF Link
<1>8. CASE LinkFails
  BY <1>8, NoneIsNoTime DEF LinkFails
<1>9. ASSUME NEW s \in Source, CompileFile(s) PROVE Behind(stamps)' /\ Behind(state)'
  BY <1>9, NoneIsNoTime DEF CompileFile, Skip, Compile, CompileFails
<1>10. CASE UNCHANGED vars
  BY <1>10 DEF vars
<1>. QED
  BY <1>1, <1>2, <1>3, <1>4, <1>5, <1>6, <1>7, <1>8, <1>9, <1>10 DEF Next

\* An edited file has a time that was never recorded, and of other files
\* nothing changes.
LEMMA EditIsNew ==
  ASSUME IInv, NEW f \in File, Edit(f)
  PROVE  /\ disk'[f] # stamps[f] /\ disk'[f] # state[f]
         /\ \A g \in File \ {f} : disk'[g] = disk[g] /\ (g \in raced' <=> g \in raced)
         /\ UNCHANGED <<builds, script>>
<1>1. disk[f] \in Nat /\ stamps[f] \in Nat /\ state[f] \in Nat
  BY BoundAssumption DEF IInv, TypeOK
<1>2. stamps[f] <= disk[f] /\ state[f] <= disk[f]
  BY DEF IInv, Recorded, Behind
<1>3. disk' = [disk EXCEPT ![f] = @ + 1] /\ raced' \cup {f} = raced \cup {f}
  BY DEF Edit
<1>4. disk'[f] = disk[f] + 1 /\ \A g \in File \ {f} : disk'[g] = disk[g]
  BY <1>3 DEF IInv, TypeOK
<1>. QED
  BY <1>1, <1>2, <1>3, <1>4 DEF Edit

\* What is recorded of own files stays true.
LEMMA OwnStep == IInv /\ [Next]_vars => OwnRecorded(stamps)' /\ OwnRecorded(state)'
<1> SUFFICES ASSUME IInv, [Next]_vars PROVE OwnRecorded(stamps)' /\ OwnRecorded(state)'
  OBVIOUS
<1>0. TypeOK /\ OwnRecorded(stamps) /\ OwnRecorded(state)
  BY DEF IInv, Recorded
<1>a. \A s \in Source : Own(s) \subseteq File
  BY OwnIsRead
<1> USE DEF OwnRecorded, Fresh, HasObject, builds, script, history, Ends
<1>1. ASSUME NEW f \in File, Edit(f) PROVE OwnRecorded(stamps)' /\ OwnRecorded(state)'
  <2>1. UNCHANGED <<object, stamps, state>>
    BY <1>1 DEF Edit
  <2>2. ASSUME NEW s \in Source, NEW g \in Own(s), g # f
        PROVE  disk'[g] = disk[g] /\ (g \in raced' <=> g \in raced)
    BY <1>1, <1>a, <2>2, EditIsNew
  <2>3. disk'[f] # stamps[f] /\ disk'[f] # state[f]
    BY <1>1, EditIsNew
  <2>. QED
    BY <1>0, <2>1, <2>2, <2>3
<1>2. CASE RemoveBuildDirectory
  BY <1>0, <1>2 DEF RemoveBuildDirectory
<1>3. CASE Interrupt
  BY <1>0, <1>3, <1>a, NoneIsNoTime DEF Interrupt
<1>4. CASE Start
  BY <1>0, <1>4 DEF Start
<1>5. CASE Record
  <2>1. UNCHANGED <<disk, object, stamps, raced>> /\ phase = "compiled"
        /\ state' = [f \in File |-> IF f \in Reads(current) THEN disk[f] ELSE state[f]]
    BY <1>5 DEF Record
  <2>2. ASSUME NEW s \in Source, NEW f \in Own(s), f \notin raced, HasObject(s),
               state'[f] = disk[f]
        PROVE  Fresh(s, f)
    <3>1. CASE f \in Reads(current)
      <4>1. s = current
        BY <1>0, <3>1, OwnIsNobodyElses DEF TypeOK
      <4>. QED
        BY <2>1, <2>2, <3>1, <4>1 DEF IInv, InHand
    <3>2. CASE f \notin Reads(current)
      BY <1>0, <1>a, <2>1, <2>2, <3>2
    <3>. QED
      BY <3>1, <3>2
  <2>. QED
    BY <1>0, <2>1, <2>2
<1>6. CASE WriteState
  BY <1>0, <1>6 DEF WriteState
<1>7. CASE Link
  BY <1>0, <1>7, <1>a, NoneIsNoTime DEF Link
<1>8. CASE LinkFails
  BY <1>0, <1>8, <1>a, NoneIsNoTime DEF LinkFails
<1>9. ASSUME NEW s \in Source, Skip(s) PROVE OwnRecorded(stamps)' /\ OwnRecorded(state)'
  BY <1>0, <1>9 DEF Skip
<1>10. ASSUME NEW s \in Source, Compile(s) PROVE OwnRecorded(stamps)' /\ OwnRecorded(state)'
  <2>1. UNCHANGED <<disk, stamps, state, raced>>
    BY <1>10 DEF Compile
  <2>2. /\ \A f \in Own(s) : object'[s][f] = disk'[f]
        /\ \A t \in Source \ {s} : object'[t] = object[t]
    BY <1>0, <1>10, Compiled, OwnIsRead
  <2>. QED
    BY <1>0, <2>1, <2>2
<1>11. ASSUME NEW s \in Source, CompileFails(s) PROVE OwnRecorded(stamps)' /\ OwnRecorded(state)'
  <2>1. UNCHANGED <<disk, stamps, raced>> /\ state' = None
    BY <1>11 DEF CompileFails
  <2>2. \A t \in Source : object'[t] = object[t] \/ object'[t] = None
    BY <1>0, <1>11 DEF CompileFails, TypeOK
  <2>3. OwnRecorded(stamps)'
    BY <1>0, <2>1, <2>2
  <2>4. OwnRecorded(state)'
    BY <1>0, <1>a, <2>1, NoneIsNoTime
  <2>. QED
    BY <2>3, <2>4
<1>12. CASE UNCHANGED vars
  BY <1>0, <1>12 DEF vars
<1>. QED
  BY <1>1, <1>2, <1>3, <1>4, <1>5, <1>6, <1>7, <1>8, <1>9, <1>10, <1>11, <1>12
     DEF Next, CompileFile

\* What is recorded of headers stays true of one that includes them.
LEMMA HeaderStep == IInv /\ [Next]_vars => HeaderRecorded(stamps)' /\ HeaderRecorded(state)'
<1> SUFFICES ASSUME IInv, [Next]_vars PROVE HeaderRecorded(stamps)' /\ HeaderRecorded(state)'
  OBVIOUS
<1>0. TypeOK /\ HeaderRecorded(stamps) /\ HeaderRecorded(state) /\ Header \subseteq File
  BY DEF IInv, Recorded, File
<1> USE DEF HeaderRecorded, Fresh, HasObject, builds, script, history, Ends
<1>1. ASSUME NEW f \in File, Edit(f) PROVE HeaderRecorded(stamps)' /\ HeaderRecorded(state)'
  <2>1. UNCHANGED <<object, stamps, state>>
    BY <1>1 DEF Edit
  <2>2. ASSUME NEW g \in Header, g # f
        PROVE  disk'[g] = disk[g] /\ (g \in raced' <=> g \in raced)
    BY <1>0, <1>1, <2>2, EditIsNew
  <2>3. disk'[f] # stamps[f] /\ disk'[f] # state[f]
    BY <1>1, EditIsNew
  <2>. QED
    BY <1>0, <2>1, <2>2, <2>3
<1>2. CASE RemoveBuildDirectory
  <2>1. UNCHANGED <<disk, state, raced>> /\ stamps' = None
        /\ \A s \in Source : ~HasObject(s)'
    BY <1>2 DEF RemoveBuildDirectory
  <2>. QED
    BY <1>0, <2>1, NoneIsNoTime
<1>3. CASE Interrupt
  BY <1>0, <1>3, NoneIsNoTime DEF Interrupt
<1>4. CASE Start
  BY <1>0, <1>4 DEF Start
<1>5. CASE Record
  <2>1. UNCHANGED <<disk, object, stamps, raced>> /\ phase = "compiled"
        /\ state' = [f \in File |-> IF f \in Reads(current) THEN disk[f] ELSE state[f]]
    BY <1>5 DEF Record
  <2>2. ASSUME NEW h \in Header, h \notin raced, state'[h] = disk[h]
        PROVE  \E s \in Source : h \in Includes[s] /\ (Fresh(s, h) \/ ~HasObject(s))
    <3>1. CASE h \in Reads(current)
      <4>1. current \in Source /\ h \in Includes[current]
        BY <1>0, <3>1, FilesAssumption DEF TypeOK, Reads
      <4>. QED
        BY <2>1, <2>2, <3>1, <4>1 DEF IInv, InHand
    <3>2. CASE h \notin Reads(current)
      BY <1>0, <2>1, <2>2, <3>2
    <3>. QED
      BY <3>1, <3>2
  <2>. QED
    BY <1>0, <2>1, <2>2
<1>6. CASE WriteState
  BY <1>0, <1>6 DEF WriteState
<1>7. CASE Link
  BY <1>0, <1>7, NoneIsNoTime DEF Link
<1>8. CASE LinkFails
  BY <1>0, <1>8, NoneIsNoTime DEF LinkFails
<1>9. ASSUME NEW s \in Source, Skip(s) PROVE HeaderRecorded(stamps)' /\ HeaderRecorded(state)'
  BY <1>0, <1>9 DEF Skip
<1>10. ASSUME NEW s \in Source, Compile(s) PROVE HeaderRecorded(stamps)' /\ HeaderRecorded(state)'
  <2>1. UNCHANGED <<disk, stamps, state, raced>>
    BY <1>10 DEF Compile
  <2>2. /\ \A h \in Includes[s] : object'[s][h] = disk'[h]
        /\ \A t \in Source \ {s} : object'[t] = object[t]
    BY <1>0, <1>10, Compiled DEF Reads
  <2>. QED
    BY <1>0, <2>1, <2>2
<1>11. ASSUME NEW s \in Source, CompileFails(s) PROVE HeaderRecorded(stamps)' /\ HeaderRecorded(state)'
  <2>1. UNCHANGED <<disk, stamps, raced>> /\ state' = None
    BY <1>11 DEF CompileFails
  <2>2. \A t \in Source : object'[t] = object[t] \/ object'[t] = None
    BY <1>0, <1>11 DEF CompileFails, TypeOK
  <2>3. HeaderRecorded(stamps)'
    BY <1>0, <2>1, <2>2
  <2>4. HeaderRecorded(state)'
    BY <1>0, <2>1, NoneIsNoTime
  <2>. QED
    BY <2>3, <2>4
<1>12. CASE UNCHANGED vars
  BY <1>0, <1>12 DEF vars
<1>. QED
  BY <1>1, <1>2, <1>3, <1>4, <1>5, <1>6, <1>7, <1>8, <1>9, <1>10, <1>11, <1>12
     DEF Next, CompileFile

\* The object in hand is fresh but for edits in the race.
LEMMA InHandStep == IInv /\ [Next]_vars => InHand'
<1> SUFFICES ASSUME IInv, [Next]_vars PROVE InHand'
  OBVIOUS
<1>0. TypeOK /\ InHand
  BY DEF IInv
<1> USE DEF InHand, builds, script, history, Ends
<1>1. ASSUME NEW f \in File, Edit(f) PROVE InHand'
  <2>1. UNCHANGED <<object, phase, current>>
        /\ (phase = "compiled" /\ f \in Reads(current) => f \in raced')
    BY <1>1 DEF Edit
  <2>2. ASSUME NEW g \in File, g # f
        PROVE  disk'[g] = disk[g] /\ (g \in raced' <=> g \in raced)
    BY <1>1, <2>2, EditIsNew
  <2>3. Reads(current) \subseteq File /\ Reads(current)' = Reads(current)
    BY <1>0, <2>1, OwnIsRead DEF TypeOK, Reads
  <2>. QED
    BY <1>0, <2>1, <2>2, <2>3 DEF Fresh, HasObject
<1>2. ASSUME NEW s \in Source, Compile(s) PROVE InHand'
  <2>1. current' = s
    BY <1>2 DEF Compile
  <2>. QED
    BY <1>0, <1>2, <2>1, Compiled DEF Reads
<1>3. CASE RemoveBuildDirectory \/ Interrupt \/ Start \/ Record \/ WriteState \/ Link \/ LinkFails
  BY <1>3 DEF RemoveBuildDirectory, Interrupt, Start, Record, WriteState, Link, LinkFails
<1>4. ASSUME NEW s \in Source, Skip(s) \/ CompileFails(s) PROVE InHand'
  BY <1>4 DEF Skip, CompileFails
<1>5. CASE UNCHANGED vars
  BY <1>0, <1>5 DEF vars, Reads, Fresh, HasObject
<1>. QED
  BY <1>1, <1>2, <1>3, <1>4, <1>5 DEF Next, CompileFile

\* A build that nobody disturbs leaves behind it what is fresh.
LEMMA LookedAtStep == IInv /\ [Next]_vars => LookedAt'
<1> SUFFICES ASSUME IInv, [Next]_vars PROVE LookedAt'
  OBVIOUS
<1>0. TypeOK /\ LookedAt
  BY DEF IInv
<1> USE DEF LookedAt, builds, script, history, Ends
<1>1. ASSUME NEW f \in File, Edit(f) PROVE LookedAt'
  BY <1>1 DEF Edit
<1>2. CASE RemoveBuildDirectory \/ Interrupt \/ Link \/ LinkFails
  BY <1>2 DEF RemoveBuildDirectory, Interrupt, Link, LinkFails
<1>3. CASE Start
  BY <1>3 DEF Start
<1>4. CASE Record
  <2>1. UNCHANGED <<disk, object, todo, current, quiet, raced>> /\ phase = "compiled"
    BY <1>4 DEF Record
  <2>2. \A f \in Own(current) : f \notin raced => Fresh(current, f)
    BY <1>0, <2>1, OwnIsRead DEF IInv, InHand, TypeOK
  <2>. QED
    BY <1>0, <2>1, <2>2 DEF Fresh
<1>5. CASE WriteState
  <2>1. UNCHANGED <<disk, object, current, quiet, raced>> /\ phase = "writing"
        /\ todo' = todo \ {current} /\ phase' = "compile"
    BY <1>5 DEF WriteState
  <2>. QED
    BY <1>0, <2>1 DEF Fresh
<1>6. ASSUME NEW s \in Source, Skip(s) PROVE LookedAt'
  <2>1. UNCHANGED <<disk, object, phase, current, quiet, raced>> /\ phase = "compile"
        /\ todo' = todo \ {s} /\ ~NeedsCompile(state, s)
    BY <1>6 DEF Skip
  <2>2. ASSUME NEW f \in Own(s), f \notin raced PROVE Fresh(s, f)
    <3>1. state[f] = disk[f] /\ HasObject(s)
      BY <2>1 DEF NeedsCompile, HeaderChange, Own, Private
    <3>. QED
      BY <2>2, <3>1 DEF IInv, Recorded, OwnRecorded
  <2>. QED
    BY <1>0, <2>1, <2>2 DEF Fresh
<1>7. ASSUME NEW s \in Source, Compile(s) PROVE LookedAt'
  <2>1. UNCHANGED <<disk, todo, quiet, raced>> /\ phase = "compile" /\ phase' = "compiled"
        /\ s \in todo
    BY <1>7 DEF Compile
  <2>2. \A t \in Source \ {s} : object'[t] = object[t]
    BY <1>0, <1>7, Compiled
  <2>. QED
    BY <1>0, <2>1, <2>2 DEF Fresh
<1>8. ASSUME NEW s \in Source, CompileFails(s) PROVE LookedAt'
  BY <1>8 DEF CompileFails
<1>9. CASE UNCHANGED vars
  BY <1>0, <1>9 DEF vars, Fresh
<1>. QED
  BY <1>1, <1>2, <1>3, <1>4, <1>5, <1>6, <1>7, <1>8, <1>9 DEF Next, CompileFile

\* Only Link ends a build with a binary, and it links what was looked at.
LEMMA LinkedStep == IInv /\ [Next]_vars => Unfinished' /\ LinkedIsCurrent'
<1> SUFFICES ASSUME IInv, [Next]_vars PROVE Unfinished' /\ LinkedIsCurrent'
  OBVIOUS
<1>0. TypeOK /\ Unfinished /\ LinkedIsCurrent
  BY DEF IInv
<1> USE DEF Unfinished, LinkedIsCurrent, builds, script, history, Ends
<1>1. ASSUME NEW f \in File, Edit(f) PROVE Unfinished' /\ LinkedIsCurrent'
  BY <1>0, <1>1 DEF Edit
<1>2. CASE RemoveBuildDirectory \/ Interrupt
  BY <1>0, <1>2 DEF RemoveBuildDirectory, Interrupt
<1>3. CASE Start
  BY <1>3 DEF Start
<1>4. CASE Record \/ WriteState
  BY <1>0, <1>4 DEF Record, WriteState
<1>5. CASE Link
  <2>1. UNCHANGED <<disk, quiet, raced>> /\ phase = "compile" /\ phase' = "idle"
        /\ todo = {} /\ binary' = object
    BY <1>5 DEF Link
  <2>2. quiet => \A s \in Source : \A f \in Own(s) : f \notin raced => object[s][f] = disk[f]
    BY <2>1 DEF IInv, LookedAt, Fresh
  <2>. QED
    BY <2>1, <2>2 DEF Own
<1>6. CASE LinkFails
  BY <1>0, <1>6 DEF LinkFails
<1>7. ASSUME NEW s \in Source, CompileFile(s) PROVE Unfinished' /\ LinkedIsCurrent'
  BY <1>0, <1>7 DEF CompileFile, Skip, Compile, CompileFails
<1>8. CASE UNCHANGED vars
  BY <1>0, <1>8 DEF vars
<1>. QED
  BY <1>1, <1>2, <1>3, <1>4, <1>5, <1>6, <1>7, <1>8 DEF Next

\* The invariant holds of every build, however it is interrupted.
THEOREM Invariance == Spec => []IInv
<1>1. Init => IInv
  <2> SUFFICES ASSUME Init PROVE IInv
    OBVIOUS
  <2>1. TypeOK
    BY InitTypes
  <2>2. Recorded
    BY <2>1, NoneIsNoTime, OwnIsRead
       DEF Init, Recorded, Behind, OwnRecorded, HeaderRecorded, File
  <2>3. InHand /\ LookedAt /\ Unfinished /\ LinkedIsCurrent
    BY DEF Init, InHand, LookedAt, Unfinished, LinkedIsCurrent
  <2>. QED
    BY <2>1, <2>2, <2>3 DEF IInv
<1>2. IInv /\ [Next]_vars => IInv'
  <2> SUFFICES ASSUME IInv, [Next]_vars PROVE IInv'
    OBVIOUS
  <2>1. TypeOK'
    BY TypesStep DEF IInv
  <2>. QED
    BY <2>1, BehindStep, OwnStep, HeaderStep, InHandStep, LookedAtStep, LinkedStep
       DEF IInv, Recorded
<1>. QED
  BY <1>1, <1>2, PTL DEF Spec

\* A source or a private header that was changed since it was compiled makes
\* the next build compile it, whatever failed or was interrupted before.
THEOREM NothingIsForgotten == Spec => []NoChangeIsForgotten
<1>1. IInv => NoChangeIsForgotten
  BY DEF IInv, Recorded, OwnRecorded, NoChangeIsForgotten, NeedsCompile, HeaderChange,
         Own, Private, Fresh
<1>. QED
  BY <1>1, Invariance, PTL

\* What the one time of a shared header promises.
THEOREM SharedHeaders == Spec => []ChangeReachesSomeone
<1>1. IInv => ChangeReachesSomeone
  BY DEF IInv, Recorded, HeaderRecorded, ChangeReachesSomeone, Fresh
<1>. QED
  BY <1>1, Invariance, PTL

\* A build that got to the end undisturbed linked what is on disk.
THEOREM LinkIsCurrent == Spec => []LinkedIsCurrent
<1>1. IInv => LinkedIsCurrent
  BY DEF IInv
<1>. QED
  BY <1>1, Invariance, PTL
=============================================================================
