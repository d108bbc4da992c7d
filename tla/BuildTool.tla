------------------------------ MODULE BuildTool ------------------------------
(***************************************************************************)
(* The build script src/app: it compiles the sources whose file, object or *)
(* headers changed since the times it recorded in build.json, and links.   *)
(*                                                                         *)
(* Files are edited, compilations and links fail, and the script is        *)
(* interrupted, at any point between the system calls of a build.  The     *)
(* time of a file is the number of the edit that made it what it is.       *)
(***************************************************************************)
EXTENDS Naturals

CONSTANTS Source, Header,
          Includes,     \* the headers a source includes, as the script sees them
          MaxEdits,     \* bound: edits of each file
          MaxMishaps    \* bound: interruptions, and removals of the build directory

File == Source \cup Header

ASSUME FilesAssumption ==
  /\ Source \cap Header = {}
  /\ Includes \in [Source -> SUBSET Header]
ASSUME BoundAssumption == MaxEdits \in Nat \ {0} /\ MaxMishaps \in Nat

VARIABLES
  disk,      \* time of each file
  object,    \* for each source, the times of the files its object was made from
  binary,    \* the same of the objects that were linked last
  stamps,    \* build.json on disk: the recorded time of each file, 0 for none
  broken,    \* build.json was cut short by an interruption
  state,     \* build_state, the copy of it in a running script
  phase,     \* what the script does next
  todo,      \* sources it has still to look at
  current,   \* the source it compiled last
  linked,    \* the last build got to the end
  quiet,     \* nothing was edited since that build began
  raced,     \* files last edited between a compilation and its recording
  mishaps

builds == <<object, binary, stamps, broken>>
script == <<state, phase, todo, current>>
history == <<linked, quiet, raced, mishaps>>
vars == <<disk, builds, script, history>>

None == [f \in File |-> 0]
Reads(s) == {s} \cup Includes[s]
HasObject(s) == object[s] # None

\* The script ends, and its memory with it.
Ends ==
  /\ phase' = "idle" /\ state' = None /\ todo' = {}
  /\ UNCHANGED current

Init ==
  /\ disk = [f \in File |-> 1]
  /\ object = [s \in Source |-> None] /\ binary = [s \in Source |-> None]
  /\ stamps = None /\ broken = FALSE
  /\ state = None /\ phase = "idle" /\ todo = {} /\ current \in Source
  /\ linked = FALSE /\ quiet = FALSE /\ raced = {} /\ mishaps = 0
-----------------------------------------------------------------------------
(* Around the script *)

Edit(f) ==
  /\ disk[f] < MaxEdits
  /\ disk' = [disk EXCEPT ![f] = @ + 1]
  /\ quiet' = FALSE
  /\ raced' = IF phase = "compiled" /\ f \in Reads(current)
                THEN raced \cup {f} ELSE raced \ {f}
  /\ UNCHANGED <<builds, script, linked, mishaps>>

RemoveBuildDirectory ==
  /\ phase = "idle" /\ mishaps < MaxMishaps
  /\ mishaps' = mishaps + 1
  /\ object' = [s \in Source |-> None]
  /\ stamps' = None /\ broken' = FALSE
  /\ UNCHANGED <<disk, binary, script, linked, quiet, raced>>

Interrupt ==
  /\ phase # "idle" /\ mishaps < MaxMishaps
  /\ mishaps' = mishaps + 1
  /\ Ends
  /\ UNCHANGED <<disk, builds, linked, quiet, raced>>
-----------------------------------------------------------------------------
(* The script *)

\* build and read_config.  A build.json that was cut short is not read: the
\* script ends with the exception of the JSON reader.
Start ==
  /\ phase = "idle" /\ ~broken
  /\ state' = stamps
  /\ todo' = Source
  /\ phase' = "compile"
  /\ linked' = FALSE /\ quiet' = TRUE
  /\ UNCHANGED <<disk, builds, current, raced, mishaps>>

HeaderChange(recorded, s) == \E h \in Includes[s] : disk[h] # recorded[h]

\* Mutation of NeedsCompile: the object is not looked for.
NeedsTime(recorded, s) == disk[s] # recorded[s] \/ HeaderChange(recorded, s)

\* check_file_change or check_header_change.
NeedsCompile(recorded, s) ==
  disk[s] # recorded[s] \/ ~HasObject(s) \/ HeaderChange(recorded, s)

Skip(s) ==
  /\ phase = "compile" /\ s \in todo /\ ~NeedsCompile(state, s)
  /\ todo' = todo \ {s}
  /\ UNCHANGED <<disk, builds, state, phase, current, history>>

Compile(s) ==
  /\ phase = "compile" /\ s \in todo /\ NeedsCompile(state, s)
  /\ object' = [object EXCEPT ![s] = [f \in File |-> IF f \in Reads(s) THEN disk[f] ELSE 0]]
  /\ current' = s
  /\ phase' = "compiled"
  /\ UNCHANGED <<disk, binary, stamps, broken, state, todo, history>>

\* Mutations of CompileFails: the build goes on; the failure is recorded.
GoesOn(s) ==
  /\ phase = "compile" /\ s \in todo /\ NeedsCompile(state, s)
  /\ todo' = todo \ {s}
  /\ UNCHANGED <<disk, builds, state, phase, current, history>>
RecordsFailure(s) ==
  /\ phase = "compile" /\ s \in todo /\ NeedsCompile(state, s)
  /\ stamps' = [stamps EXCEPT ![s] = disk[s]]
  /\ Ends
  /\ UNCHANGED <<disk, object, binary, broken, history>>

\* The exception ends the build; the compiler may have removed the object.
CompileFails(s) ==
  /\ phase = "compile" /\ s \in todo /\ NeedsCompile(state, s)
  /\ object' \in {object, [object EXCEPT ![s] = None]}
  /\ Ends
  /\ UNCHANGED <<disk, binary, stamps, broken, history>>

\* Mutation of Record: the times of all headers.
RecordsEverything ==
  /\ phase = "compiled"
  /\ state' = [f \in File |-> IF f = current \/ f \in Header THEN disk[f] ELSE state[f]]
  /\ broken' = TRUE
  /\ phase' = "writing"
  /\ UNCHANGED <<disk, object, binary, stamps, todo, current, history>>

\* The times are those of now, not those when the compiler read the files.
\* Opening build.json for writing empties it.
Record ==
  /\ phase = "compiled"
  /\ state' = [f \in File |-> IF f \in Reads(current) THEN disk[f] ELSE state[f]]
  /\ broken' = TRUE
  /\ phase' = "writing"
  /\ UNCHANGED <<disk, object, binary, stamps, todo, current, history>>

WriteState ==
  /\ phase = "writing"
  /\ stamps' = state /\ broken' = FALSE
  /\ todo' = todo \ {current}
  /\ phase' = "compile"
  /\ UNCHANGED <<disk, object, binary, state, current, history>>

Link ==
  /\ phase = "compile" /\ todo = {} /\ \A s \in Source : HasObject(s)
  /\ binary' = object
  /\ linked' = TRUE
  /\ Ends
  /\ UNCHANGED <<disk, object, stamps, broken, quiet, raced, mishaps>>

\* The failure is returned to a caller that ignores it; the linker may have
\* removed the binary.
LinkFails ==
  /\ phase = "compile" /\ todo = {}
  /\ binary' \in {binary, [s \in Source |-> None]}
  /\ Ends
  /\ UNCHANGED <<disk, object, stamps, broken, history>>
-----------------------------------------------------------------------------
CompileFile(s) == Skip(s) \/ Compile(s) \/ CompileFails(s)

Next ==
  \/ \E f \in File : Edit(f)
  \/ RemoveBuildDirectory \/ Interrupt
  \/ Start \/ Record \/ WriteState \/ Link \/ LinkFails
  \/ \E s \in Source : CompileFile(s)

Spec == Init /\ [][Next]_vars

\* Somebody builds again and again, a started build goes on, and neither the
\* compiler nor the linker fails for ever.
Fairness ==
  /\ WF_vars(Start) /\ WF_vars(Record) /\ WF_vars(WriteState) /\ SF_vars(Link)
  /\ \A s \in Source : WF_vars(Skip(s)) /\ SF_vars(Compile(s))

FairSpec == Spec /\ Fairness
-----------------------------------------------------------------------------
(* Correctness *)

TypeOK ==
  /\ disk \in [File -> 1 .. MaxEdits]
  /\ object \in [Source -> [File -> 0 .. MaxEdits]]
  /\ binary \in [Source -> [File -> 0 .. MaxEdits]]
  /\ stamps \in [File -> 0 .. MaxEdits] /\ state \in [File -> 0 .. MaxEdits]
  /\ phase \in {"idle", "compile", "compiled", "writing"}
  /\ todo \subseteq Source /\ current \in Source
  /\ phase \in {"compiled", "writing"} => current \in todo
  /\ broken \in BOOLEAN /\ linked \in BOOLEAN /\ quiet \in BOOLEAN
  /\ raced \subseteq File /\ mishaps \in 0 .. MaxMishaps

\* Headers that no other source includes.
Private(s) == {h \in Includes[s] : \A t \in Source : h \in Includes[t] => t = s}

\* What no build would compile again is compiled from what is on disk: the
\* source and its private headers, unless they were edited between a
\* compilation and its recording.  Interruptions and failures do not matter.
NoChangeIsForgotten ==
  \A s \in Source : ~broken /\ ~NeedsCompile(stamps, s) =>
    \A f \in {s} \cup Private(s) : f \notin raced => object[s][f] = disk[f]

\* Of a header that several sources include the script keeps one time: of a
\* change it promises only that one of them was compiled with it.
ChangeReachesSomeone ==
  \A h \in Header : ~broken /\ stamps[h] = disk[h] /\ h \notin raced =>
    \E s \in Source : h \in Includes[s] /\ (object[s][h] = disk[h] \/ ~HasObject(s))

\* After a build that got to the end undisturbed, the binary is made from what
\* is on disk, with the same exceptions.
LinkedIsCurrent ==
  linked /\ quiet =>
    \A s \in Source : \A f \in {s} \cup Private(s) : f \notin raced => binary[s][f] = disk[f]

\* Again and again the binary has every source as it was last edited, but for
\* edits that raced, and unless build.json was cut short, after which nothing is
\* built until somebody removes it.
EditsAreBuilt ==
  \A s \in Source : []<>((broken /\ phase = "idle") \/ s \in raced \/ binary[s][s] = disk[s])
=============================================================================
