--------------------------- MODULE ServerLifecycle ---------------------------
(***************************************************************************)
(* What the server promises, without operations, handlers or descriptors:  *)
(* a connection is taken into service only while the server is up, gets at *)
(* most one reply, and a stop ends every conversation before the server is *)
(* down.  HttpServer implements this specification.                        *)
(***************************************************************************)
CONSTANT Conn

VARIABLES server,   \* "up", "stopping", "down", or "failed" by an exception
          conv      \* the conversation with each client

vars == <<server, conv>>

Live == {"waiting", "serving", "replying"}

Init ==
  /\ server = "up"
  /\ conv = [c \in Conn |-> "absent"]

Move(c, from, to) ==
  /\ conv[c] = from
  /\ conv' = [conv EXCEPT ![c] = to]
  /\ UNCHANGED server

Connect(c) == server = "up" /\ Move(c, "absent", "waiting")
Serve(c) == server = "up" /\ Move(c, "waiting", "serving")
Reply(c) == server = "up" /\ Move(c, "serving", "replying")
End(c) == server = "up" /\ \E from \in {"serving", "replying"} : Move(c, from, "closed")

\* A stop ends every conversation in service at once, and refuses the waiting
\* ones except those already on their way in, which Drop ends later.
Shutdown ==
  /\ server = "up"
  /\ server' = "stopping"
  /\ \E late \in SUBSET {c \in Conn : conv[c] = "waiting"} :
       conv' = [c \in Conn |-> IF conv[c] \in Live /\ c \notin late
                                 THEN "closed" ELSE conv[c]]

Drop ==
  /\ server = "stopping"
  /\ conv' = [c \in Conn |-> IF conv[c] \in Live THEN "closed" ELSE conv[c]]
  /\ UNCHANGED server

GoDown ==
  /\ server = "stopping" /\ \A c \in Conn : conv[c] \notin Live
  /\ server' = "down"
  /\ UNCHANGED conv

Fail ==
  /\ server \in {"up", "stopping"}
  /\ server' = "failed"
  /\ UNCHANGED conv

Next ==
  \/ Shutdown \/ Drop \/ GoDown \/ Fail
  \/ \E c \in Conn : Connect(c) \/ Serve(c) \/ Reply(c) \/ End(c)

Spec == Init /\ [][Next]_vars

\* A server that is stopping goes down, whatever its clients do.
FairSpec == Spec /\ WF_vars(Drop) /\ WF_vars(GoDown)
=============================================================================
