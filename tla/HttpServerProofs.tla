-------------------------- MODULE HttpServerProofs --------------------------
(***************************************************************************)
(* Proofs about HttpServer, for every set of connections and every bound:  *)
(* its type invariant, its safety invariants, its action properties, and   *)
(* that it implements ServerLifecycle.                                     *)
(*                                                                         *)
(* The inductive invariant has three layers, each inductive relative to    *)
(* the ones before it: the types, the life of sockets and operations, and  *)
(* what StopAll and the write handler leave behind.                        *)
(***************************************************************************)
EXTENDS HttpServer, TLAPS

\* Chunks are neither duplicated nor invented on their way to the parser.
ChunksConserved == \A c \in Conn : unsent[c] + inbuf[c] <= MaxChunks

Types == TypeOK /\ ChunksConserved

\* Operations belong to connection objects, whose sockets are open or were
\* closed under them; only those that were closed abort an operation.
OperationsBelong ==
  \A c \in Conn :
    /\ Busy(c) => sock[c] \in {"open", "closed"}
    /\ \A k \in Kind : op[c][k] = "aborted" => sock[c] = "closed"

\* A connection first shakes hands and reads, then writes.
Phases ==
  \A c \in Conn :
    /\ response[c] = "none" => op[c]["write"] = "none" /\ sock[c] # "shut"
    /\ response[c] # "none" =>
         /\ op[c]["handshake"] = "none" /\ op[c]["read"] = "none"
         /\ sock[c] \in {"open", "shut", "closed"}

Sockets ==
  OpenIsManaged /\ AcceptedIsCarried /\ OneOperation /\ OperationsBelong /\ Phases

\* The acceptor is open until the signal handler ran, and run() returns after.
StopClosesAcceptor ==
  /\ listening <=> signal # "handled"
  /\ loop = "returned" => signal = "handled"

Remains ==
  /\ PendingIsManaged /\ RetainedOnlyAfterSecureWrite
  /\ StoppedStaysStopped /\ StopClosesAcceptor

IInv == Types /\ Sockets /\ Remains
-----------------------------------------------------------------------------
\* The types are inductive together with the conservation of chunks, which
\* bounds the receive buffer.
LEMMA TypesStep == Types /\ [Next]_vars => Types'
<1> SUFFICES ASSUME Types, [Next]_vars PROVE Types'
  OBVIOUS
<1> USE SecureAssumption, BoundAssumption
    DEF Types, TypeOK, ChunksConserved, Kind, Done, OpState, SockState, Response
<1>1. CASE Run
  BY <1>1 DEF Run, clientVars
<1>2. CASE RunReturns
  BY <1>2 DEF RunReturns, clientVars
<1>3. CASE SignalArrives
  BY <1>3 DEF SignalArrives, clientVars
<1>4. CASE StopAll
  BY ZenonT(30), <1>4 DEF StopAll, CloseAll, Cancelled, clientVars
<1>5. CASE CompleteAcceptError
  BY <1>5 DEF CompleteAcceptError, clientVars
<1>6. CASE AcceptAfterClose
  BY <1>6 DEF AcceptAfterClose, clientVars
<1>7. CASE AcceptAgain
  BY <1>7 DEF AcceptAgain, clientVars
<1>8. ASSUME NEW c \in Conn, ClientConnect(c) PROVE Types'
  BY <1>8 DEF ClientConnect, serverVars, clientVars
<1>9. ASSUME NEW c \in Conn, ClientSend(c) PROVE Types'
  BY <1>9 DEF ClientSend, serverVars, clientVars
<1>10. ASSUME NEW c \in Conn, ClientLeave(c) PROVE Types'
  BY <1>10 DEF ClientLeave, serverVars, clientVars
<1>11. ASSUME NEW c \in Conn, CompleteAccept(c) PROVE Types'
  BY <1>11 DEF CompleteAccept, clientVars
<1>12. ASSUME NEW c \in Conn, CompleteHandshake(c) PROVE Types'
  <2>1. CASE op' = [op EXCEPT ![c]["handshake"] = "ok"] /\ UNCHANGED <<peer, inbuf>>
    BY <1>12, <2>1 DEF CompleteHandshake, serverVars
  <2>2. CASE /\ op' = [op EXCEPT ![c]["handshake"] = "failed"]
             /\ peer' = [peer EXCEPT ![c] = "gone"]
             /\ inbuf' = [inbuf EXCEPT ![c] = 0]
    BY <1>12, <2>2 DEF CompleteHandshake, serverVars
  <2>. QED
    BY <1>12, <2>1, <2>2 DEF CompleteHandshake
<1>13. ASSUME NEW c \in Conn, CompleteRead(c) PROVE Types'
  <2>1. ASSUME NEW n \in 1 .. inbuf[c],
               inbuf' = [inbuf EXCEPT ![c] = @ - n],
               op' = [op EXCEPT ![c]["read"] = "ok"]
        PROVE  Types'
    BY <1>13, <2>1 DEF CompleteRead, serverVars
  <2>2. CASE op' = [op EXCEPT ![c]["read"] = "failed"] /\ UNCHANGED inbuf
    BY <1>13, <2>2 DEF CompleteRead, serverVars
  <2>. QED
    BY <1>13, <2>1, <2>2 DEF CompleteRead
<1>14. ASSUME NEW c \in Conn, CompleteWrite(c) PROVE Types'
  BY <1>14 DEF CompleteWrite, serverVars, clientVars
<1>15. ASSUME NEW c \in Conn, AcceptStart(c) PROVE Types'
  BY <1>15 DEF AcceptStart, Start, FirstOp, clientVars
<1>16. ASSUME NEW c \in Conn, HandshakeDone(c) PROVE Types'
  BY <1>16 DEF HandshakeDone, Continue, Initiated, clientVars
<1>17. ASSUME NEW c \in Conn, ReadAborted(c) PROVE Types'
  BY <1>17 DEF ReadAborted, Finish, clientVars
<1>18. ASSUME NEW c \in Conn, ReadFailed(c) PROVE Types'
  BY <1>18 DEF ReadFailed, Stop, Cancelled, clientVars
<1>19. ASSUME NEW c \in Conn, ReadMore(c) PROVE Types'
  BY <1>19 DEF ReadMore, Continue, Initiated, clientVars
<1>20. ASSUME NEW c \in Conn, Answer(c) PROVE Types'
  BY <1>20 DEF Answer, Continue, Initiated, clientVars
<1>21. ASSUME NEW c \in Conn, HandlerThrows(c) PROVE Types'
  BY <1>21 DEF HandlerThrows, Finish, clientVars
<1>22. ASSUME NEW c \in Conn, WriteDone(c) PROVE Types'
  <2>1. CASE StopsAfterWrite(op[c]["write"])
    <3>1. Stop(c, "write")
      BY <1>22, <2>1 DEF WriteDone
    <3>. QED
      BY <1>22, <3>1 DEF WriteDone, Stop, Cancelled, clientVars
  <2>2. CASE ~StopsAfterWrite(op[c]["write"])
    <3>1. /\ op' = [op EXCEPT ![c]["write"] = "none"]
          /\ sock' = [sock EXCEPT ![c] = IF op[c]["write"] = "ok" /\ @ = "open"
                                           THEN "shut" ELSE @]
          /\ UNCHANGED managed
      BY <1>22, <2>2 DEF WriteDone
    <3>. QED
      BY <1>22, <2>2, <3>1 DEF WriteDone, StopsAfterWrite, clientVars
  <2>. QED
    BY <2>1, <2>2
<1>23. CASE UNCHANGED vars
  BY <1>23 DEF vars
<1>. QED
  BY <1>1, <1>2, <1>3, <1>4, <1>5, <1>6, <1>7, <1>8, <1>9, <1>10, <1>11, <1>12, <1>13, <1>14, <1>15, <1>16, <1>17, <1>18, <1>19, <1>20, <1>21, <1>22, <1>23
     DEF Next, Environment, ReadSome, AcceptHandler

\* Every step keeps what relates sockets, operations and connections_.
LEMMA SocketsStep == Types /\ Sockets /\ [Next]_vars => Sockets'
<1> SUFFICES ASSUME Types, Sockets, [Next]_vars PROVE Sockets'
  OBVIOUS
<1> USE SecureAssumption
    DEF Types, TypeOK, Sockets, OpenIsManaged, AcceptedIsCarried, OneOperation,
        OperationsBelong, Phases, Busy, Kind, Done, OpState, SockState, Response
<1>1. CASE Run
  BY <1>1 DEF Run, clientVars
<1>2. CASE RunReturns
  BY <1>2 DEF RunReturns, clientVars
<1>3. CASE SignalArrives
  BY <1>3 DEF SignalArrives, clientVars
<1>4. CASE StopAll
  BY <1>4 DEF StopAll, CloseAll, Cancelled, clientVars
<1>5. CASE CompleteAcceptError
  BY <1>5 DEF CompleteAcceptError, clientVars
<1>6. CASE AcceptAfterClose
  BY <1>6 DEF AcceptAfterClose, clientVars
<1>7. CASE AcceptAgain
  BY <1>7 DEF AcceptAgain, clientVars
<1>8. ASSUME NEW c \in Conn, ClientConnect(c) PROVE Sockets'
  BY <1>8 DEF ClientConnect, serverVars, clientVars
<1>9. ASSUME NEW c \in Conn, ClientSend(c) PROVE Sockets'
  BY <1>9 DEF ClientSend, serverVars, clientVars
<1>10. ASSUME NEW c \in Conn, ClientLeave(c) PROVE Sockets'
  BY <1>10 DEF ClientLeave, serverVars, clientVars
<1>11. ASSUME NEW c \in Conn, CompleteAccept(c) PROVE Sockets'
  BY <1>11 DEF CompleteAccept, clientVars
<1>12. ASSUME NEW c \in Conn, CompleteHandshake(c) PROVE Sockets'
  <2>1. CASE op' = [op EXCEPT ![c]["handshake"] = "ok"] /\ UNCHANGED <<peer, inbuf>>
    BY <1>12, <2>1 DEF CompleteHandshake, serverVars
  <2>2. CASE /\ op' = [op EXCEPT ![c]["handshake"] = "failed"]
             /\ peer' = [peer EXCEPT ![c] = "gone"]
             /\ inbuf' = [inbuf EXCEPT ![c] = 0]
    BY <1>12, <2>2 DEF CompleteHandshake, serverVars
  <2>. QED
    BY <1>12, <2>1, <2>2 DEF CompleteHandshake
<1>13. ASSUME NEW c \in Conn, CompleteRead(c) PROVE Sockets'
  <2>1. ASSUME NEW n \in 1 .. inbuf[c],
               inbuf' = [inbuf EXCEPT ![c] = @ - n],
               op' = [op EXCEPT ![c]["read"] = "ok"]
        PROVE  Sockets'
    BY <1>13, <2>1 DEF CompleteRead, serverVars
  <2>2. CASE op' = [op EXCEPT ![c]["read"] = "failed"] /\ UNCHANGED inbuf
    BY <1>13, <2>2 DEF CompleteRead, serverVars
  <2>. QED
    BY <1>13, <2>1, <2>2 DEF CompleteRead
<1>14. ASSUME NEW c \in Conn, CompleteWrite(c) PROVE Sockets'
  BY <1>14 DEF CompleteWrite, serverVars, clientVars
<1>15. ASSUME NEW c \in Conn, AcceptStart(c) PROVE Sockets'
  BY <1>15 DEF AcceptStart, Start, FirstOp, clientVars
<1>16. ASSUME NEW c \in Conn, HandshakeDone(c) PROVE Sockets'
  BY <1>16 DEF HandshakeDone, Continue, Initiated, clientVars
<1>17. ASSUME NEW c \in Conn, ReadAborted(c) PROVE Sockets'
  BY <1>17 DEF ReadAborted, Finish, clientVars
<1>18. ASSUME NEW c \in Conn, ReadFailed(c) PROVE Sockets'
  BY <1>18 DEF ReadFailed, Stop, Cancelled, clientVars
<1>19. ASSUME NEW c \in Conn, ReadMore(c) PROVE Sockets'
  BY <1>19 DEF ReadMore, Continue, Initiated, clientVars
<1>20. ASSUME NEW c \in Conn, Answer(c) PROVE Sockets'
  BY <1>20 DEF Answer, Continue, Initiated, clientVars
<1>21. ASSUME NEW c \in Conn, HandlerThrows(c) PROVE Sockets'
  BY <1>21 DEF HandlerThrows, Finish, clientVars
<1>22. ASSUME NEW c \in Conn, WriteDone(c) PROVE Sockets'
  <2>1. CASE StopsAfterWrite(op[c]["write"])
    <3>1. Stop(c, "write")
      BY <1>22, <2>1 DEF WriteDone
    <3>. QED
      BY <1>22, <3>1 DEF WriteDone, Stop, Cancelled, clientVars
  <2>2. CASE ~StopsAfterWrite(op[c]["write"])
    <3>1. /\ op' = [op EXCEPT ![c]["write"] = "none"]
          /\ sock' = [sock EXCEPT ![c] = IF op[c]["write"] = "ok" /\ @ = "open"
                                           THEN "shut" ELSE @]
          /\ UNCHANGED managed
      BY <1>22, <2>2 DEF WriteDone
    <3>. QED
      BY <1>22, <2>2, <3>1 DEF WriteDone, StopsAfterWrite, clientVars
  <2>. QED
    BY <2>1, <2>2
<1>23. CASE UNCHANGED vars
  BY <1>23 DEF vars
<1>. QED
  BY <1>1, <1>2, <1>3, <1>4, <1>5, <1>6, <1>7, <1>8, <1>9, <1>10, <1>11, <1>12, <1>13, <1>14, <1>15, <1>16, <1>17, <1>18, <1>19, <1>20, <1>21, <1>22, <1>23
     DEF Next, Environment, ReadSome, AcceptHandler

\* Every step keeps what a managed connection still waits for.
LEMMA RemainsStep == Types /\ Sockets /\ Remains /\ [Next]_vars => Remains'
<1> SUFFICES ASSUME Types, Sockets, Remains, [Next]_vars PROVE Remains'
  OBVIOUS
<1> USE SecureAssumption
    DEF Types, TypeOK, Sockets, OpenIsManaged, OneOperation, OperationsBelong, Phases,
        Remains, PendingIsManaged, RetainedOnlyAfterSecureWrite, StoppedStaysStopped,
        StopClosesAcceptor, Busy, Kind, Done, OpState, SockState, Response
<1>1. CASE Run
  BY <1>1 DEF Run, clientVars
<1>2. CASE RunReturns
  BY <1>2 DEF RunReturns, clientVars
<1>3. CASE SignalArrives
  BY <1>3 DEF SignalArrives, clientVars
<1>4. CASE StopAll
  BY <1>4 DEF StopAll, CloseAll, Cancelled, clientVars
<1>5. CASE CompleteAcceptError
  BY <1>5 DEF CompleteAcceptError, clientVars
<1>6. CASE AcceptAfterClose
  BY <1>6 DEF AcceptAfterClose, clientVars
<1>7. CASE AcceptAgain
  BY <1>7 DEF AcceptAgain, clientVars
<1>8. ASSUME NEW c \in Conn, ClientConnect(c) PROVE Remains'
  BY <1>8 DEF ClientConnect, serverVars, clientVars
<1>9. ASSUME NEW c \in Conn, ClientSend(c) PROVE Remains'
  BY <1>9 DEF ClientSend, serverVars, clientVars
<1>10. ASSUME NEW c \in Conn, ClientLeave(c) PROVE Remains'
  BY <1>10 DEF ClientLeave, serverVars, clientVars
<1>11. ASSUME NEW c \in Conn, CompleteAccept(c) PROVE Remains'
  BY <1>11 DEF CompleteAccept, clientVars
<1>12. ASSUME NEW c \in Conn, CompleteHandshake(c) PROVE Remains'
  <2>1. CASE op' = [op EXCEPT ![c]["handshake"] = "ok"] /\ UNCHANGED <<peer, inbuf>>
    BY <1>12, <2>1 DEF CompleteHandshake, serverVars
  <2>2. CASE /\ op' = [op EXCEPT ![c]["handshake"] = "failed"]
             /\ peer' = [peer EXCEPT ![c] = "gone"]
             /\ inbuf' = [inbuf EXCEPT ![c] = 0]
    BY <1>12, <2>2 DEF CompleteHandshake, serverVars
  <2>. QED
    BY <1>12, <2>1, <2>2 DEF CompleteHandshake
<1>13. ASSUME NEW c \in Conn, CompleteRead(c) PROVE Remains'
  <2>1. ASSUME NEW n \in 1 .. inbuf[c],
               inbuf' = [inbuf EXCEPT ![c] = @ - n],
               op' = [op EXCEPT ![c]["read"] = "ok"]
        PROVE  Remains'
    BY <1>13, <2>1 DEF CompleteRead, serverVars
  <2>2. CASE op' = [op EXCEPT ![c]["read"] = "failed"] /\ UNCHANGED inbuf
    BY <1>13, <2>2 DEF CompleteRead, serverVars
  <2>. QED
    BY <1>13, <2>1, <2>2 DEF CompleteRead
<1>14. ASSUME NEW c \in Conn, CompleteWrite(c) PROVE Remains'
  BY <1>14 DEF CompleteWrite, serverVars, clientVars
<1>15. ASSUME NEW c \in Conn, AcceptStart(c) PROVE Remains'
  BY <1>15 DEF AcceptStart, Start, FirstOp, clientVars
<1>16. ASSUME NEW c \in Conn, HandshakeDone(c) PROVE Remains'
  BY <1>16 DEF HandshakeDone, Continue, Initiated, clientVars
<1>17. ASSUME NEW c \in Conn, ReadAborted(c) PROVE Remains'
  BY <1>17 DEF ReadAborted, Finish, clientVars
<1>18. ASSUME NEW c \in Conn, ReadFailed(c) PROVE Remains'
  BY <1>18 DEF ReadFailed, Stop, Cancelled, clientVars
<1>19. ASSUME NEW c \in Conn, ReadMore(c) PROVE Remains'
  BY <1>19 DEF ReadMore, Continue, Initiated, clientVars
<1>20. ASSUME NEW c \in Conn, Answer(c) PROVE Remains'
  BY <1>20 DEF Answer, Continue, Initiated, clientVars
<1>21. ASSUME NEW c \in Conn, HandlerThrows(c) PROVE Remains'
  BY <1>21 DEF HandlerThrows, Finish, clientVars
<1>22. ASSUME NEW c \in Conn, WriteDone(c) PROVE Remains'
  <2>1. CASE StopsAfterWrite(op[c]["write"])
    <3>1. Stop(c, "write")
      BY <1>22, <2>1 DEF WriteDone
    <3>. QED
      BY <1>22, <3>1 DEF WriteDone, Stop, Cancelled, clientVars
  <2>2. CASE ~StopsAfterWrite(op[c]["write"])
    <3>1. /\ op' = [op EXCEPT ![c]["write"] = "none"]
          /\ sock' = [sock EXCEPT ![c] = IF op[c]["write"] = "ok" /\ @ = "open"
                                           THEN "shut" ELSE @]
          /\ UNCHANGED managed
      BY <1>22, <2>2 DEF WriteDone
    <3>. QED
      BY <1>22, <2>2, <3>1 DEF WriteDone, StopsAfterWrite, clientVars
  <2>. QED
    BY <2>1, <2>2
<1>23. CASE UNCHANGED vars
  BY <1>23 DEF vars
<1>. QED
  BY <1>1, <1>2, <1>3, <1>4, <1>5, <1>6, <1>7, <1>8, <1>9, <1>10, <1>11, <1>12, <1>13, <1>14, <1>15, <1>16, <1>17, <1>18, <1>19, <1>20, <1>21, <1>22, <1>23
     DEF Next, Environment, ReadSome, AcceptHandler

\* The server as its constructor leaves it satisfies the invariant.
LEMMA InitIInv == Init => IInv
  BY SecureAssumption, BoundAssumption
     DEF Init, IInv, Types, TypeOK, ChunksConserved, Sockets, OpenIsManaged,
         AcceptedIsCarried, OneOperation, OperationsBelong, Phases, Remains,
         PendingIsManaged, RetainedOnlyAfterSecureWrite, StoppedStaysStopped,
         StopClosesAcceptor, Busy, Kind, Done, OpState, SockState, Response

\* IInv is inductive, and so an invariant of the server.
THEOREM Invariance == Spec => []IInv
<1>1. Init => IInv
  BY InitIInv
<1>2. IInv /\ [Next]_vars => IInv'
  BY TypesStep, SocketsStep, RemainsStep DEF IInv
<1>. QED
  BY <1>1, <1>2, PTL DEF Spec
-----------------------------------------------------------------------------
\* Every variable keeps its type: sockets, operations and handlers only ever
\* are in the states the code and asio put them in.
THEOREM TypeCorrect == Spec => []TypeOK
<1>1. IInv => TypeOK
  BY DEF IInv, Types
<1>. QED
  BY <1>1, Invariance, PTL

\* StopAll reaches every open socket: the connections in connections_ are
\* exactly those whose socket is open.
THEOREM ManagerKnowsOpenSockets == Spec => []OpenIsManaged
<1>1. IInv => OpenIsManaged
  BY DEF IInv, Sockets
<1>. QED
  BY <1>1, Invariance, PTL

\* A socket that async_accept delivered is never lost between the kernel and
\* the handler, and never shared.
THEOREM AcceptedSocketIsCarried == Spec => []AcceptedIsCarried
<1>1. IInv => AcceptedIsCarried
  BY DEF IInv, Sockets
<1>. QED
  BY <1>1, Invariance, PTL

\* buffer_ and response_ are in the hands of at most one operation.
THEOREM OneOperationAtATime == Spec => []OneOperation
<1>1. IInv => OneOperation
  BY DEF IInv, Sockets
<1>. QED
  BY <1>1, Invariance, PTL

\* What may wait for a client forever is within the reach of StopAll.
THEOREM NothingPendsUnmanaged == Spec => []PendingIsManaged
<1>1. IInv => PendingIsManaged
  BY DEF IInv, Remains
<1>. QED
  BY <1>1, Invariance, PTL

\* Only an answered secure connection is retained with nothing left to happen.
THEOREM NothingElseIsRetained == Spec => []RetainedOnlyAfterSecureWrite
<1>1. IInv => RetainedOnlyAfterSecureWrite
  BY DEF IInv, Remains
<1>. QED
  BY <1>1, Invariance, PTL

\* The three invariants about sockets, as one.
THEOREM EachSocketHasAnOwner == Spec => []SocketsAreOwned
<1>1. IInv => SocketsAreOwned
  BY DEF IInv, Sockets, SocketsAreOwned
<1>. QED
  BY <1>1, Invariance, PTL

\* The two invariants about what is left to happen, as one.
THEOREM NothingStaysBehind == Spec => []NothingIsStranded
<1>1. IInv => NothingIsStranded
  BY DEF IInv, Remains, NothingIsStranded
<1>. QED
  BY <1>1, Invariance, PTL

\* No handler that was queued before the stop signal revives the server.
THEOREM StopIsFinal == Spec => []StoppedStaysStopped
<1>1. IInv => StoppedStaysStopped
  BY DEF IInv, Remains
<1>. QED
  BY <1>1, Invariance, PTL
-----------------------------------------------------------------------------
\* The invariant holds before and after every step, which is what the
\* properties of steps below need.
LEMMA EveryStep == Spec => [][IInv /\ IInv' /\ [Next]_vars]_vars
<1>1. IInv /\ [Next]_vars => IInv'
  BY TypesStep, SocketsStep, RemainsStep DEF IInv
<1>. QED
  BY <1>1, Invariance, PTL DEF Spec

\* A response is chosen once, and the client is not read from afterwards.
THEOREM AnsweredOnlyOnce == Spec => AnsweredOnce
<1> DEFINE Step == \A c \in Conn : response[c] # "none" =>
                     /\ response'[c] = response[c]
                     /\ op[c]["read"] = "none" /\ op'[c]["read"] = "none"
<1>1. ASSUME IInv, IInv', [Next]_vars PROVE Step
  <2>1. ASSUME NEW c \in Conn, response[c] # "none" PROVE response'[c] = response[c]
    <3>1. op[c]["read"] = "none"
      BY <1>1, <2>1 DEF IInv, Sockets, Phases
    <3>2. CASE \E d \in Conn : Answer(d)
      BY <1>1, <3>1, <3>2 DEF Answer, IInv, Types, TypeOK
    <3>3. CASE ~\E d \in Conn : Answer(d)
      <4>1. UNCHANGED response
        BY <1>1, <3>3
           DEF Next, vars, Run, RunReturns, SignalArrives, StopAll, CloseAll,
               CompleteAcceptError, AcceptHandler, AcceptAfterClose, AcceptAgain,
               AcceptStart, Start, Environment, ClientConnect, ClientSend, ClientLeave,
               CompleteAccept, CompleteHandshake, CompleteRead, CompleteWrite,
               HandshakeDone, ReadSome, ReadAborted, ReadFailed, ReadMore,
               HandlerThrows, WriteDone
      <4>. QED
        BY <4>1
    <3>. QED
      BY <3>2, <3>3
  <2>. QED
    BY <1>1, <2>1 DEF IInv, Sockets, Phases
<1>2. IInv /\ IInv' /\ [Next]_vars => [Step]_vars
  BY <1>1
<1>. QED
  BY <1>2, EveryStep, PTL DEF AnsweredOnce

\* Only StopAll lets an answered secure connection go.
THEOREM SecureIsHeldUntilStop == Spec => SecureHeldUntilStop
<1> DEFINE Step == \A c \in managed : Secure /\ response[c] # "none" /\ c \notin managed'
                     => signal = "ready" /\ signal' = "handled"
<1>1. ASSUME IInv, [Next]_vars PROVE Step
  <2>1. SUFFICES ASSUME NEW c \in managed, Secure, response[c] # "none", c \notin managed'
                 PROVE  StopAll
    BY DEF StopAll, CloseAll
  <2>2. c \in Conn /\ op[c]["read"] = "none"
    BY <1>1, <2>1 DEF IInv, Types, TypeOK, Sockets, Phases
  <2>3. CASE \E d \in Conn : ReadFailed(d)
    <3>1. PICK d \in Conn : ReadFailed(d)
      BY <2>3
    <3>2. d # c
      BY <2>2, <3>1 DEF ReadFailed
    <3>. QED
      BY <2>1, <3>1, <3>2 DEF ReadFailed, Stop
  <2>4. CASE \E d \in Conn : WriteDone(d)
    <3>1. PICK d \in Conn : WriteDone(d)
      BY <2>4
    <3>2. ~StopsAfterWrite(op[d]["write"])
      BY <2>1, <3>1 DEF WriteDone, StopsAfterWrite, Done
    <3>. QED
      BY <2>1, <3>1, <3>2 DEF WriteDone
  <2>5. CASE ~\E d \in Conn : ReadFailed(d) \/ WriteDone(d)
    BY <1>1, <2>1, <2>5
       DEF Next, vars, serverVars, Run, RunReturns, SignalArrives,
           CompleteAcceptError, AcceptHandler, AcceptAfterClose, AcceptAgain,
           AcceptStart, Start, Environment, ClientConnect, ClientSend, ClientLeave,
           CompleteAccept, CompleteHandshake, CompleteRead, CompleteWrite,
           HandshakeDone, ReadSome, ReadAborted, ReadMore, Answer,
           HandlerThrows, Continue, Finish
  <2>. QED
    BY <2>3, <2>4, <2>5
<1>2. IInv /\ IInv' /\ [Next]_vars => [Step]_vars
  BY <1>1
<1>. QED
  BY <1>2, EveryStep, PTL DEF SecureHeldUntilStop
-----------------------------------------------------------------------------
(* HttpServer implements ServerLifecycle: the constructor leaves the server  *)
(* up with no conversation, and every step of the server, asio and the       *)
(* clients is a step of the promise or changes nothing it speaks of.         *)

conv == [c \in Conn |-> Conversation(c)]

\* A step that touches the socket and the response of one connection moves
\* that conversation only.
LEMMA OneMoves ==
  ASSUME NEW c \in Conn,
         \A d \in Conn \ {c} : sock'[d] = sock[d] /\ response'[d] = response[d]
  PROVE  conv' = [conv EXCEPT ![c] = Conversation(c)']
<1>1. ASSUME NEW d \in Conn, d # c PROVE Conversation(d)' = Conversation(d)
  <2>1. sock'[d] = sock[d] /\ response'[d] = response[d]
    BY <1>1
  <2>. QED
    BY <2>1 DEF Conversation
<1>. QED
  BY <1>1 DEF conv

\* Many steps touch no socket, no response, and none of the server's states.
LEMMA NoneMoves ==
  UNCHANGED <<loop, signal, sock, response>> => UNCHANGED Lifecycle!vars
  BY DEF Lifecycle!vars, Conversation, ServerState

\* The end of a conversation: the socket of c is closed under it.
LEMMA StopEnds ==
  ASSUME IInv, NEW c \in Conn, loop = "running", Busy(c),
         sock' = [sock EXCEPT ![c] = "closed"],
         UNCHANGED <<loop, signal, response>>
  PROVE  [Lifecycle!Next]_(Lifecycle!vars)
<1>1. sock[c] \in {"open", "closed"} /\ sock \in [Conn -> SockState]
  BY DEF IInv, Sockets, OperationsBelong, Types, TypeOK
<1>2. CASE sock[c] = "closed"
  <2>1. sock' = sock
    BY <1>1, <1>2
  <2>. QED
    BY <2>1, NoneMoves
<1>3. CASE sock[c] = "open"
  <2>1. ServerState = "up" /\ ServerState' = "up"
    BY <1>3 DEF ServerState, IInv, Remains, StoppedStaysStopped
  <2>2. conv' = [conv EXCEPT ![c] = Conversation(c)']
    BY <1>1, OneMoves
  <2>3. Conversation(c) \in {"serving", "replying"} /\ Conversation(c)' = "closed"
    BY <1>1, <1>3 DEF Conversation
  <2>. QED
    BY <2>1, <2>2, <2>3 DEF conv, Lifecycle!Next, Lifecycle!End, Lifecycle!Move
<1>. QED
  BY <1>1, <1>2, <1>3

\* A server that was just constructed is up, and no client has connected.
LEMMA LifecycleInit == Init => Lifecycle!Init
  BY DEF Init, Lifecycle!Init, ServerState, Conversation

\* StopAll is a Shutdown: the sockets that a queued accept handler carries are
\* the conversations on their way in.
LEMMA StopAllShutsDown == IInv /\ StopAll => Lifecycle!Next
<1> SUFFICES ASSUME IInv, StopAll PROVE Lifecycle!Shutdown
  BY DEF Lifecycle!Next
<1> DEFINE late == {c \in Conn : sock[c] = "accepted"}
<1>1. ServerState = "up" /\ ServerState' = "stopping"
  BY DEF StopAll, ServerState
<1>2. late \in SUBSET {c \in Conn : conv[c] = "waiting"}
  BY DEF conv, Conversation
<1>3. ASSUME NEW c \in Conn
      PROVE  Conversation(c)' = IF Conversation(c) \in Lifecycle!Live /\ c \notin late
                                  THEN "closed" ELSE Conversation(c)
  <2>1. sock[c] \in SockState /\ (sock[c] \in {"open", "shut"} <=> c \in managed)
    BY DEF IInv, Types, TypeOK, Sockets, OpenIsManaged
  <2>2. /\ sock'[c] = IF c \in managed \/ sock[c] = "backlog" THEN "closed" ELSE sock[c]
        /\ response' = response
    BY DEF StopAll, CloseAll
  <2>. QED
    BY <2>1, <2>2 DEF Conversation, Lifecycle!Live, SockState
<1>4. conv' = [c \in Conn |-> IF conv[c] \in Lifecycle!Live /\ c \notin late
                                THEN "closed" ELSE conv[c]]
  BY <1>3 DEF conv
<1>. QED
  BY <1>1, <1>2, <1>4 DEF Lifecycle!Shutdown, conv

\* An accept handler that finds the acceptor closed drops what it carries.
LEMMA AcceptAfterCloseDrops == IInv /\ AcceptAfterClose => Lifecycle!Next
<1> SUFFICES ASSUME IInv, AcceptAfterClose PROVE Lifecycle!Drop
  BY DEF Lifecycle!Next
<1>1. signal = "handled" /\ \A c \in Conn : sock[c] \in {"none", "accepted", "closed"}
  BY DEF IInv, Remains, StopClosesAcceptor, StoppedStaysStopped, AcceptAfterClose
<1>2. ServerState = "stopping" /\ ServerState' = "stopping"
  BY <1>1 DEF ServerState, AcceptAfterClose
<1>3. ASSUME NEW c \in Conn
      PROVE  Conversation(c)' = IF Conversation(c) \in Lifecycle!Live
                                  THEN "closed" ELSE Conversation(c)
  BY <1>1 DEF AcceptAfterClose, Conversation, Lifecycle!Live
<1>. QED
  BY <1>2, <1>3 DEF Lifecycle!Drop

\* run() returns only when no conversation is left.
LEMMA RunReturnsGoesDown == IInv /\ RunReturns => Lifecycle!Next
<1> SUFFICES ASSUME IInv, RunReturns PROVE Lifecycle!GoDown
  BY DEF Lifecycle!Next
<1>1. \A c \in Conn : sock[c] \in {"none", "closed"}
  BY DEF IInv, Sockets, AcceptedIsCarried, Remains, StoppedStaysStopped, RunReturns
<1>2. \A c \in Conn : Conversation(c) \notin Lifecycle!Live
  BY <1>1 DEF Conversation, Lifecycle!Live
<1>3. ServerState = "stopping" /\ ServerState' = "down"
  BY DEF ServerState, RunReturns
<1>4. UNCHANGED conv
  BY DEF conv, Conversation, RunReturns
<1>. QED
  BY <1>2, <1>3, <1>4 DEF Lifecycle!GoDown, conv

\* A handler that starts a connection, or one that answers it, finds the
\* server up; an answer on a socket that was closed meanwhile changes nothing.
LEMMA AcceptStartServes ==
  ASSUME IInv, NEW c \in Conn, AcceptStart(c)
  PROVE  Lifecycle!Next
<1>1. ServerState = "up" /\ ServerState' = "up"
  BY DEF ServerState, IInv, Remains, StopClosesAcceptor, AcceptStart
<1>2. sock \in [Conn -> SockState] /\ response[c] = "none"
  BY DEF IInv, Types, TypeOK, Sockets, Phases, AcceptStart
<1>3. conv' = [conv EXCEPT ![c] = Conversation(c)']
  BY <1>2, OneMoves DEF AcceptStart
<1>4. Conversation(c) = "waiting" /\ Conversation(c)' = "serving"
  BY <1>2 DEF Conversation, AcceptStart
<1>. QED
  BY <1>1, <1>3, <1>4 DEF conv, Lifecycle!Next, Lifecycle!Serve, Lifecycle!Move

\* The answer is a Reply if the connection is still open, and a stutter if
\* StopAll closed it while its read handler was queued.
LEMMA AnswerReplies ==
  ASSUME IInv, NEW c \in Conn, Answer(c)
  PROVE  [Lifecycle!Next]_(Lifecycle!vars)
<1>1. /\ sock[c] \in {"open", "closed"} /\ response[c] = "none"
      /\ response \in [Conn -> Response \cup {"none"}]
  BY DEF IInv, Types, TypeOK, Sockets, OperationsBelong, Phases, Busy, Kind, Answer
<1>2. PICK r \in Response : response' = [response EXCEPT ![c] = r]
  BY DEF Answer
<1>3. UNCHANGED <<loop, signal, sock>>
  BY DEF Answer, Continue
<1>4. conv' = [conv EXCEPT ![c] = Conversation(c)']
  BY <1>2, <1>3, OneMoves
<1>5. CASE sock[c] = "closed"
  <2>1. Conversation(c)' = Conversation(c)
    BY <1>3, <1>5 DEF Conversation
  <2>. QED
    BY <1>3, <1>4, <2>1 DEF conv, Lifecycle!vars, ServerState
<1>6. CASE sock[c] = "open"
  <2>1. ServerState = "up" /\ ServerState' = "up"
    BY <1>3, <1>6 DEF ServerState, IInv, Remains, StoppedStaysStopped, Answer
  <2>2. Conversation(c) = "serving" /\ Conversation(c)' = "replying"
    BY <1>1, <1>2, <1>3, <1>6 DEF Conversation, Response
  <2>. QED
    BY <1>4, <2>1, <2>2 DEF conv, Lifecycle!Next, Lifecycle!Reply, Lifecycle!Move
<1>. QED
  BY <1>1, <1>5, <1>6

\* The end of the write closes a plain connection, and does not change the
\* conversation of a secure one.
LEMMA WriteDoneEnds ==
  ASSUME IInv, NEW c \in Conn, WriteDone(c)
  PROVE  [Lifecycle!Next]_(Lifecycle!vars)
<1>1. Busy(c) /\ sock \in [Conn -> SockState] /\ response[c] # "none"
  BY DEF IInv, Types, TypeOK, Sockets, Phases, Busy, Kind, Done, WriteDone
<1>2. CASE StopsAfterWrite(op[c]["write"])
  BY <1>1, <1>2, StopEnds DEF WriteDone, Stop
<1>3. CASE ~StopsAfterWrite(op[c]["write"])
  <2>1. /\ sock' = [sock EXCEPT ![c] = IF op[c]["write"] = "ok" /\ @ = "open"
                                         THEN "shut" ELSE @]
        /\ UNCHANGED <<loop, signal, response>>
    BY <1>3 DEF WriteDone
  <2>2. conv' = [conv EXCEPT ![c] = Conversation(c)']
    BY <1>1, <2>1, OneMoves
  <2>3. Conversation(c)' = Conversation(c)
    BY <1>1, <2>1 DEF Conversation
  <2>. QED
    BY <2>1, <2>2, <2>3 DEF conv, Lifecycle!vars, ServerState
<1>. QED
  BY <1>2, <1>3

\* Every step of the server is a step of the lifecycle or a stutter.
LEMMA LifecycleStep == IInv /\ [Next]_vars => [Lifecycle!Next]_(Lifecycle!vars)
<1> SUFFICES ASSUME IInv, [Next]_vars PROVE [Lifecycle!Next]_(Lifecycle!vars)
  OBVIOUS
<1>1. CASE Run
  BY <1>1 DEF Run, Lifecycle!vars, ServerState, Conversation
<1>2. CASE RunReturns
  BY <1>2, RunReturnsGoesDown
<1>3. CASE SignalArrives
  BY <1>3 DEF SignalArrives, Lifecycle!vars, ServerState, Conversation
<1>4. CASE StopAll
  BY <1>4, StopAllShutsDown
<1>5. CASE CompleteAcceptError
  BY <1>5, NoneMoves DEF CompleteAcceptError
<1>6. CASE AcceptAfterClose
  BY <1>6, AcceptAfterCloseDrops
<1>7. CASE AcceptAgain
  BY <1>7, NoneMoves DEF AcceptAgain
<1>8. ASSUME NEW c \in Conn, ClientConnect(c)
      PROVE  [Lifecycle!Next]_(Lifecycle!vars)
  <2>1. ServerState = "up" /\ ServerState' = "up"
    BY <1>8 DEF ServerState, ClientConnect, serverVars, IInv, Remains, StopClosesAcceptor
  <2>2. sock \in [Conn -> SockState]
    BY DEF IInv, Types, TypeOK
  <2>3. conv' = [conv EXCEPT ![c] = Conversation(c)']
    BY <1>8, <2>2, OneMoves DEF ClientConnect
  <2>4. Conversation(c) = "absent" /\ Conversation(c)' = "waiting"
    BY <1>8, <2>2 DEF ClientConnect, Conversation
  <2>. QED
    BY <2>1, <2>3, <2>4 DEF conv, Lifecycle!Next, Lifecycle!Connect, Lifecycle!Move
<1>9. ASSUME NEW c \in Conn, CompleteAccept(c)
      PROVE  [Lifecycle!Next]_(Lifecycle!vars)
  <2>1. sock \in [Conn -> SockState]
    BY DEF IInv, Types, TypeOK
  <2>2. conv' = [conv EXCEPT ![c] = Conversation(c)']
    BY <1>9, <2>1, OneMoves DEF CompleteAccept
  <2>3. Conversation(c)' = Conversation(c)
    BY <1>9, <2>1 DEF CompleteAccept, Conversation
  <2>. QED
    BY <1>9, <2>2, <2>3 DEF CompleteAccept, conv, Lifecycle!vars, ServerState
<1>10. ASSUME NEW c \in Conn,
              \/ ClientSend(c) \/ ClientLeave(c) \/ CompleteHandshake(c)
              \/ CompleteRead(c) \/ CompleteWrite(c)
       PROVE  [Lifecycle!Next]_(Lifecycle!vars)
  BY <1>10, NoneMoves
     DEF ClientSend, ClientLeave, CompleteHandshake, CompleteRead, CompleteWrite,
         serverVars
<1>11. ASSUME NEW c \in Conn, AcceptStart(c)
       PROVE  [Lifecycle!Next]_(Lifecycle!vars)
  BY <1>11, AcceptStartServes
<1>12. ASSUME NEW c \in Conn, HandshakeDone(c) \/ ReadAborted(c) \/ ReadMore(c)
       PROVE  [Lifecycle!Next]_(Lifecycle!vars)
  BY <1>12, NoneMoves DEF HandshakeDone, ReadAborted, ReadMore, Continue, Finish
<1>13. ASSUME NEW c \in Conn, ReadFailed(c)
       PROVE  [Lifecycle!Next]_(Lifecycle!vars)
  <2>1. Busy(c)
    BY <1>13 DEF ReadFailed, Busy, Kind
  <2>. QED
    BY <1>13, <2>1, StopEnds DEF ReadFailed, Stop
<1>14. ASSUME NEW c \in Conn, Answer(c)
       PROVE  [Lifecycle!Next]_(Lifecycle!vars)
  BY <1>14, AnswerReplies
<1>15. ASSUME NEW c \in Conn, HandlerThrows(c)
       PROVE  [Lifecycle!Next]_(Lifecycle!vars)
  <2>1. ServerState \in {"up", "stopping"} /\ ServerState' = "failed"
    BY <1>15 DEF HandlerThrows, ServerState
  <2>2. UNCHANGED conv
    BY <1>15 DEF HandlerThrows, Finish, conv, Conversation
  <2>. QED
    BY <2>1, <2>2 DEF conv, Lifecycle!Next, Lifecycle!Fail
<1>16. ASSUME NEW c \in Conn, WriteDone(c)
       PROVE  [Lifecycle!Next]_(Lifecycle!vars)
  BY <1>16, WriteDoneEnds
<1>17. CASE UNCHANGED vars
  BY <1>17, NoneMoves DEF vars
<1>. QED
  BY <1>1, <1>2, <1>3, <1>4, <1>5, <1>6, <1>7, <1>8, <1>9, <1>10, <1>11, <1>12,
     <1>13, <1>14, <1>15, <1>16, <1>17
     DEF Next, Environment, ReadSome, AcceptHandler

\* The server keeps the promise of ServerLifecycle whatever interleaving of
\* clients, completions, handlers and the stop signal it meets.
THEOREM Refinement == Spec => ImplementsLifecycle
<1>1. IInv /\ IInv' /\ [Next]_vars => [Lifecycle!Next]_(Lifecycle!vars)
  BY LifecycleStep
<1>2. UNCHANGED vars => UNCHANGED Lifecycle!vars
  BY NoneMoves DEF vars
<1>. QED
  BY <1>1, <1>2, LifecycleInit, EveryStep, PTL
     DEF Spec, ImplementsLifecycle, Lifecycle!Spec
=============================================================================
