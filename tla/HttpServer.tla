----------------------------- MODULE HttpServer -----------------------------
(***************************************************************************)
(* The asynchronous server of src/src/http: Server (accept loop, stop      *)
(* signal), ConnectionManager (the set connections_) and the two kinds of  *)
(* connection, Connection and ConnectionSecure.                            *)
(*                                                                         *)
(* One thread calls Server::Run, so completion handlers are atomic.  What  *)
(* interleaves with them is the network, the kernel completing operations, *)
(* and the queue of handlers whose operation is already complete: closing  *)
(* a socket aborts a PENDING operation, but a handler that is already      *)
(* queued still runs later, with the error code it was queued with.        *)
(***************************************************************************)
EXTENDS Naturals, FiniteSets

CONSTANTS Conn,       \* the connections clients may open, each used once
          Secure,     \* Server::secure_
          MaxFds,     \* sockets the process can hold besides the acceptor
          MaxChunks   \* bound: reads into which a request may be split

ASSUME SecureAssumption == Secure \in BOOLEAN
ASSUME BoundAssumption == MaxFds \in Nat \ {0} /\ MaxChunks \in Nat \ {0}

VARIABLES
  loop,       \* io_context_.run(): "constructed", "running", "returned", "threw"
  listening,  \* acceptor_.is_open()
  accept,     \* the outstanding async_accept
  signal,     \* the async_wait on signals_: "armed", "ready", "handled"
  managed,    \* ConnectionManager::connections_
  sock,       \* the socket of each connection
  op,         \* the outstanding asynchronous operations of each connection
  response,   \* ConnectionBase::response_
  peer,       \* the client: "alive", or "gone" once no byte can come from it
  unsent,     \* chunks of its request the client has yet to send
  inbuf       \* chunks that arrived and were not read

serverVars == <<loop, listening, accept, signal, managed>>
clientVars == <<peer, unsent, inbuf>>
vars == <<loop, listening, accept, signal, managed, sock, op, response,
          peer, unsent, inbuf>>

Kind == {"handshake", "read", "write"}
Done == {"ok", "failed", "aborted"}        \* a handler is queued with this ec
OpState == {"none", "pending"} \cup Done
SockState == {"none", "backlog", "accepted", "open", "shut", "closed"}
Response == {"routed", "not_found", "bad_request"}

TypeOK ==
  /\ loop \in {"constructed", "running", "returned", "threw"}
  /\ listening \in BOOLEAN
  /\ accept \in OpState
  /\ signal \in {"armed", "ready", "handled"}
  /\ managed \subseteq Conn
  /\ sock \in [Conn -> SockState]
  /\ op \in [Conn -> [Kind -> OpState]]
  /\ response \in [Conn -> Response \cup {"none"}]
  /\ peer \in [Conn -> {"alive", "gone"}]
  /\ unsent \in [Conn -> 0 .. MaxChunks]
  /\ inbuf \in [Conn -> 0 .. MaxChunks]

\* The constructor has returned: the signal wait is armed, the acceptor
\* listens and the first async_accept is outstanding.
Init ==
  /\ loop = "constructed"
  /\ listening = TRUE
  /\ accept = "pending"
  /\ signal = "armed"
  /\ managed = {}
  /\ sock = [c \in Conn |-> "none"]
  /\ op = [c \in Conn |-> [k \in Kind |-> "none"]]
  /\ response = [c \in Conn |-> "none"]
  /\ peer = [c \in Conn |-> "alive"]
  /\ unsent \in [Conn -> 1 .. MaxChunks]
  /\ inbuf = [c \in Conn |-> 0]

Busy(c) == \E k \in Kind : op[c][k] # "none"
HoldsFd(c) == sock[c] \in {"accepted", "open", "shut"}
FdsLeft == Cardinality({c \in Conn : HoldsFd(c)}) < MaxFds
-----------------------------------------------------------------------------
(* The environment: clients, the signal, and the kernel and asio           *)
(* completing the operations the program started.                          *)

ClientConnect(c) ==
  /\ loop \in {"constructed", "running"} /\ listening
  /\ sock[c] = "none"
  /\ sock' = [sock EXCEPT ![c] = "backlog"]
  /\ UNCHANGED <<serverVars, op, response, clientVars>>

ClientSend(c) ==
  /\ sock[c] \in {"backlog", "accepted", "open"}
  /\ peer[c] = "alive" /\ unsent[c] > 0
  /\ unsent' = [unsent EXCEPT ![c] = @ - 1]
  /\ inbuf' = [inbuf EXCEPT ![c] = @ + 1]
  /\ UNCHANGED <<serverVars, sock, op, response, peer>>

ClientLeave(c) ==
  /\ sock[c] \in {"backlog", "accepted", "open"} /\ peer[c] = "alive"
  /\ peer' = [peer EXCEPT ![c] = "gone"]
  /\ UNCHANGED <<serverVars, sock, op, response, unsent, inbuf>>

SignalArrives ==
  /\ signal = "armed"
  /\ signal' = "ready"
  /\ UNCHANGED <<loop, listening, accept, managed, sock, op, response, clientVars>>

\* A connection is taken from the backlog if a descriptor is left for it.
CompleteAccept(c) ==
  /\ loop = "running" /\ accept = "pending"
  /\ sock[c] = "backlog" /\ FdsLeft
  /\ accept' = "ok"
  /\ sock' = [sock EXCEPT ![c] = "accepted"]
  /\ UNCHANGED <<loop, listening, signal, managed, op, response, clientVars>>

\* accept(2) fails with EMFILE and leaves the backlog as it is.
CompleteAcceptError ==
  /\ loop = "running" /\ accept = "pending"
  /\ ~FdsLeft /\ \E c \in Conn : sock[c] = "backlog"
  /\ accept' = "failed"
  /\ UNCHANGED <<loop, listening, signal, managed, sock, op, response, clientVars>>

\* A failed handshake leaves a TLS stream from which nothing more is read.
CompleteHandshake(c) ==
  /\ loop = "running" /\ op[c]["handshake"] = "pending"
  /\ \/ /\ peer[c] = "alive"
        /\ op' = [op EXCEPT ![c]["handshake"] = "ok"]
        /\ UNCHANGED <<peer, inbuf>>
     \/ /\ op' = [op EXCEPT ![c]["handshake"] = "failed"]
        /\ peer' = [peer EXCEPT ![c] = "gone"]
        /\ inbuf' = [inbuf EXCEPT ![c] = 0]
  /\ UNCHANGED <<serverVars, sock, response, unsent>>

\* A read takes any number of the chunks that arrived; from a client that is
\* gone it may also report the end of the stream or a reset.
CompleteRead(c) ==
  /\ loop = "running" /\ op[c]["read"] = "pending"
  /\ \/ \E n \in 1 .. inbuf[c] :
          /\ inbuf' = [inbuf EXCEPT ![c] = @ - n]
          /\ op' = [op EXCEPT ![c]["read"] = "ok"]
     \/ /\ peer[c] = "gone"
        /\ op' = [op EXCEPT ![c]["read"] = "failed"]
        /\ UNCHANGED inbuf
  /\ UNCHANGED <<serverVars, sock, response, peer, unsent>>

CompleteWrite(c) ==
  /\ loop = "running" /\ op[c]["write"] = "pending"
  /\ \E ec \in {"ok", "failed"} :
       /\ ec = "failed" => peer[c] = "gone"
       /\ op' = [op EXCEPT ![c]["write"] = ec]
  /\ UNCHANGED <<serverVars, sock, response, clientVars>>

\* Closing a socket aborts its pending operations and no others.
Cancelled(ops) == [k \in Kind |-> IF ops[k] = "pending" THEN "aborted" ELSE ops[k]]

\* An operation started on a closed socket fails at once (bad_descriptor).
Initiated(c) == IF sock[c] = "closed" THEN "failed" ELSE "pending"
-----------------------------------------------------------------------------
(* The program: one action per completion handler, or per path through it. *)

Run ==
  /\ loop = "constructed"
  /\ loop' = "running"
  /\ UNCHANGED <<listening, accept, signal, managed, sock, op, response, clientVars>>

\* io_context::run returns when no operation is outstanding.
RunReturns ==
  /\ loop = "running"
  /\ accept = "none" /\ signal = "handled" /\ \A c \in Conn : ~Busy(c)
  /\ loop' = "returned"
  /\ UNCHANGED <<listening, accept, signal, managed, sock, op, response, clientVars>>

\* Start of a connection: DoRead, or the handshake of a secure one.
FirstOp == IF Secure THEN "handshake" ELSE "read"

\* Mutation of AcceptAfterClose: the socket is not closed.
LeaksAccepted ==
  /\ loop = "running" /\ accept \in Done /\ ~listening
  /\ accept' = "none"
  /\ UNCHANGED <<loop, listening, signal, managed, sock, op, response, clientVars>>

\* The handler of async_accept, after the acceptor was closed: it returns,
\* and the socket it was given, if any, is closed by its destructor.
AcceptAfterClose ==
  /\ loop = "running" /\ accept \in Done /\ ~listening
  /\ accept' = "none"
  /\ sock' = [c \in Conn |-> IF sock[c] = "accepted" THEN "closed" ELSE sock[c]]
  /\ UNCHANGED <<loop, listening, signal, managed, op, response, clientVars>>

\* Mutation of AcceptAgain: an error ends the accepting.
GivesUpAccepting ==
  /\ loop = "running" /\ accept \in Done \ {"ok"} /\ listening
  /\ accept' = "none"
  /\ UNCHANGED <<loop, listening, signal, managed, sock, op, response, clientVars>>

\* With an error it just accepts again.
AcceptAgain ==
  /\ loop = "running" /\ accept \in Done \ {"ok"} /\ listening
  /\ accept' = "pending"
  /\ UNCHANGED <<loop, listening, signal, managed, sock, op, response, clientVars>>

\* ConnectionManager::Start.
Start(c) ==
  /\ managed' = managed \cup {c}
  /\ op' = [op EXCEPT ![c][FirstOp] = "pending"]

\* Mutation of AcceptStart: whether the acceptor is still open is not asked.
StartsAfterClose(c) ==
  /\ loop = "running" /\ accept = "ok"
  /\ sock[c] = "accepted"
  /\ sock' = [sock EXCEPT ![c] = "open"]
  /\ Start(c)
  /\ accept' = "pending"
  /\ UNCHANGED <<loop, listening, signal, response, clientVars>>

\* With a socket it makes a connection, starts it, and accepts again.
AcceptStart(c) ==
  /\ loop = "running" /\ accept = "ok" /\ listening
  /\ sock[c] = "accepted"
  /\ sock' = [sock EXCEPT ![c] = "open"]
  /\ Start(c)
  /\ accept' = "pending"
  /\ UNCHANGED <<loop, listening, signal, response, clientVars>>

\* Mutation of StopAll: connections_ is cleared, the connections are not closed.
ClearsOnly ==
  /\ loop = "running" /\ signal = "ready"
  /\ signal' = "handled"
  /\ listening' = FALSE
  /\ accept' = IF accept = "pending" THEN "aborted" ELSE accept
  /\ sock' = [c \in Conn |-> IF sock[c] = "backlog" THEN "closed" ELSE sock[c]]
  /\ managed' = {}
  /\ UNCHANGED <<loop, op, response, clientVars>>

\* ConnectionManager::StopAll, together with the sockets the kernel resets.
CloseAll(reset) ==
  /\ sock' = [c \in Conn |-> IF c \in managed \cup reset THEN "closed" ELSE sock[c]]
  /\ op' = [c \in Conn |-> IF c \in managed THEN Cancelled(op[c]) ELSE op[c]]
  /\ managed' = {}

\* The handler of the signal wait: close the acceptor (the kernel resets what
\* is in its backlog), close every managed connection and forget them all.
\* The wait is not armed again.
StopAll ==
  /\ loop = "running" /\ signal = "ready"
  /\ signal' = "handled"
  /\ listening' = FALSE
  /\ accept' = IF accept = "pending" THEN "aborted" ELSE accept
  /\ CloseAll({c \in Conn : sock[c] = "backlog"})
  /\ UNCHANGED <<loop, response, clientVars>>

\* The handler of operation k ends by starting operation j.
Continue(c, k, j) ==
  /\ op' = [op EXCEPT ![c] = [@ EXCEPT ![k] = "none", ![j] = Initiated(c)]]
  /\ UNCHANGED <<managed, sock>>

\* The handler of operation k ends without starting anything.
Finish(c, k) ==
  /\ op' = [op EXCEPT ![c][k] = "none"]
  /\ UNCHANGED <<managed, sock>>

\* Mutation of Stop: the connection stays in connections_.
StopsWithoutErasing(c, k) ==
  /\ sock' = [sock EXCEPT ![c] = "closed"]
  /\ op' = [op EXCEPT ![c] = Cancelled([@ EXCEPT ![k] = "none"])]
  /\ UNCHANGED managed

\* The handler of operation k ends with connection_manager_.Stop(c).
Stop(c, k) ==
  /\ managed' = managed \ {c}
  /\ sock' = [sock EXCEPT ![c] = "closed"]
  /\ op' = [op EXCEPT ![c] = Cancelled([@ EXCEPT ![k] = "none"])]

\* Mutation of HandshakeDone: after an error the handler just returns.
ReturnsOnError(c) ==
  /\ loop = "running" /\ op[c]["handshake"] \in Done
  /\ IF op[c]["handshake"] = "ok" THEN Continue(c, "handshake", "read")
                                   ELSE Finish(c, "handshake")
  /\ UNCHANGED <<loop, listening, accept, signal, response, clientVars>>

\* The handler of the handshake ignores its error code.
HandshakeDone(c) ==
  /\ loop = "running" /\ op[c]["handshake"] \in Done
  /\ Continue(c, "handshake", "read")
  /\ UNCHANGED <<loop, listening, accept, signal, response, clientVars>>

ReadAborted(c) ==
  /\ loop = "running" /\ op[c]["read"] = "aborted"
  /\ Finish(c, "read")
  /\ UNCHANGED <<loop, listening, accept, signal, response, clientVars>>

ReadFailed(c) ==
  /\ loop = "running" /\ op[c]["read"] = "failed"
  /\ Stop(c, "read")
  /\ UNCHANGED <<loop, listening, accept, signal, response, clientVars>>

\* The parser has an answer once the request was read to its last chunk.
Decided(c) == unsent[c] = 0 /\ inbuf[c] = 0

\* Mutation of ReadMore: nothing is read after an incomplete request.
DropsIncomplete(c) ==
  /\ loop = "running" /\ op[c]["read"] = "ok" /\ ~Decided(c)
  /\ Finish(c, "read")
  /\ UNCHANGED <<loop, listening, accept, signal, response, clientVars>>

ReadMore(c) ==
  /\ loop = "running" /\ op[c]["read"] = "ok" /\ ~Decided(c)
  /\ Continue(c, "read", "read")
  /\ UNCHANGED <<loop, listening, accept, signal, response, clientVars>>

\* Mutations of Answer: an incomplete request is answered as such;
\* the next request is read before the answer is written.
AnswersIncomplete(c) ==
  /\ loop = "running" /\ op[c]["read"] = "ok"
  /\ \E r \in Response \cup {"incomplete"} : response' = [response EXCEPT ![c] = r]
  /\ Continue(c, "read", "write")
  /\ UNCHANGED <<loop, listening, accept, signal, clientVars>>
ReadsBeforeWriting(c) ==
  /\ loop = "running" /\ op[c]["read"] = "ok" /\ Decided(c)
  /\ \E r \in Response : response' = [response EXCEPT ![c] = r]
  /\ Continue(c, "read", "read")
  /\ UNCHANGED <<loop, listening, accept, signal, clientVars>>

\* A good request goes to the first matching router or is not found, a bad
\* one is refused; in each case the response is written.
Answer(c) ==
  /\ loop = "running" /\ op[c]["read"] = "ok" /\ Decided(c)
  /\ \E r \in Response : response' = [response EXCEPT ![c] = r]
  /\ Continue(c, "read", "write")
  /\ UNCHANGED <<loop, listening, accept, signal, clientVars>>

\* std::stol or the router's method throws: nothing between here and the
\* caller of Server::Run catches it.
HandlerThrows(c) ==
  /\ loop = "running" /\ op[c]["read"] = "ok" /\ Decided(c)
  /\ loop' = "threw"
  /\ Finish(c, "read")
  /\ UNCHANGED <<listening, accept, signal, response, clientVars>>

\* Mutations of StopsAfterWrite: after errors only; for both kinds alike.
StopsAfterErrors(ec) == IF Secure THEN ec = "http_request" ELSE ec \notin {"ok", "aborted"}
StopsBothKinds(ec) == ec # "aborted"

\* A secure connection is only stopped for an error whose low byte is
\* SSL_R_HTTP_REQUEST, which no write completes with.
StopsAfterWrite(ec) == IF Secure THEN ec = "http_request" ELSE ec # "aborted"

\* The handler of the write shuts the socket down if the write succeeded,
\* and then stops the connection or just ends.
WriteDone(c) ==
  /\ loop = "running" /\ op[c]["write"] \in Done
  /\ LET ec == op[c]["write"]
     IN  IF StopsAfterWrite(ec)
           THEN Stop(c, "write")
           ELSE /\ op' = [op EXCEPT ![c]["write"] = "none"]
                /\ sock' = [sock EXCEPT ![c] = IF ec = "ok" /\ @ = "open"
                                                 THEN "shut" ELSE @]
                /\ UNCHANGED managed
  /\ UNCHANGED <<loop, listening, accept, signal, response, clientVars>>
-----------------------------------------------------------------------------
Environment(c) ==
  \/ ClientConnect(c) \/ ClientSend(c) \/ ClientLeave(c)
  \/ CompleteAccept(c) \/ CompleteHandshake(c) \/ CompleteRead(c) \/ CompleteWrite(c)

ReadSome(c) ==
  \/ ReadAborted(c) \/ ReadFailed(c) \/ ReadMore(c) \/ Answer(c) \/ HandlerThrows(c)

AcceptHandler == AcceptAfterClose \/ AcceptAgain \/ \E c \in Conn : AcceptStart(c)

Next ==
  \/ Run \/ RunReturns
  \/ SignalArrives \/ StopAll
  \/ CompleteAcceptError \/ AcceptHandler
  \/ \E c \in Conn : Environment(c)
  \/ \E c \in Conn : HandshakeDone(c) \/ ReadSome(c) \/ WriteDone(c)

Spec == Init /\ [][Next]_vars

(***************************************************************************)
(* io_context runs every queued handler; the kernel completes a read for   *)
(* which there are bytes or an end of stream, and the handshake of a       *)
(* client that has played its part (it is gone, or has sent all it has to  *)
(* send).  The backlog is first in, first out, so a waiting client is      *)
(* taken if an accept is again and again attempted with a descriptor left. *)
(* Nothing is assumed of the clients: a write has no deadline and may stay *)
(* pending for ever, for a client that does not read what is sent to it.   *)
(***************************************************************************)
Fairness ==
  /\ WF_vars(Run) /\ WF_vars(RunReturns)
  /\ WF_vars(StopAll) /\ WF_vars(AcceptHandler)
  /\ \A c \in Conn :
       /\ WF_vars(HandshakeDone(c)) /\ WF_vars(ReadSome(c)) /\ WF_vars(WriteDone(c))
       /\ WF_vars(CompleteRead(c))
       /\ WF_vars((unsent[c] = 0 \/ peer[c] = "gone") /\ CompleteHandshake(c))
       /\ SF_vars(CompleteAccept(c))

FairSpec == Spec /\ Fairness

\* A client that finishes sending its request, or leaves.
Sends(c) == WF_vars(ClientSend(c) \/ ClientLeave(c))

\* A client that reads its response, or is gone altogether, so that the kernel
\* takes or refuses what is left to write.
Reads(c) == WF_vars(CompleteWrite(c))

PatientClients == \A c \in Conn : Sends(c) /\ Reads(c)
-----------------------------------------------------------------------------
(* Safety *)

\* The sockets held open by connection objects are exactly those of the
\* connections in connections_, so that StopAll reaches each of them.
OpenIsManaged == \A c \in Conn : sock[c] \in {"open", "shut"} <=> c \in managed

\* A connection has at most one operation outstanding: buffer_ and response_
\* are handed to asio without any other protection.
OneOperation ==
  \A c \in Conn : \A j, k \in Kind :
    op[c][j] # "none" /\ op[c][k] # "none" => j = k

\* An operation that may wait for a client forever belongs to a managed
\* connection: after StopAll none is left to keep Server::Run from returning.
PendingIsManaged ==
  \A c \in Conn : \A k \in Kind : op[c][k] = "pending" => c \in managed

\* The socket of a completed accept is carried by the queued accept handler
\* and by nothing else.
AcceptedIsCarried ==
  /\ accept = "ok" <=> \E c \in Conn : sock[c] = "accepted"
  /\ \A c, d \in Conn : sock[c] = "accepted" /\ sock[d] = "accepted" => c = d

\* Sockets, connections_ and outstanding operations agree on whose is what.
SocketsAreOwned == OpenIsManaged /\ AcceptedIsCarried /\ OneOperation

\* While the loop runs, a connection is retained without anything left to
\* happen to it only if it is secure and its response was written.
RetainedOnlyAfterSecureWrite ==
  \A c \in managed : loop # "threw" /\ ~Busy(c) => Secure /\ response[c] # "none"

\* Nothing waits out of the reach of StopAll, and nothing is held for nothing but
\* an answered secure connection.
NothingIsStranded == PendingIsManaged /\ RetainedOnlyAfterSecureWrite

\* Once the stop signal was handled nothing is accepted or managed any more,
\* whatever handlers were queued before it.
StoppedStaysStopped ==
  signal = "handled" =>
    /\ ~listening /\ managed = {}
    /\ \A c \in Conn : sock[c] \in {"none", "accepted", "closed"}

\* A response is chosen once; from then on nothing of the client is read and
\* the response asio is writing from does not change.
AnsweredOnce ==
  [][\A c \in Conn : response[c] # "none" =>
       /\ response'[c] = response[c]
       /\ op[c]["read"] = "none" /\ op'[c]["read"] = "none"]_vars

\* A secure connection that was answered is only let go by StopAll: its
\* write handler stops it for no error code a write has.
SecureHeldUntilStop ==
  [][\A c \in managed : Secure /\ response[c] # "none" /\ c \notin managed'
       => signal = "ready" /\ signal' = "handled"]_vars

(* Liveness *)

\* A stop signal makes Server::Run return, whatever the clients do, unless a
\* handler throws first.
StopReturns == signal = "ready" ~> loop \in {"returned", "threw"}

\* A managed client that sent its whole request is answered, or let go.
RequestAnswered ==
  \A c \in Conn : c \in managed /\ unsent[c] = 0
    ~> response[c] # "none" \/ c \notin managed \/ loop = "threw"

\* A plain connection is let go once its client sent all or left, if that
\* client reads what it is sent; no other client can hold it back.
PlainReleased ==
  \A c \in Conn :
    Reads(c) => (c \in managed /\ (unsent[c] = 0 \/ peer[c] = "gone")
                   ~> c \notin managed \/ loop = "threw")

\* If every client sends its request or leaves, and reads its response, then
\* every plain connection leaves the backlog, even after accepts that failed
\* for want of a descriptor.
BacklogDrains ==
  PatientClients =>
    \A c \in Conn : sock[c] = "backlog" ~> sock[c] # "backlog" \/ loop = "threw"
-----------------------------------------------------------------------------
(* Refinement *)

Conversation(c) ==
  CASE sock[c] = "none" -> "absent"
    [] sock[c] \in {"backlog", "accepted"} -> "waiting"
    [] sock[c] \in {"open", "shut"} /\ response[c] = "none" -> "serving"
    [] sock[c] \in {"open", "shut"} /\ response[c] # "none" -> "replying"
    [] sock[c] = "closed" -> "closed"

ServerState ==
  CASE loop = "threw" -> "failed"
    [] loop = "returned" -> "down"
    [] loop \in {"constructed", "running"} -> IF signal = "handled" THEN "stopping" ELSE "up"

Lifecycle == INSTANCE ServerLifecycle
  WITH server <- ServerState, conv <- [c \in Conn |-> Conversation(c)]

\* The server keeps the promise of ServerLifecycle, step by step.
ImplementsLifecycle == Lifecycle!Spec

\* Under the fairness of the loop and the kernel it keeps the liveness part too.
ImplementsFairLifecycle == Lifecycle!FairSpec
=============================================================================
