---------------------------- MODULE HttpResponse ----------------------------
(***************************************************************************)
(* http::Response as a handler, or the server in its place, fills it in,   *)
(* and the buffers that are written.  A handler calls what it likes in any *)
(* order, and the response may be written after any of its calls.          *)
(*                                                                         *)
(* A content is a sequence of symbols; a status line is one symbol.        *)
(***************************************************************************)
EXTENDS Naturals, Sequences

CONSTANTS Content,      \* what handlers set: sequences
          ContentType,
          Header,       \* names of headers but for the two that are about the content
          Value,        \* values of those headers
          Asked,        \* the statuses handlers ask for
          MaxCalls      \* bound: calls of one handler

\* Statuses with a line of their own, and all there are.
Listed == {"OK", "CREATED", "ACCEPTED", "NO_CONTENT", "MULTIPLE_CHOICES",
  "MOVED_PERMANENTLY", "MOVED_TEMPORARILY", "NOT_MODIFIED", "BAD_REQUEST",
  "UNAUTHORIZED", "FORBIDDEN", "NOT_FOUND", "INTERNAL_SERVER_ERROR",
  "NOT_IMPLEMENTED", "BAD_GATEWAY", "SERVICE_UNAVAILABLE"}
StatusType == Listed \cup {"PERMANENT_REDIRECT"}

ASSUME ContentAssumption == Content \subseteq Seq(StatusType \cup Value)
ASSUME HeaderAssumption == {"Content-Length", "Content-Type"} \cap Header = {}
ASSUME AskedAssumption == Asked \subseteq StatusType /\ MaxCalls \in Nat

Name == Header \cup {"Content-Length", "Content-Type"}

VARIABLES
  status, headers, content,  \* status_, headers_, content_
  given,      \* contents set since the response was made
  named,      \* names of headers added since, before any content was set
  page,       \* the status it was generated for, if it was
  calls

history == <<given, named, page, calls>>
vars == <<status, headers, content, history>>

\* A response as it is constructed.
Init ==
  /\ status = "OK" /\ headers = <<>> /\ content = <<>>
  /\ given = <<>> /\ named = {} /\ page = "none" /\ calls = 0

\* std::map::insert keeps the value a name has.
Insert(m, n, v) == [k \in DOMAIN m \cup {n} |-> IF k \in DOMAIN m THEN m[k] ELSE v]

\* status::ToBuffer and status::DefaultContent each fall back on one line.
Line(s) == IF s \in Listed THEN s ELSE "INTERNAL_SERVER_ERROR"
DefaultContent(s) == <<IF s \in Listed THEN s ELSE "INTERNAL_SERVER_ERROR">>

ToBuffers == [line |-> Line(status), headers |-> headers, body |-> content]
-----------------------------------------------------------------------------
Called == calls < MaxCalls /\ calls' = calls + 1

SetStatus(s) ==
  /\ Called /\ status' = s
  /\ UNCHANGED <<headers, content, given, named, page>>

\* Mutation of SetContent: the content before it is measured.
MeasuresBefore(c, t) ==
  /\ Called /\ content' = c
  /\ headers' = Insert(Insert(headers, "Content-Length", Len(content)), "Content-Type", t)
  /\ given' = Append(given, c)
  /\ UNCHANGED <<status, named, page>>

SetContent(c, t) ==
  /\ Called /\ content' = c
  /\ headers' = Insert(Insert(headers, "Content-Length", Len(c)), "Content-Type", t)
  /\ given' = Append(given, c)
  /\ UNCHANGED <<status, named, page>>

AddHeader(n, v) ==
  /\ Called /\ headers' = Insert(headers, n, v)
  /\ named' = IF given = <<>> THEN named \cup {n} ELSE named
  /\ UNCHANGED <<status, content, given, page>>

\* Mutation of Generate: the page is measured.
MeasuresPage(s) ==
  /\ Called /\ status' = s /\ content' = DefaultContent(s)
  /\ headers' = Insert(Insert(<<>>, "Content-Length", Len(DefaultContent(s))),
                       "Content-Type", "text/html")
  /\ given' = <<>> /\ named' = {} /\ page' = s

\* A new response takes the place of the old one.  Its length is taken before
\* it has its content.
Generate(s) ==
  /\ Called /\ status' = s /\ content' = DefaultContent(s)
  /\ headers' = Insert(Insert(<<>>, "Content-Length", 0), "Content-Type", "text/html")
  /\ given' = <<>> /\ named' = {} /\ page' = s
-----------------------------------------------------------------------------
Next ==
  \/ \E s \in Asked : SetStatus(s) \/ Generate(s)
  \/ \E c \in Content, t \in ContentType : SetContent(c, t)
  \/ \E n \in Header, v \in Value : AddHeader(n, v)
  \/ \E c \in Content : AddHeader("Content-Length", Len(c))
  \/ \E t \in ContentType : AddHeader("Content-Type", t)

Spec == Init /\ [][Next]_vars
-----------------------------------------------------------------------------
(* Correctness *)

TypeOK ==
  /\ status \in StatusType
  /\ content \in Content \cup {DefaultContent(s) : s \in StatusType} \cup {<<>>}
  /\ DOMAIN headers \subseteq Name
  /\ "Content-Length" \in DOMAIN headers => headers["Content-Length"] \in Nat
  /\ "Content-Type" \in DOMAIN headers => headers["Content-Type"] \in ContentType \cup {"text/html"}
  /\ \A n \in Header \cap DOMAIN headers : headers[n] \in Value
  /\ given \in Seq(Content) /\ named \subseteq Name
  /\ page \in StatusType \cup {"none"} /\ calls \in 0 .. MaxCalls

\* What a client takes for the content: as much as is announced of what there
\* is, or everything until the connection is closed.
Taken(message) ==
  IF "Content-Length" \notin DOMAIN message.headers THEN message.body
  ELSE LET n == message.headers["Content-Length"]
       IN  IF n < Len(message.body) THEN SubSeq(message.body, 1, n) ELSE message.body

Announced(message) ==
  "Content-Length" \in DOMAIN message.headers =>
    message.headers["Content-Length"] = Len(message.body)

\* The client has the content that was set last, and waits for no more, unless
\* the handler generated the response, gave a length of its own before it set
\* a content, or set contents of different lengths.
ContentArrives ==
  /\ page = "none" /\ "Content-Length" \notin named
  /\ given # <<>> /\ \A i \in 1 .. Len(given) : Len(given[i]) = Len(given[1])
  => Announced(ToBuffers) /\ Taken(ToBuffers) = given[Len(given)]

\* Of a generated response a client takes no content, whether that is its page
\* or was set afterwards: the announced length is that of nothing.
GeneratedIsBodyless == page # "none" => Taken(ToBuffers) = <<>>
=============================================================================
