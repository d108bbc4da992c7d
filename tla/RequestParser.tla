---------------------------- MODULE RequestParser ----------------------------
(***************************************************************************)
(* How one connection turns what it reads into a request:                  *)
(* ConnectionBase::ReadSome and http::RequestParser.  The client's message *)
(* reaches ReadSome cut into reads of any length up to the size of buffer_;*)
(* Parse consumes a read symbol by symbol and keeps its state between      *)
(* reads.                                                                  *)
(*                                                                         *)
(* A symbol is a character the parser tells apart, or a run of characters  *)
(* it treats alike (a word, an escape).  Method, URI, names and values are *)
(* sequences of symbols, and lengths count symbols.                        *)
(***************************************************************************)
EXTENDS Integers, Sequences, FiniteSets

CONSTANTS Messages,   \* what a client may send on its connection
          BufSize,    \* the size of buffer_
          Word        \* 2^w, for the width w of size_t and long

VARIABLES
  message,   \* what the client sends
  wire,      \* the part of it that was not read
  phase,     \* where ReadSome stands, or how it ended
  buffer,    \* symbols of the current read that are not consumed
  full,      \* the current read filled buffer_
  state,     \* RequestParser::state_
  method_, header_key_, header_val_,       \* the parser's strings
  method, uri, headers, body               \* the request's fields

parserVars == <<state, method_, header_key_, header_val_>>
requestVars == <<method, uri, headers, body>>
vars == <<message, wire, phase, buffer, full, parserVars, requestVars>>
-----------------------------------------------------------------------------
(* Characters *)

Space == " "
Digit == {"0", "1", "2"}
Method == {"GET", "POST", "PUT", "DELETE"}
Letter == {"H", "T", "P", "BREW", "name", "Content-Length", "content-length"}
Blank == {Space, "\t"}
Ctl == {"\t", "\r", "\n", "NUL", "low"}       \* "low": of the codes 1 to 3
Escape == {"%2F", "%2E.", "+", "%zz"}        \* "%zz": no hexadecimal number
\* IsChar, and neither IsCtl nor IsTspecial.
Token == Digit \cup Method \cup Letter \cup Escape \cup {".", "..", "-"}
Sym == Token \cup Ctl \cup {Space, ":", "/", "high"}
Plain == Sym \ Ctl
Visible == Plain \ {Space}

ASSUME MessagesAssumption == Messages \subseteq Seq(Sym)
ASSUME SizeAssumption == BufSize \in Nat \ {0} /\ Word \in Nat \ {0}

Escaped == [e \in Escape \ {"%zz"} |->
              CASE e = "%2F" -> "/" [] e = "%2E." -> ".." [] e = "+" -> Space]

\* How many of the first symbols of s are in S.
Span(s, S) == Cardinality({n \in 1 .. Len(s) : \A i \in 1 .. n : s[i] \in S})

\* UrlDecode stops at the first escape it cannot read, and its caller goes on
\* with what it decoded until then.
UrlDecode(in) ==
  [i \in 1 .. Span(in, Sym \ {"%zz"}) |->
     IF in[i] \in DOMAIN Escaped THEN Escaped[in[i]] ELSE in[i]]

ValidUri(u) ==
  /\ u # <<>> /\ u[1] = "/"
  /\ \A i \in 1 .. Len(u) : u[i] # ".." /\ ~(i < Len(u) /\ u[i] = "." /\ u[i + 1] = ".")

\* Of an unknown method ReadSome makes a GET.
MethodType(m) == IF Len(m) = 1 /\ m[1] \in Method THEN m[1] ELSE "GET"

\* Mutation of ToLower: toupper.
ToUpper(c) == IF c \in {"Content-Length", "content-length"} THEN "CONTENT-LENGTH" ELSE c
ToLower(c) == IF c = "Content-Length" THEN "content-length" ELSE c

ContentLength == <<"content-length">>

\* std::map::insert keeps the value of a key it has.  Mutation: operator[].
Overwrite(map, k, v) == [x \in DOMAIN map \cup {k} |-> IF x = k THEN v ELSE map[x]]
Insert(map, k, v) ==
  [x \in DOMAIN map \cup {k} |-> IF x \in DOMAIN map THEN map[x] ELSE v]

\* std::stol skips spaces, and reads an optional sign and the digits after it.
Unspaced(v) == SubSeq(v, Span(v, {Space}) + 1, Len(v))
Signed(v) == Unspaced(v) # <<>> /\ Unspaced(v)[1] \in {"-", "+"}
Negative(v) == Signed(v) /\ Unspaced(v)[1] = "-"
Digits(v) ==
  LET u == IF Signed(v) THEN Tail(Unspaced(v)) ELSE Unspaced(v)
  IN  SubSeq(u, 1, Span(u, Digit))
IsNumber(v) == Digits(v) # <<>>
Number(v) ==
  LET d == Digits(v)
      val == [x \in Digit |-> CASE x = "0" -> 0 [] x = "1" -> 1 [] x = "2" -> 2]
      upTo[i \in 0 .. Len(d)] == IF i = 0 THEN 0 ELSE 10 * upTo[i - 1] + val[d[i]]
  IN  IF Negative(v) THEN -upTo[Len(d)] ELSE upTo[Len(d)]
\* The length is compared as a size_t, where a negative number is huge.
\* Mutation: the terminating NUL is counted.
WithTerminator(v) == (Number(v) + 1) % Word
Announced(v) == Number(v) % Word

\* The C string that starts at s ends at its first NUL.
CString(s) == SubSeq(s, 1, Span(s, Sym \ {"NUL"}))
-----------------------------------------------------------------------------
(* State machine of ConsumeHeader: from a state, on a symbol, to a state.  *)

Path(from, on, to) == [from |-> from, on |-> on, to |-> to]

TargetPaths == {
  Path("METHOD_START", Token, "METHOD"),
  Path("METHOD", Token, "METHOD"),
  Path("METHOD", {Space}, "URI"),
  Path("URI", Visible, "URI"),
  Path("URI", {Space}, "HTTP_VERSION_H") }

VersionPaths == {
  Path("HTTP_VERSION_H", {"H"}, "HTTP_VERSION_T_1"),
  Path("HTTP_VERSION_T_1", {"T"}, "HTTP_VERSION_T_2"),
  Path("HTTP_VERSION_T_2", {"T"}, "HTTP_VERSION_P"),
  Path("HTTP_VERSION_P", {"P"}, "HTTP_VERSION_SLASH"),
  Path("HTTP_VERSION_SLASH", {"/"}, "HTTP_VERSION_MAJOR_START"),
  Path("HTTP_VERSION_MAJOR_START", Digit, "HTTP_VERSION_MAJOR"),
  Path("HTTP_VERSION_MAJOR", Digit, "HTTP_VERSION_MAJOR"),
  Path("HTTP_VERSION_MAJOR", {"."}, "HTTP_VERSION_MINOR_START"),
  Path("HTTP_VERSION_MINOR_START", Digit, "HTTP_VERSION_MINOR"),
  Path("HTTP_VERSION_MINOR", Digit, "HTTP_VERSION_MINOR"),
  Path("HTTP_VERSION_MINOR", {"\r"}, "EXPECTING_NEWLINE_1"),
  Path("EXPECTING_NEWLINE_1", {"\n"}, "HEADER_LINE_START") }

HeaderPaths == {
  Path("HEADER_LINE_START", {"\r"}, "EXPECTING_NEWLINE_3"),
  Path("HEADER_LINE_START", Blank, "HEADER_LWS"),
  Path("HEADER_LINE_START", Token, "HEADER_NAME"),
  Path("HEADER_LWS", {"\r"}, "EXPECTING_NEWLINE_2"),
  Path("HEADER_LWS", Blank, "HEADER_LWS"),
  Path("HEADER_LWS", Visible, "HEADER_VALUE"),
  Path("HEADER_NAME", Token, "HEADER_NAME"),
  Path("HEADER_NAME", {":"}, "SPACE_BEFORE_HEADER_VALUE"),
  Path("SPACE_BEFORE_HEADER_VALUE", {Space}, "HEADER_VALUE"),
  Path("HEADER_VALUE", Plain, "HEADER_VALUE"),
  Path("HEADER_VALUE", {"\r"}, "EXPECTING_NEWLINE_2"),
  Path("EXPECTING_NEWLINE_2", {"\n"}, "HEADER_LINE_START"),
  Path("EXPECTING_NEWLINE_3", Sym, "CONTENT_BODY") }

Paths == TargetPaths \cup VersionPaths \cup HeaderPaths

\* Two paths depend on what was parsed: a URI ends if it is valid once decoded,
\* and a line is continued if some header was stored before it.
Accepting(c) ==
  {p \in Paths :
     /\ p.from = state /\ c \in p.on
     /\ p.to = "HTTP_VERSION_H" => ValidUri(UrlDecode(uri))
     /\ p.to = "HEADER_LWS" /\ p.from = "HEADER_LINE_START" => DOMAIN headers # {}}

State == {"METHOD_START"} \cup {p.to : p \in Paths}

\* What a symbol that is accepted does to the strings.
Collect(c) ==
  /\ method_' = IF state \in {"METHOD_START", "METHOD"} /\ c # Space
                  THEN Append(method_, c) ELSE method_
  /\ header_key_' = CASE state = "HEADER_LINE_START" /\ c \in Token -> <<ToLower(c)>>
                      [] state = "HEADER_NAME" /\ c # ":" -> Append(header_key_, ToLower(c))
                      [] OTHER -> header_key_
  /\ header_val_' = CASE state = "HEADER_LINE_START" /\ c \in Token -> <<>>
                      [] state = "HEADER_VALUE" /\ c \in Plain -> Append(header_val_, c)
                      [] state = "HEADER_LWS" /\ c \in Visible -> Append(header_val_, c)
                      [] OTHER -> header_val_

\* A header is stored when the next one starts, the last one at the end.
\* Mutation of Stores: the last header is forgotten.
StoresAtNext(c) ==
  header_key_ # <<>> /\ state = "HEADER_LINE_START" /\ c \in Token
Stores(c) ==
  /\ header_key_ # <<>>
  /\ \/ state = "HEADER_LINE_START" /\ c \in Token
     \/ state = "EXPECTING_NEWLINE_3"
-----------------------------------------------------------------------------
(* ConnectionBase::ReadSome and the steps of the Parse it calls.           *)

Phase == {"reading", "header", "payload", "good", "bad", "threw"}

\* request_ has no initializer for its method.
Init ==
  /\ message \in Messages /\ wire = message
  /\ phase = "reading" /\ buffer = <<>> /\ full = FALSE
  /\ state = "METHOD_START"
  /\ method_ = <<>> /\ header_key_ = <<>> /\ header_val_ = <<>>
  /\ method = "indeterminate"
  /\ uri = <<>> /\ headers = <<>> /\ body = <<>>

\* Parse goes on where the last read left it: in the header, or in the body.
\* Mutation: always in the header.
AlwaysHeader == "header"
Resumes == IF state = "CONTENT_BODY" THEN "payload" ELSE "header"

\* The read that fills buffer_ puts its terminating NUL one past the end, on
\* the low byte of request_.method_, which follows: that makes it GET.
ReadSome(n) ==
  /\ phase = "reading"
  /\ n \in 1 .. Len(wire) /\ n <= BufSize
  /\ buffer' = SubSeq(wire, 1, n)
  /\ wire' = SubSeq(wire, n + 1, Len(wire))
  /\ full' = (n = BufSize)
  /\ method' = IF n = BufSize /\ method \in Method THEN "GET" ELSE method
  /\ phase' = Resumes
  /\ UNCHANGED <<message, parserVars, uri, headers, body>>

\* GOOD and BAD both lead to ConsumePayload.  Mutation: BAD is the answer.
RefusesAtOnce(c) == CASE Accepting(c) = {} -> "bad"
                      [] Accepting(c) # {} /\ state = "EXPECTING_NEWLINE_3" -> "payload"
                      [] OTHER -> "header"
Leads(c) ==
  IF Accepting(c) = {} \/ state = "EXPECTING_NEWLINE_3" THEN "payload" ELSE "header"

ConsumeHeader ==
  /\ phase = "header" /\ buffer # <<>>
  /\ buffer' = Tail(buffer)
  /\ LET c == Head(buffer)
     IN  /\ IF Accepting(c) # {}
              THEN Collect(c) /\ state' \in {p.to : p \in Accepting(c)}
              ELSE UNCHANGED parserVars
         /\ phase' = Leads(c)
         /\ method' = IF state = "METHOD" /\ c = Space THEN MethodType(method_) ELSE method
         /\ uri' = CASE state = "URI" /\ c = Space -> UrlDecode(uri)
                     [] state = "URI" /\ c \in Visible -> Append(uri, c)
                     [] OTHER -> uri
         /\ headers' = IF Stores(c) THEN Insert(headers, header_key_, header_val_)
                                    ELSE headers
  /\ UNCHANGED <<message, wire, full, body>>

\* The read is used up before the header ended: read on.
HeaderIndeterminate ==
  /\ phase = "header" /\ buffer = <<>>
  /\ phase' = "reading"
  /\ UNCHANGED <<message, wire, buffer, full, parserVars, requestVars>>

\* A method that was parsed from a read that filled buffer_ has overwritten the
\* NUL behind it: what is read as a C string goes on to the low byte of the
\* method, and ends at its next one.  GET is zero, and a NUL itself.
Overrun == IF full /\ method \in Method \ {"GET"} THEN <<"low">> ELSE <<>>

\* What is left of the read is body if a length was announced, and ignored
\* otherwise.  A symbol that ConsumeHeader refuses leads here as well.
ConsumePayload ==
  /\ phase = "payload"
  /\ buffer' = <<>>
  /\ IF ContentLength \notin DOMAIN headers
       THEN phase' = "good" /\ UNCHANGED body
       ELSE LET v == headers[ContentLength]
            IN  IF ~IsNumber(v)
                  THEN phase' = "threw" /\ UNCHANGED body
                  ELSE /\ body' = body \o CString(buffer \o Overrun)
                       /\ phase' = CASE Len(body') < Announced(v) -> "reading"
                                     [] Len(body') > Announced(v) -> "bad"
                                     [] OTHER -> "good"
  /\ UNCHANGED <<message, wire, full, parserVars, method, uri, headers>>

Parse == ConsumeHeader \/ HeaderIndeterminate \/ ConsumePayload

Next == Parse \/ \E n \in 1 .. BufSize : ReadSome(n)

Spec == Init /\ [][Next]_vars

-----------------------------------------------------------------------------
TypeOK ==
  /\ message \in Seq(Sym) /\ wire \in Seq(Sym) /\ buffer \in Seq(Sym)
  /\ phase \in Phase /\ full \in BOOLEAN /\ state \in State
  /\ method_ \in Seq(Sym) /\ header_key_ \in Seq(Sym) /\ header_val_ \in Seq(Sym)
  /\ method \in Method \cup {"indeterminate"} /\ uri \in Seq(Sym) /\ body \in Seq(Sym)
  /\ DOMAIN headers \subseteq Seq(Sym) /\ \A k \in DOMAIN headers : headers[k] \in Seq(Sym)

\* The only ground on which a message is refused is the length of its body:
\* one that announces no length is never refused, whatever its syntax.
RefusedForLengthOnly ==
  phase \in {"bad", "threw"} =>
    \E i \in 1 .. Len(message) : ToLower(message[i]) = "content-length"
=============================================================================
