---------------------------- MODULE RequestClient ----------------------------
(***************************************************************************)
(* RequestParser with the clients it is written for, and what they are     *)
(* promised: a request that is sent is the request that is parsed, however *)
(* the network cuts it into reads.                                         *)
(***************************************************************************)
EXTENDS RequestParser, SequencesExt

CONSTANTS Requests,   \* what clients mean to send
          Careless,   \* those of them that may be sent with a fault
          Faults      \* symbols a client may send in place of another

ASSUME CarelessAssumption == Careless \subseteq Requests

\* What a client can mean: every header has a line, and the length of a body is
\* a size_t.
ASSUME RequestAssumption ==
  \A r \in Requests :
    /\ r \in [method : Token, uri : Seq(Visible),
             headers : Seq([name : Token, lines : Seq(Seq(Plain)) \ {<<>>}]), body : Seq(Sym)]
    /\ Len(r.body) < Word

VARIABLE sent   \* the request the client means

CrLf == <<"\r", "\n">>

\* The lines after the first that a header value is continued on begin with a
\* space.
EncodeLine(line) == <<Space>> \o line \o CrLf
EncodeHeader(h) ==
  <<h.name, ":">> \o FlattenSeq([i \in 1 .. Len(h.lines) |-> EncodeLine(h.lines[i])])

Encode(r) ==
  <<r.method, Space>> \o r.uri \o <<Space, "H", "T", "T", "P", "/", "1", ".", "1">> \o CrLf
    \o FlattenSeq([i \in 1 .. Len(r.headers) |-> EncodeHeader(r.headers[i])]) \o CrLf \o r.body

\* A careless client may get one symbol wrong.
Sends(r) ==
  LET m == Encode(r)
  IN  {m} \cup {[m EXCEPT ![i] = c] : i \in {j \in 1 .. Len(m) : r \in Careless}, c \in Faults}

ClientInit == sent \in Requests /\ message \in Sends(sent) /\ Init

ClientSpec == ClientInit /\ [][Next /\ UNCHANGED sent]_<<vars, sent>>

\* What was sent is read, in whatever portions.
FairClientSpec == ClientSpec /\ WF_<<vars, sent>>(Next /\ UNCHANGED sent)

\* Header names do not differ in case, of a repeated one the first counts, and
\* a line that continues a value does so after its spaces.
Name(r, i) == <<ToLower(r.headers[i].name)>>
FirstNamed(r, k) == CHOOSE i \in 1 .. Len(r.headers) :
                      Name(r, i) = k /\ \A j \in 1 .. i - 1 : Name(r, j) # k
Value(lines) ==
  Head(lines) \o FlattenSeq([i \in 1 .. Len(lines) - 1 |-> Unspaced(lines[i + 1])])
Meant(r) == [k \in {Name(r, i) : i \in 1 .. Len(r.headers)} |->
               Value(r.headers[FirstNamed(r, k)].lines)]

Announces(r) == ContentLength \in DOMAIN Meant(r)

\* The requests the parser is made for: a valid URI, a first header on one
\* line, and a body of text that is as long as announced.
Readable(r) ==
  /\ ValidUri(UrlDecode(r.uri))
  /\ r.headers # <<>> => Len(r.headers[1].lines) = 1
Proper(r) ==
  /\ Readable(r)
  /\ IF Announces(r)
       THEN /\ IsNumber(Meant(r)[ContentLength])
            /\ Number(Meant(r)[ContentLength]) = Len(r.body)
            /\ CString(r.body) = r.body
       ELSE r.body = <<>>

Expected == message = Encode(sent) /\ Proper(sent)

\* A read that fills buffer_ can hold both the end of the method, its second
\* symbol, and the end of the header, and the method is one that is no NUL.
MayOverrun(r) ==
  /\ Announces(r) /\ MethodType(<<r.method>>) # "GET"
  /\ BufSize <= Len(Encode(r))
  /\ Len(Encode(r)) - Len(r.body) <= BufSize + 1
-----------------------------------------------------------------------------
\* A proper request arrives as it was sent, whatever portions it is read in;
\* only its method does not survive a request that is longer than buffer_, and
\* its body may be damaged if what follows buffer_ can become a part of it.
DeliveredAsSent ==
  phase = "good" /\ Expected =>
    /\ method = MethodType(<<sent.method>>)
         \/ (method = "GET" /\ Len(message) > BufSize)
    /\ uri = UrlDecode(sent.uri)
    /\ headers = Meant(sent)
    /\ body = sent.body \/ MayOverrun(sent)

\* A proper request that cannot overrun buffer_ is neither refused nor answered
\* before its last symbol was read, and none is asked for more after it.
DecidedAtItsEnd ==
  Expected =>
    /\ phase # "threw"
    /\ phase = "bad" => MayOverrun(sent)
    /\ phase = "good" => wire = <<>> \/ MayOverrun(sent)
    /\ phase = "reading" => wire # <<>>

\* The number of symbols that were announced is the number that is delivered:
\* a body that is longer is cut where a read ends, or refused, and no other
\* is but for the one symbol that may come from behind buffer_.
LengthIsKept ==
  /\ phase \in {"good", "bad"}
  /\ message = Encode(sent) /\ Announces(sent) /\ Readable(sent)
  => IF phase = "good"
       THEN Len(body) = Announced(Meant(sent)[ContentLength])
       ELSE Len(sent.body) + (IF MayOverrun(sent) THEN 1 ELSE 0)
              > Announced(Meant(sent)[ContentLength])

\* Every proper request is decided once its symbols were read, as good if it
\* cannot overrun buffer_.
ProperIsDecided ==
  Expected ~> phase = "good" \/ (phase = "bad" /\ MayOverrun(sent))
=============================================================================
