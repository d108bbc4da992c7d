----------------------------- MODULE JsonDocument -----------------------------
(***************************************************************************)
(* A document from the program that builds it to the one that reads it:    *)
(* objects and arrays under every sequence of calls, ToString, a text that *)
(* arrives cut or with a blank put in, Parser, and the getters.            *)
(***************************************************************************)
EXTENDS JsonObject, JsonText, SequencesExt

CONSTANTS Widths      \* the widths of the functions replace_ that may be linked

ASSUME KeysAssumption ==
  /\ KeyOrder \in Seq(Seq(Symbol)) /\ Key = ToSet(KeyOrder)
  /\ \A i, j \in 1 .. Len(KeyOrder) : i # j => KeyOrder[i] # KeyOrder[j]
ASSUME ScalarsAssumption ==
  Scalars \subseteq ({"STRING"} \X Seq(Symbol)) \cup ({"BOOLEAN"} \X BOOLEAN)
                   \cup ({"INTEGER"} \X DOMAIN IntegerText) \cup ({"DOUBLE"} \X DOMAIN DoubleText)
ASSUME WidthsAssumption == Widths \subseteq {1, 2}

VARIABLES
  phase,      \* what happened last to the document
  document,   \* what was written, and how
  text,       \* the text on its way
  result,     \* what Parser made of it
  got         \* what a getter returned to the reader

vars == <<building, phase, document, text, result, got>>

Init ==
  /\ BuildInit
  /\ phase = "building"
  /\ document = <<>> /\ text = <<>> /\ result = <<>> /\ got = <<>>
-----------------------------------------------------------------------------
(* The writer.                                                             *)

Call == phase = "building" /\ Build /\ UNCHANGED <<phase, document, text, result, got>>

\* What is written for an object or array; a null object is written without its
\* elements.
Content(r) ==
  CASE Type(r) = "ARRAY"  -> ToSet(items[Value(r)])
    [] Type(r) = "OBJECT" -> IF null[Value(r)] THEN {} ELSE Range(elements[map[Value(r)]])

\* The objects and arrays that writing follows n deep.
Deep[n \in 0 .. Cardinality(Reference)] ==
  IF n = 0 THEN Reference ELSE {r \in Reference : Content(r) \cap Deep[n - 1] # {}}

Endless(x) == <<"OBJECT", x>> \in Deep[Cardinality(Reference)]

\* An element with all it refers to: as a tree, as a text, and, of the elements
\* below it and itself, those it consists of (nodes) and what may be taken for it
\* where its text ends early (parts).  An array is whole, a string may have lost
\* its end, an object its last members and parts of the one that is last.
WrittenScalar(e, width) ==
  [tree |-> e, text |-> ScalarText(e, width), nodes |-> {e},
   parts |-> IF Type(e) # "STRING" THEN {e}
             ELSE {<<"STRING", SubSeq(Value(e), 1, i)>> : i \in 0 .. Len(Value(e))}]

WrittenArray(written) ==
  LET tree == <<"ARRAY", [i \in 1 .. Len(written) |-> written[i].tree]>>
  IN  [tree |-> tree, text |-> ArrayText([i \in 1 .. Len(written) |-> written[i].text]),
       nodes |-> {tree} \cup UNION {written[i].nodes : i \in 1 .. Len(written)}, parts |-> {tree}]

WrittenNull == [tree |-> <<"OBJECT", Null>>, text |-> <<"null">>, nodes |-> {<<"OBJECT", Null>>},
                parts |-> {<<"OBJECT", Null>>}]

WrittenObject(written) ==
  LET tree == <<"OBJECT", MakeObject([k \in DOMAIN written |-> written[k].tree])>>
      \* The members up to the i-th key, of which that has this element.
      upTo(i, last) ==
        MakeObject([k \in {KeyOrder[j] : j \in 1 .. i} \cap DOMAIN written |->
                      IF k = KeyOrder[i] THEN last ELSE written[k].tree])
  IN  [tree |-> tree, text |-> ObjectText([k \in DOMAIN written |-> written[k].text]),
       nodes |-> {tree} \cup UNION {written[k].nodes : k \in DOMAIN written},
       parts |-> {<<"OBJECT", Null>>} \cup
                 UNION {{<<"OBJECT", upTo(i, last)>> : last \in written[KeyOrder[i]].parts} :
                          i \in {j \in 1 .. Len(KeyOrder) : KeyOrder[j] \in DOMAIN written}}]

\* From what is written for the elements below.
WrittenNode(r, below) ==
  CASE Type(r) = "ARRAY" ->
         WrittenArray([i \in 1 .. Len(items[Value(r)]) |-> below[items[Value(r)][i]]])
    [] Type(r) = "OBJECT" ->
         IF null[Value(r)] THEN WrittenNull
         ELSE WrittenObject([k \in DOMAIN elements[map[Value(r)]] |->
                               below[elements[map[Value(r)]][k]]])

\* Elements that are not n deep.
Written(width) ==
  LET written[n \in 0 .. Cardinality(Reference)] ==
        [e \in Scalars \cup Reference |->
           IF e \in Scalars THEN WrittenScalar(e, width)
           ELSE IF n = 0 THEN WrittenNull ELSE WrittenNode(e, written[n - 1])]
  IN  written

\* ToString, after which the writer is done with its objects.  Which width
\* replace_ has is decided when the program is linked.
Write(x, width) ==
  LET written == Written(width)[Cardinality(Reference)][<<"OBJECT", x>>]
  IN  /\ phase = "building" /\ ~Endless(x)
      /\ phase' = "written"
      /\ document' = [tree |-> Value(written.tree), nodes |-> written.nodes,
                      parts |-> written.parts, width |-> width, blank |-> 0]
      /\ text' = written.text
      /\ Forget
      /\ UNCHANGED <<result, got>>

\* An object that holds itself is written until the stack ends.
Overflow(x) ==
  /\ phase = "building" /\ Endless(x)
  /\ phase' = "overflowed"
  /\ UNCHANGED <<building, document, text, result, got>>
-----------------------------------------------------------------------------
(* The way of the text, and the reader.                                    *)

InString(open) == open # <<>> /\ Last(open) = Quote

\* The brackets and quotes that are open after each place, the last one last.
Open(str) ==
  LET open[i \in 0 .. Len(str)] ==
        IF i = 0 THEN <<>>
        ELSE LET outer == open[i - 1]
                 close == SubSeq(outer, 1, Len(outer) - 1)
             IN  IF InString(outer)
                   THEN IF str[i] = Quote /\ str[i - 1] # Backslash THEN close ELSE outer
                 ELSE IF str[i] \in {LeftBrace, "[", Quote} THEN Append(outer, str[i])
                 ELSE IF str[i] \in {RightBrace, "]"} THEN close
                 ELSE outer
  IN  open

\* The text ends early.
Cut(n) ==
  /\ phase = "written" /\ n < Len(text)
  /\ phase' = "cut"
  /\ text' = SubSeq(text, 1, n)
  /\ UNCHANGED <<building, document, result, got>>

\* Someone writes the text with a blank after place i.
Format(i, blank) ==
  /\ phase = "written" /\ ~InString(Open(text)[i])
  /\ phase' = "formatted"
  /\ document' = [document EXCEPT !.blank = i + 1]
  /\ text' = SubSeq(text, 1, i) \o <<blank>> \o SubSeq(text, i + 1, Len(text))
  /\ UNCHANGED <<building, result, got>>

\* Object::Object(const std::string&)
Read ==
  /\ phase \in {"written", "cut", "formatted"}
  /\ phase' = CASE phase = "written"   -> "readWhole"
                [] phase = "cut"       -> "readCut"
                [] phase = "formatted" -> "readFormatted"
  /\ result' = Parsed(text)
  /\ UNCHANGED <<building, document, text, got>>

\* An element has one union for its numbers and truth values: asked for
\* another of those types it returns some of the bytes that are there.  A
\* string, array or object it does not have is empty.
GetAs(object, k, type) ==
  IF k \notin DOMAIN object.elements THEN <<"ExceptionKeyNotFound">>
  ELSE IF Type(object.elements[k]) = type THEN object.elements[k]
  ELSE IF type \in {"INTEGER", "DOUBLE", "BOOLEAN"} THEN <<"indeterminate">>
  ELSE <<"empty">>

\* The reader asks for the members it knows of by the types they have.
Get(k) ==
  /\ phase = "readWhole" /\ result.how = "returned"
  /\ k \in DOMAIN document.tree.elements
  /\ phase' = "asked"
  /\ got' = <<k, GetAs(result.value, k, Type(document.tree.elements[k]))>>
  /\ UNCHANGED <<building, document, text, result>>

Next ==
  \/ Call
  \/ \E x \in Object : Overflow(x)
  \/ \E x \in Object, width \in Widths : Write(x, width)
  \/ \E n \in 0 .. Len(text) : Cut(n)
  \/ \E i \in 0 .. Len(text), blank \in ArrayBlank : Format(i, blank)
  \/ Read
  \/ \E k \in Key : Get(k)

Spec == Init /\ [][Next]_vars
-----------------------------------------------------------------------------
(* Properties.                                                             *)

\* A string comes back from its text if no backslash is in it; where replace_
\* takes two symbols, only the last may be one that is replaced.
KeptString(str, width) ==
  /\ ~Contains(str, Backslash)
  /\ width = 2 => \A i \in 1 .. Len(str) - 1 : str[i] \notin {Quote, "\n"}

KeptKey(k) == ~Contains(k, Quote) /\ ~Contains(k, Backslash)

EndsWithNumber(array) == array # <<>> /\ Type(Last(array)) \in {"INTEGER", "DOUBLE"}

\* The documents the two halves agree on: doubles are shown with a point and
\* all their digits, no array ends with a number, and no object that is not
\* null is empty.
KeptNode(e, width) ==
  CASE Type(e) = "STRING" -> KeptString(Value(e), width)
    [] Type(e) = "DOUBLE" -> Value(e) = "2.5"
    [] Type(e) = "OBJECT" ->
         \/ Value(e).null
         \/ DOMAIN Value(e).elements # {} /\ \A k \in DOMAIN Value(e).elements : KeptKey(k)
    [] Type(e) = "ARRAY"  -> ~EndsWithNumber(Value(e))
    [] OTHER -> TRUE

Kept(nodes, width) == \A e \in nodes : KeptNode(e, width)

DocumentIsKept == Kept(document.nodes, document.width)
AsWritten == result.how = "returned" /\ result.value = document.tree

HasQuotedKey(e) == Type(e) = "OBJECT" /\ \E k \in DOMAIN Value(e).elements : Contains(k, Quote)

\* What Parser makes of a text of ToString is what was written for the kept
\* documents,
KeptComesBack == phase = "readWhole" /\ DocumentIsKept => AsWritten

\* and for no others that have no quote in a key: what is lost on the way is never
\* made up for by what is read instead.
OnlyKeptComesBack ==
  phase = "readWhole" /\ AsWritten => DocumentIsKept \/ \E e \in document.nodes : HasQuotedKey(e)

\* What is read is what was written for those documents exactly.
RoundTrip == KeptComesBack /\ OnlyKeptComesBack

\* ToString sanitizes strings, so that quotes and new lines in them come back
\* as everything else does.
SanitizedIsKept == phase = "readWhole" /\ Kept(document.nodes, 1) => AsWritten

\* A blank that somebody puts into the text of a kept document makes no other
\* document of it.  It is refused before the document and before the items of
\* an array, and nowhere else unless it is a carriage return.
FormattedIsRead ==
  phase = "readFormatted" /\ DocumentIsKept =>
    LET i == document.blank
        refused == \/ i = 1
                   \/ text[i - 1] = "["
                   \/ text[i - 1] = Comma /\ Last(Open(text)[i - 1]) = "["
    IN  /\ AsWritten \/ result.how = "threw"
        /\ text[i] # "\r" => (AsWritten <=> ~refused)

\* A text that ends early may be taken for a document, which then is a
\* beginning of the one that was written: members are read in their order, whole
\* but for the last.
CutIsPart ==
  phase = "readCut" /\ DocumentIsKept /\ result.how = "returned" =>
    <<"OBJECT", result.value>> \in document.parts

\* Parser reads past the end of what ToString wrote of a kept document only if
\* the text was cut, right after a number or in an array.
ReadsWithin ==
  /\ phase \in {"readWhole", "readCut", "readFormatted"}
  /\ DocumentIsKept /\ result.how = "undefined"
  =>
    /\ phase = "readCut"
    /\ Last(text) \in NumberText \/ Contains(Open(text)[Len(text)], "[")

\* A string may end where its text does not: at a quote that has no backslash
\* before it, or after its last one.
EndsElsewhere(str, width) ==
  LET quoted == Quoted(Sanitized(str, width))
  IN  ParseString(quoted, 1).at # Len(quoted)

\* What keeps the elements that follow from being found.
Misleads(e, width) ==
  CASE Type(e) = "STRING" -> EndsElsewhere(Value(e), width)
    [] Type(e) = "OBJECT" -> \E k \in DOMAIN Value(e).elements : ~KeptKey(k)
    [] Type(e) = "ARRAY"  -> EndsWithNumber(Value(e))
    [] OTHER -> FALSE

\* A reader who asks for numbers by the types they were put with is given bytes
\* of another type only for doubles that were shown without a point, or in
\* documents whose text misleads the parser.
NumbersAreRead ==
  phase = "asked" /\ got[2] = <<"indeterminate">> =>
    \/ \E e \in document.nodes : Misleads(e, document.width)
    \/ LET e == document.tree.elements[got[1]]
       IN  Type(e) = "DOUBLE" /\ DoubleText[Value(e)] \notin Dotted
=============================================================================
