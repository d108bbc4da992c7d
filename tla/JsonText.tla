------------------------------- MODULE JsonText -------------------------------
(***************************************************************************)
(* json::Object::ToString and json::Parser as operators on texts.          *)
(*                                                                         *)
(* A text is a sequence of symbols: the characters the parser tells apart, *)
(* the words true, false and null, and numbers as they are printed, each   *)
(* of them one symbol, and letters.  An element is a pair of its type and  *)
(* its value.                                                              *)
(***************************************************************************)
EXTENDS Integers, Sequences

CONSTANTS KeyOrder,  \* the keys in the order of std::map
          Letter     \* symbols that mean nothing to the parser

Quote == "quote"
Backslash == "backslash"
Comma == "comma"
Space == "space"
LeftBrace == "left_brace"
RightBrace == "right_brace"

NumberText == {"1", "2", "1e+20", "2.5", "1.23457e+06"}
Symbol ==
  {LeftBrace, RightBrace, "[", "]", Comma, ":", Quote, Backslash, Space, "\n", "\r", "\t",
   "n", "r", "t", "f", "true", "false", "null"} \cup NumberText \cup Letter

Null == [null |-> TRUE, elements |-> <<>>]
MakeObject(elements) == [null |-> FALSE, elements |-> elements]

Type(element) == element[1]
Value(element) == element[2]

\* operator<< shows six digits, and no point where nothing follows it.
DoubleText == [d \in {"2.5", "2.0", "1e20", "1234567.5"} |->
                 CASE d = "2.5" -> "2.5" [] d = "2.0" -> "2" [] d = "1e20" -> "1e+20"
                   [] d = "1234567.5" -> "1.23457e+06"]
IntegerText == [n \in {"1"} |-> n]

\* std::stoll takes the digits a token begins with, std::stold the whole of a
\* number.
Stoll == [t \in NumberText |-> CASE t \in {"2", "2.5"} -> "2" [] OTHER -> "1"]
Stold == [t \in NumberText |->
            CASE t = "1" -> "1.0" [] t = "2" -> "2.0" [] t = "1e+20" -> "1e20" [] t = "2.5" -> "2.5"
              [] t = "1.23457e+06" -> "1234570.0"]
Dotted == {"2.5", "1.23457e+06"}
-----------------------------------------------------------------------------
(* Writing.                                                                *)

\* From each place on, one place after the other, a symbol and the width - 1
\* symbols that follow it give way to rep.  object.cpp and array.cpp define this
\* function with two widths.
Replacing(str, symbol, rep, width) ==
  LET from[i \in 1 .. Len(str) + 2] ==
        IF i > Len(str) THEN <<>>
        ELSE IF str[i] = symbol THEN rep \o from[i + width]
        ELSE <<str[i]>> \o from[i + 1]
  IN  from
Replace(str, symbol, rep, width) == Replacing(str, symbol, rep, width)[1]

\* Mutation of Sanitized: new lines are forgotten.
SanitizesQuotes(str, width) == Replace(str, Quote, <<Backslash, Quote>>, width)

Sanitized(str, width) ==
  Replace(Replace(str, Quote, <<Backslash, Quote>>, width), "\n", <<Backslash, "n">>, width)

Quoted(str) == <<Quote>> \o str \o <<Quote>>

ScalarText(e, width) ==
  CASE Type(e) = "STRING"  -> Quoted(Sanitized(Value(e), width))
    [] Type(e) = "BOOLEAN" -> <<IF Value(e) THEN "true" ELSE "false">>
    [] Type(e) = "DOUBLE"  -> <<DoubleText[Value(e)]>>
    [] Type(e) = "INTEGER" -> <<IntegerText[Value(e)]>>

Separator(first) == IF first THEN <<>> ELSE <<Comma>>

\* The rest of an array, from each of its items on.
ArrayRests(texts) ==
  LET from[i \in 1 .. Len(texts) + 1] ==
        IF i > Len(texts) THEN <<"]">> ELSE Separator(i = 1) \o texts[i] \o from[i + 1]
  IN  from
ArrayText(texts) == <<"[">> \o ArrayRests(texts)[1]

\* A member is written if there is one with the i-th key, which is written as it
\* is.
MemberText(texts, i) ==
  LET k == KeyOrder[i]
  IN  IF k \notin DOMAIN texts THEN <<>>
      ELSE Separator(\A j \in 1 .. i - 1 : KeyOrder[j] \notin DOMAIN texts)
             \o Quoted(k) \o <<":">> \o texts[k]

\* The rest of an object, from each of the keys on.
ObjectRests(texts) ==
  LET from[i \in 1 .. Len(KeyOrder) + 1] ==
        IF i > Len(KeyOrder) THEN <<RightBrace>> ELSE MemberText(texts, i) \o from[i + 1]
  IN  from
ObjectText(texts) == <<LeftBrace>> \o ObjectRests(texts)[1]
-----------------------------------------------------------------------------
(* Reading.  Each function is given the place of its first symbol and      *)
(* leaves at the place of its last.                                        *)

Returns(value, at) == [how |-> "returned", value |-> value, at |-> at]
Throws == [how |-> "threw"]

\* A place after the NUL that ends a text was read.
Undefined == [how |-> "undefined"]

\* Mutation of Blank: the tabulator is forgotten.
SpaceOrLine == {Space, "\n"}

Blank == {Space, "\n", "\t"}
ArrayBlank == {Space, "\n", "\r", "\t"}

At(text, p) == IF p <= Len(text) THEN text[p] ELSE "NUL"

\* The first of some places, or the one after the text.
FirstOf(text, places) ==
  IF places = {} THEN Len(text) + 1 ELSE CHOOSE p \in places : \A q \in places : p <= q

\* The first place from p on that has another symbol, or has one of these.
Past(text, p, symbols) == FirstOf(text, {q \in p .. Len(text) : text[q] \notin symbols})
Until(text, p, symbols) == FirstOf(text, {q \in p .. Len(text) : text[q] \in symbols})

\* What an escape stands for: nothing, but for these.
Escape(c) ==
  CASE c = "n" -> <<"\n">> [] c = "r" -> <<"\r">> [] c = "t" -> <<"\t">>
    [] c = Quote -> <<Quote>> [] OTHER -> <<>>

\* From each place on, what a string goes on with; it ends with its quote or with
\* the text.
StringRests(text) ==
  LET from[q \in 1 .. Len(text) + 2] ==
        IF q > Len(text) \/ At(text, q) = Quote THEN Returns(<<>>, q)
        ELSE LET isEscape == text[q] = Backslash
                 rest == from[IF isEscape THEN q + 2 ELSE q + 1]
             IN  Returns((IF isEscape THEN Escape(At(text, q + 1)) ELSE <<text[q]>>) \o rest.value,
                         rest.at)
  IN  from
ParseString(text, p) == StringRests(text)[p + 1]

ParseBoolean(text, p) ==
  CASE At(text, p) = "true"  -> Returns(TRUE, p)
    [] At(text, p) = "false" -> Returns(FALSE, p)
    [] OTHER                 -> Throws

\* Mutation of NumberEnds: the end of an object does not end a number.
WithoutBrace == {Comma, Space}

NumberEnds == {Comma, Space, RightBrace}

\* Mutation of ParseNumber: points are not looked for.
IntegersOnly(text, p) ==
  LET last == Until(text, p, NumberEnds) - 1
  IN  IF last = Len(text) THEN Undefined ELSE Returns(<<"INTEGER", Stoll[text[p]]>>, last)

\* A number ends before a comma, a space or a brace, and with nothing else.
ParseNumber(text, p) ==
  LET last == Until(text, p, NumberEnds) - 1
  IN  IF last = Len(text) THEN Undefined
      ELSE Returns(IF \E q \in p .. last : text[q] \in Dotted THEN <<"DOUBLE", Stold[text[p]]>>
                                                              ELSE <<"INTEGER", Stoll[text[p]]>>,
                   last)

\* An element with what was read, of the type of its value.
Typed(type, result) ==
  IF result.how = "returned" THEN Returns(<<type, result.value>>, result.at) ELSE result

\* A member that was read before those of an object: of a key that comes again
\* the first value stays.
PutBefore(key, element, object) ==
  MakeObject([k \in {key} \cup DOMAIN object.elements |->
                IF k = key THEN element ELSE object.elements[k]])

(* The functions that call each other are given what they return, as a     *)
(* function of what is read and from where (Reading).                      *)

\* The loop of ParseObject, from where it expects a key.
MoreMembers(read, text, state, p) ==
  LET q == Past(text, p, Blank)
      key == ParseString(text, q)
      v == Past(text, Until(text, key.at + 1, {":"}) + 1, Blank)
      val == read[<<"FETCH_VALUE", v>>]
      c == Past(text, val.at + 1, Blank)
      rest == read[<<"FETCH_KEY_AFTER_COMMA", c + 1>>]
  IN  IF At(text, q) = RightBrace /\ q <= Len(text)
        THEN IF state = "FETCH_KEY" THEN Returns(Null, q) ELSE Throws
      ELSE IF q <= Len(text) /\ At(text, q) # Quote THEN Throws
      ELSE IF q > Len(text) \/ v > Len(text) THEN Returns(Null, Len(text) + 1)
      ELSE IF val.how # "returned" THEN val
      ELSE IF c > Len(text) \/ At(text, c) = RightBrace
        THEN Returns(PutBefore(key.value, val.value, Null), c)
      ELSE IF At(text, c) # Comma THEN Throws
      ELSE IF rest.how # "returned" THEN rest
      ELSE Returns(PutBefore(key.value, val.value, rest.value), rest.at)

ParseObject(read, text, p) ==
  CASE At(text, p) = "null"    -> Returns(Null, p)
    [] At(text, p) = LeftBrace -> read[<<"FETCH_KEY", p + 1>>]
    [] OTHER                -> Throws

\* The loop of ParseArray, from where it expects an item.
MoreItems(read, text, state, p) ==
  LET val == read[<<"FETCH_VALUE", p>>]
      c == Past(text, val.at + 1, ArrayBlank)
      rest == read[<<"NEXT_ITEM", c + 1>>]
  IN  IF At(text, p) = "]"
        THEN IF state = "FIRST_ITEM" THEN Returns(<<>>, p) ELSE Throws
      ELSE IF val.how # "returned" THEN val
      ELSE IF val.at > Len(text) THEN Undefined
      ELSE IF At(text, c) = "]" THEN Returns(<<val.value>>, c)
      ELSE IF At(text, c) # Comma THEN Throws
      ELSE IF rest.how # "returned" THEN rest
      ELSE Returns(<<val.value>> \o rest.value, rest.at)

\* Mutation of ParseArray: what does not read as an array is taken for an empty one.
IgnoresErrors(read, text, p) ==
  LET items == read[<<"FIRST_ITEM", p + 1>>]
  IN  IF items.how = "threw" THEN Returns(<<>>, p) ELSE items

ParseArray(read, text, p) == read[<<"FIRST_ITEM", p + 1>>]

ParseValue(read, text, p) ==
  LET c == At(text, p)
  IN  CASE c = Quote            -> Typed("STRING", ParseString(text, p))
        [] c \in {LeftBrace, "null"} -> Typed("OBJECT", ParseObject(read, text, p))
        [] c \in NumberText     -> ParseNumber(text, p)
        [] c \in {"t", "f", "true", "false"} -> Typed("BOOLEAN", ParseBoolean(text, p))
        [] c = "["              -> Typed("ARRAY", ParseArray(read, text, p))
        [] OTHER                -> Throws

ReadState == {"FETCH_KEY", "FETCH_KEY_AFTER_COMMA", "FETCH_VALUE", "FIRST_ITEM", "NEXT_ITEM"}

Reading(text) ==
  LET read[a \in ReadState \X (1 .. Len(text) + 1)] ==
        CASE a[1] = "FETCH_VALUE"              -> ParseValue(read, text, a[2])
          [] a[1] \in {"FIRST_ITEM", "NEXT_ITEM"} -> MoreItems(read, text, a[1], a[2])
          [] OTHER                             -> MoreMembers(read, text, a[1], a[2])
  IN  read

\* Object::Object(const std::string&)
Parsed(text) == ParseObject(Reading(text), text, 1)
=============================================================================
