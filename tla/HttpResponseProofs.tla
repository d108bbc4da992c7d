------------------------- MODULE HttpResponseProofs -------------------------
(***************************************************************************)
(* Proofs about HttpResponse, for every set of contents, headers and       *)
(* statuses, and for handlers that make any number of calls.               *)
(***************************************************************************)
EXTENDS HttpResponse, TLAPS

Length == "Content-Length"
Type == "Content-Type"

\* The announced length is nobody's, the first content's, or zero.
LengthIsFirst ==
  /\ page # "none" => Length \in DOMAIN headers /\ headers[Length] = 0
  /\ page = "none" /\ Length \notin named =>
       IF given = <<>> THEN Length \notin DOMAIN headers
       ELSE Length \in DOMAIN headers /\ headers[Length] = Len(given[1])

\* The content is the last one, or the page.
ContentIsLast ==
  /\ given # <<>> => content = given[Len(given)]
  /\ page # "none" /\ given = <<>> => content = DefaultContent(page)

IInv == TypeOK /\ LengthIsFirst /\ ContentIsLast

\* The headers that set and generated contents insert.
Both(m, l, t) == Insert(Insert(m, Length, l), Type, t)
-----------------------------------------------------------------------------
\* What std::map::insert does to a map.
LEMMA Inserted ==
  ASSUME NEW m, NEW n, NEW v
  PROVE  /\ DOMAIN Insert(m, n, v) = DOMAIN m \cup {n}
         /\ \A k \in DOMAIN m : Insert(m, n, v)[k] = m[k]
         /\ n \notin DOMAIN m => Insert(m, n, v)[n] = v
  BY DEF Insert

\* What the two headers of a content do to the map.
LEMMA InsertedBoth ==
  ASSUME NEW m, NEW l, NEW t
  PROVE  /\ DOMAIN Both(m, l, t) = DOMAIN m \cup {Length, Type}
         /\ \A k \in DOMAIN m : Both(m, l, t)[k] = m[k]
         /\ Length \notin DOMAIN m => Both(m, l, t)[Length] = l
         /\ Type \notin DOMAIN m => Both(m, l, t)[Type] = t
<1> DEFINE g == Insert(m, Length, l)
<1>1. /\ DOMAIN g = DOMAIN m \cup {Length}
      /\ \A k \in DOMAIN m : g[k] = m[k]
      /\ Length \notin DOMAIN m => g[Length] = l
  BY Inserted
<1>2. Both(m, l, t) = Insert(g, Type, t)
  BY DEF Both
<1> HIDE DEF g
<1>3. /\ DOMAIN Insert(g, Type, t) = DOMAIN g \cup {Type}
      /\ \A k \in DOMAIN g : Insert(g, Type, t)[k] = g[k]
      /\ Type \notin DOMAIN g => Insert(g, Type, t)[Type] = t
  BY Inserted
<1>4. Length # Type
  BY DEF Length, Type
<1>. QED
  BY <1>1, <1>2, <1>3, <1>4

\* An empty map has no names.
LEMMA EmptyMap == DOMAIN <<>> = {}
  OBVIOUS

\* Types of the maps that the calls make.
HeadersOK(h) ==
  /\ DOMAIN h \subseteq Name
  /\ Length \in DOMAIN h => h[Length] \in Nat
  /\ Type \in DOMAIN h => h[Type] \in ContentType \cup {"text/html"}
  /\ \A n \in Header \cap DOMAIN h : h[n] \in Value

\* A content and its type keep the types of the headers.
LEMMA BothKeepTypes ==
  ASSUME NEW m, HeadersOK(m), NEW l \in Nat, NEW t \in ContentType \cup {"text/html"}
  PROVE  HeadersOK(Both(m, l, t))
<1> DEFINE h == Both(m, l, t)
<1>1. /\ DOMAIN h = DOMAIN m \cup {Length, Type}
      /\ \A k \in DOMAIN m : h[k] = m[k]
      /\ Length \notin DOMAIN m => h[Length] = l
      /\ Type \notin DOMAIN m => h[Type] = t
  BY InsertedBoth, Zenon
<1> HIDE DEF h
<1>2. Length \in Name /\ Type \in Name /\ Length \notin Header /\ Type \notin Header
  BY HeaderAssumption DEF Name, Length, Type
<1>3. DOMAIN h \subseteq Name
  BY <1>1, <1>2 DEF HeadersOK
<1>4. h[Length] \in Nat /\ h[Type] \in ContentType \cup {"text/html"}
  BY <1>1 DEF HeadersOK
<1>5. \A n \in Header \cap DOMAIN h : h[n] \in Value
  BY <1>1, <1>2 DEF HeadersOK
<1>. QED
  BY <1>3, <1>4, <1>5 DEF HeadersOK, h

\* Every call keeps the types.
LEMMA TypesStep == TypeOK /\ [Next]_vars => TypeOK'
<1> SUFFICES ASSUME TypeOK, [Next]_vars PROVE TypeOK'
  OBVIOUS
<1>0. HeadersOK(headers)
  BY DEF TypeOK, HeadersOK, Length, Type
<1>1. ASSUME HeadersOK(headers)', status' \in StatusType,
             content' \in Content \cup {DefaultContent(s) : s \in StatusType} \cup {<<>>},
             given' \in Seq(Content), named' \subseteq Name,
             page' \in StatusType \cup {"none"}, calls' \in 0 .. MaxCalls
      PROVE  TypeOK'
  BY <1>1 DEF TypeOK, HeadersOK, Length, Type
<1>2. ASSUME Called PROVE calls' \in 0 .. MaxCalls
  BY <1>2, AskedAssumption DEF TypeOK, Called
<1>3. ASSUME NEW s \in Asked, SetStatus(s) PROVE TypeOK'
  BY <1>0, <1>1, <1>2, <1>3, AskedAssumption DEF SetStatus, TypeOK
<1>4. ASSUME NEW s \in Asked, Generate(s) PROVE TypeOK'
  <2>1. HeadersOK(<<>>)
    BY EmptyMap DEF HeadersOK
  <2>2. HeadersOK(headers)'
    BY <1>4, <2>1, BothKeepTypes DEF Generate, Both, Length, Type
  <2>3. s \in StatusType /\ content' = DefaultContent(s) /\ given' = <<>> /\ named' = {}
        /\ status' = s /\ page' = s /\ Called
    BY <1>4, AskedAssumption DEF Generate
  <2>. QED
    BY <1>1, <1>2, <2>2, <2>3
<1>5. ASSUME NEW c \in Content, NEW t \in ContentType, SetContent(c, t) PROVE TypeOK'
  <2>1. Len(c) \in Nat
    BY ContentAssumption
  <2>2. HeadersOK(headers)'
    BY <1>0, <1>5, <2>1, BothKeepTypes DEF SetContent, Both, Length, Type
  <2>. QED
    BY <1>1, <1>2, <1>5, <2>2 DEF SetContent, TypeOK
<1>6. ASSUME NEW n \in Name, NEW v, AddHeader(n, v),
             n = Length => v \in Nat, n = Type => v \in ContentType, n \in Header => v \in Value
      PROVE  TypeOK'
  <2>1. /\ DOMAIN headers' = DOMAIN headers \cup {n}
        /\ \A k \in DOMAIN headers : headers'[k] = headers[k]
        /\ n \notin DOMAIN headers => headers'[n] = v
    BY <1>6 DEF AddHeader, Insert
  <2>2. HeadersOK(headers)'
    BY <1>0, <1>6, <2>1 DEF HeadersOK
  <2>. QED
    BY <1>1, <1>2, <1>6, <2>2 DEF AddHeader, TypeOK
<1>7. ASSUME NEW n \in Header, NEW v \in Value, AddHeader(n, v) PROVE TypeOK'
  BY <1>6, <1>7, HeaderAssumption DEF Name, Length, Type
<1>8. ASSUME NEW c \in Content, AddHeader("Content-Length", Len(c)) PROVE TypeOK'
  <2>1. Len(c) \in Nat
    BY ContentAssumption
  <2>. QED
    BY <1>6, <1>8, <2>1, HeaderAssumption DEF Name, Length, Type
<1>9. ASSUME NEW t \in ContentType, AddHeader("Content-Type", t) PROVE TypeOK'
  BY <1>6, <1>9, HeaderAssumption DEF Name, Length, Type
<1>10. CASE UNCHANGED vars
  BY <1>10 DEF TypeOK, vars, history
<1>. QED
  BY <1>3, <1>4, <1>5, <1>7, <1>8, <1>9, <1>10 DEF Next

\* The announced length stays that of the first content, or zero.
LEMMA LengthStep == IInv /\ [Next]_vars => LengthIsFirst'
<1> SUFFICES ASSUME IInv, [Next]_vars PROVE LengthIsFirst'
  OBVIOUS
<1>0. LengthIsFirst /\ given \in Seq(Content)
  BY DEF IInv, TypeOK
<1>1. ASSUME NEW s \in Asked, SetStatus(s) PROVE LengthIsFirst'
  BY <1>0, <1>1 DEF SetStatus, LengthIsFirst
<1>2. ASSUME NEW s \in Asked, Generate(s) PROVE LengthIsFirst'
  <2>1. Length \in DOMAIN headers' /\ headers'[Length] = 0
    BY <1>2 DEF Generate, Insert, Length
  <2>2. page' = s /\ s # "none"
    BY <1>2, AskedAssumption DEF Generate, StatusType, Listed
  <2>. QED
    BY <2>1, <2>2 DEF LengthIsFirst
<1>3. ASSUME NEW c \in Content, NEW t \in ContentType, SetContent(c, t) PROVE LengthIsFirst'
  <2>1. /\ Length \in DOMAIN headers'
        /\ headers'[Length] = IF Length \in DOMAIN headers THEN headers[Length] ELSE Len(c)
    BY <1>3 DEF SetContent, Insert, Length
  <2>2. UNCHANGED <<page, named>> /\ given' = Append(given, c)
    BY <1>3 DEF SetContent
  <2>3. /\ given' # <<>>
        /\ given'[1] = IF given = <<>> THEN c ELSE given[1]
    BY <1>0, <2>2
  <2>. QED
    BY <1>0, <2>1, <2>2, <2>3 DEF LengthIsFirst
<1>4. ASSUME NEW n, NEW v, AddHeader(n, v) PROVE LengthIsFirst'
  <2>1. /\ DOMAIN headers' = DOMAIN headers \cup {n}
        /\ \A k \in DOMAIN headers : headers'[k] = headers[k]
    BY <1>4 DEF AddHeader, Insert
  <2>2. UNCHANGED <<page, given>>
        /\ named' = IF given = <<>> THEN named \cup {n} ELSE named
    BY <1>4 DEF AddHeader
  <2>. QED
    BY <1>0, <2>1, <2>2 DEF LengthIsFirst
<1>5. CASE UNCHANGED vars
  BY <1>0, <1>5 DEF LengthIsFirst, vars, history
<1>. QED
  BY <1>1, <1>2, <1>3, <1>4, <1>5 DEF Next

\* The content stays the last one that was set, or the page.
LEMMA ContentStep == IInv /\ [Next]_vars => ContentIsLast'
<1> SUFFICES ASSUME IInv, [Next]_vars PROVE ContentIsLast'
  OBVIOUS
<1>0. ContentIsLast /\ given \in Seq(Content)
  BY DEF IInv, TypeOK
<1>1. ASSUME NEW s \in Asked, SetStatus(s) \/ Generate(s) PROVE ContentIsLast'
  BY <1>0, <1>1 DEF SetStatus, Generate, ContentIsLast
<1>2. ASSUME NEW c \in Content, NEW t \in ContentType, SetContent(c, t) PROVE ContentIsLast'
  <2>1. content' = c /\ given' = Append(given, c)
    BY <1>2 DEF SetContent
  <2>2. given' # <<>> /\ given'[Len(given')] = c
    BY <1>0, <2>1
  <2>. QED
    BY <2>1, <2>2 DEF ContentIsLast
<1>3. ASSUME NEW n, NEW v, AddHeader(n, v) PROVE ContentIsLast'
  BY <1>0, <1>3 DEF AddHeader, ContentIsLast
<1>4. CASE UNCHANGED vars
  BY <1>0, <1>4 DEF ContentIsLast, vars, history
<1>. QED
  BY <1>1, <1>2, <1>3, <1>4 DEF Next

\* The invariant holds whatever is called in whatever order.
THEOREM Invariance == Spec => []IInv
<1>1. Init => IInv
  <2> SUFFICES ASSUME Init PROVE IInv
    OBVIOUS
  <2>1. TypeOK
    BY EmptyMap, AskedAssumption DEF Init, TypeOK, StatusType, Listed
  <2>2. LengthIsFirst /\ ContentIsLast
    BY EmptyMap DEF Init, LengthIsFirst, ContentIsLast
  <2>. QED
    BY <2>1, <2>2 DEF IInv
<1>2. IInv /\ [Next]_vars => IInv'
  BY TypesStep, LengthStep, ContentStep DEF IInv
<1>. QED
  BY <1>1, <1>2, PTL DEF Spec

\* The variables keep their types.
THEOREM TypeCorrect == Spec => []TypeOK
<1>1. IInv => TypeOK
  BY DEF IInv
<1>. QED
  BY <1>1, Invariance, PTL

\* A content that is announced is read as it was set, however often contents of
\* its length were set before.
THEOREM ContentIsRead == Spec => []ContentArrives
<1>1. IInv => ContentArrives
  <2> SUFFICES ASSUME IInv, page = "none", Length \notin named, given # <<>>,
                      \A i \in 1 .. Len(given) : Len(given[i]) = Len(given[1])
               PROVE  Announced(ToBuffers) /\ Taken(ToBuffers) = given[Len(given)]
    BY DEF ContentArrives, Length
  <2>1. Len(given) \in 1 .. Len(given)
    BY DEF IInv, TypeOK
  <2>2. content = given[Len(given)] /\ Len(content) = Len(given[1])
    BY <2>1 DEF IInv, ContentIsLast
  <2>3. headers[Length] = Len(content) /\ Len(content) \in Nat
    BY <2>2 DEF IInv, LengthIsFirst, TypeOK, Length
  <2>4. ToBuffers.headers = headers /\ ToBuffers.body = content
    BY DEF ToBuffers
  <2>. QED
    BY <2>2, <2>3, <2>4 DEF Announced, Taken, Length
<1>. QED
  BY <1>1, Invariance, PTL

\* A generated response is read as one without content.
THEOREM GeneratedIsRead == Spec => []GeneratedIsBodyless
<1>1. IInv => GeneratedIsBodyless
  <2> SUFFICES ASSUME IInv, page # "none" PROVE Taken(ToBuffers) = <<>>
    BY DEF GeneratedIsBodyless
  <2>1. Length \in DOMAIN headers /\ headers[Length] = 0
    BY DEF IInv, LengthIsFirst
  <2>2. content \in Seq(StatusType \cup Value)
    <3>1. ASSUME NEW s \in StatusType PROVE DefaultContent(s) \in Seq(StatusType \cup Value)
      <4>1. (IF s \in Listed THEN s ELSE "INTERNAL_SERVER_ERROR") \in StatusType \cup Value
        BY DEF StatusType, Listed
      <4>. QED
        BY <4>1 DEF DefaultContent
    <3>2. <<>> \in Seq(StatusType \cup Value)
      OBVIOUS
    <3>. QED
      BY <3>1, <3>2, ContentAssumption DEF IInv, TypeOK
  <2>3. ToBuffers.headers = headers /\ ToBuffers.body = content
    BY DEF ToBuffers
  <2>. QED
    BY <2>1, <2>2, <2>3 DEF Taken, Length
<1>. QED
  BY <1>1, Invariance, PTL
=============================================================================
