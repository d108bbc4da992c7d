------------------------------- MODULE Router -------------------------------
(***************************************************************************)
(* Which handler a request reaches: Server::Route, the search among the    *)
(* routers in ConnectionBase::ReadSome, and http::Router, which looks its  *)
(* endpoints up and parses path variables and parameters.                  *)
(*                                                                         *)
(* A string is a sequence of symbols: "/", "?", "=", "&", words, and in an *)
(* endpoint variables, which the code writes in braces.                    *)
(***************************************************************************)
EXTENDS Naturals, Sequences, SequencesExt

CONSTANTS Symbol,        \* what strings are made of
          RouterObj,     \* the router objects of the program
          Path,          \* routes they may be registered under
          Endpoint,      \* endpoints they may offer
          Variable,      \* the symbols of endpoints that are variables
          Uri, Method,   \* what requests may ask for
          MaxLoops,      \* the c of ParsePathVariables
          MaxEndpoints,  \* bound: endpoints registered in all
          MaxRoutes      \* bound: calls of Server::Route

\* A decoded URI may hold a NUL; endpoints and routes are C string literals.
\* AddEndpoint reads the last character of an endpoint, so it needs one.
ASSUME SymbolAssumption == Variable \subseteq Symbol \ {"/", "NUL"}
ASSUME EndpointAssumption == Endpoint \subseteq Seq(Symbol \ {"NUL"}) \ {<<>>}
ASSUME UriAssumption == Uri \subseteq Seq(Symbol) /\ Path \subseteq Seq(Symbol \ {"NUL"})
ASSUME BoundAssumption == MaxEndpoints \in Nat /\ MaxRoutes \in Nat
ASSUME LoopsAssumption == MaxLoops \in Nat \ {0}

VARIABLES
  routers,      \* Server::routers_, from routes to router objects
  route_,       \* of each router
  endpoints_static_, endpoints_dynamic_,   \* of each router
  offered,      \* every endpoint registered so far, in this order
  routed,       \* every call of Server::Route so far
  reply         \* what became of the last request

setupVars == <<routers, route_, endpoints_static_, endpoints_dynamic_, offered, routed>>
vars == <<setupVars, reply>>

Init ==
  /\ routers = <<>>
  /\ route_ = [r \in RouterObj |-> <<>>]
  /\ endpoints_static_ = [r \in RouterObj |-> <<>>]
  /\ endpoints_dynamic_ = [r \in RouterObj |-> <<>>]
  /\ offered = <<>> /\ routed = <<>>
  /\ reply = [status |-> "none"]

\* The symbol at a position, or the NUL that ends a string.
At(s, i) == IF i <= Len(s) THEN s[i] ELSE "NUL"
From(s, i) == SubSeq(s, i, Len(s))
IsPrefixOf(s, t) == Len(s) <= Len(t) /\ SubSeq(t, 1, Len(s)) = s

\* std::map::insert keeps the value of a key it has.  Mutation: operator[].
Overwrite(map, k, v) == [x \in DOMAIN map \cup {k} |-> IF x = k THEN v ELSE map[x]]
Insert(map, k, v) ==
  [x \in DOMAIN map \cup {k} |-> IF x \in DOMAIN map THEN map[x] ELSE v]
-----------------------------------------------------------------------------
(* Setting up *)

\* Methods are told apart by the order in which they were added.
NextMethod == Len(offered) + 1

AddEndpoint(r, endpoint, m) ==
  LET e == IF endpoint[Len(endpoint)] = "/"
             THEN SubSeq(endpoint, 1, Len(endpoint) - 1) ELSE endpoint
      handler == NextMethod
  IN  /\ reply.status = "none" /\ Len(offered) < MaxEndpoints
      /\ offered' = Append(offered, [router |-> r, endpoint |-> e, method |-> m])
      /\ IF \E i \in 1 .. Len(e) : e[i] \in Variable
           THEN /\ endpoints_dynamic_' =
                     [endpoints_dynamic_ EXCEPT
                        ![r] = Append(@, [endpoint |-> e, method |-> m, handler |-> handler])]
                /\ UNCHANGED endpoints_static_
           ELSE /\ endpoints_static_' =
                     [endpoints_static_ EXCEPT ![r] = Insert(@, <<e, m>>, handler)]
                /\ UNCHANGED endpoints_dynamic_
      /\ UNCHANGED <<routers, route_, routed, reply>>

\* The router learns its new route even if the route was taken before.
Route(path, r) ==
  /\ reply.status = "none" /\ Len(routed) < MaxRoutes
  /\ route_' = [route_ EXCEPT ![r] = path]
  /\ routers' = Insert(routers, path, r)
  /\ routed' = Append(routed, <<path, r>>)
  /\ UNCHANGED <<endpoints_static_, endpoints_dynamic_, offered, reply>>
-----------------------------------------------------------------------------
(* Parsing *)

\* Where the segment that holds position i ends.
SegmentEnd(uri, i) ==
  CHOOSE n \in i .. Len(uri) + 1 :
    At(uri, n) \in {"/", "NUL"} /\ \A j \in i .. n - 1 : uri[j] \notin {"/", "NUL"}

\* Positions a and b after a variable, if there is one at b, took its segment.
TakeVariable(uri, endpoint, s) ==
  LET end == SegmentEnd(uri, s.a)
  IN  IF At(endpoint, s.b) \notin Variable THEN s
      ELSE [s EXCEPT !.a = end, !.b = @ + 1,
                     !.variables = Insert(@, At(endpoint, s.b), SubSeq(uri, s.a, end - 1))]

\* One turn of the loop of ParsePathVariables.
Turn(uri, endpoint, s) ==
  LET t == TakeVariable(uri, endpoint, s)
      c == At(uri, t.a)
  IN  [t EXCEPT
         !.a = @ + 1, !.b = @ + 1,
         !.status = CASE c # At(endpoint, t.b) -> "NOT_FOUND"
                      [] c = At(endpoint, t.b) /\ c = "NUL" -> "OK"
                      [] c = At(endpoint, t.b) /\ c # "NUL" ->
                           IF At(uri, t.a + 1) = "NUL" \/ At(endpoint, t.b + 1) = "NUL"
                             THEN "NOT_FOUND" ELSE "more"]

\* The loop is left after MaxLoops - 1 turns.
ParsePathVariables(uri, endpoint) ==
  LET start == [a |-> 1, b |-> 1, variables |-> <<>>, status |-> "more"]
      after[n \in 0 .. MaxLoops - 1] ==
        IF n = 0 THEN start
        ELSE IF after[n - 1].status # "more" THEN after[n - 1]
        ELSE Turn(uri, endpoint, after[n - 1])
  IN  after[MaxLoops - 1]

Separators(uri) == {i \in 1 .. Len(uri) : uri[i] = "?"}
Separator(uri) == CHOOSE i \in Separators(uri) : \A j \in Separators(uri) : i <= j

\* One symbol of the part of a URI after its first "?".
Scan(p, c) ==
  CASE p.parsing_key /\ c = "=" -> [p EXCEPT !.parsing_key = FALSE]
    [] p.parsing_key /\ c = "&" ->
         IF p.key = <<>> THEN p
         ELSE [p EXCEPT !.parameters = Insert(@, p.key, <<"true">>), !.key = <<>>]
    [] p.parsing_key /\ c \notin {"=", "&"} -> [p EXCEPT !.key = Append(@, c)]
    [] ~p.parsing_key /\ c = "&" ->
         [parameters |-> Insert(p.parameters, p.key, p.val),
          key |-> <<>>, val |-> <<>>, parsing_key |-> TRUE]
    [] ~p.parsing_key /\ c # "&" -> [p EXCEPT !.val = Append(@, c)]

ParseParameters(uri) ==
  IF Separators(uri) = {} THEN <<>> ELSE
    LET params == From(uri, Separator(uri) + 1)
        after[n \in 0 .. Len(params)] ==
          IF n = 0 THEN [parameters |-> <<>>, key |-> <<>>, val |-> <<>>, parsing_key |-> TRUE]
                   ELSE Scan(after[n - 1], params[n])
        p == after[Len(params)]
    IN  IF p.key = <<>> THEN p.parameters
        ELSE Insert(p.parameters, p.key, IF p.val = <<>> THEN <<"true">> ELSE p.val)

WithoutParameters(uri) ==
  IF Separators(uri) = {} THEN uri ELSE SubSeq(uri, 1, Separator(uri) - 1)
-----------------------------------------------------------------------------
(* Serving *)

\* The last one of a set; mutation of First.
Latest(S) == CHOOSE i \in S : \A j \in S : j <= i
First(S) == CHOOSE i \in S : \A j \in S : i <= j

\* Mutation of FitsDynamic: for any HTTP method.
FitsAnyMethod(h, uri, m) == ParsePathVariables(uri, h.endpoint).status = "OK"
FitsDynamic(h, uri, m) ==
  h.method = m /\ ParsePathVariables(uri, h.endpoint).status = "OK"

\* Static endpoints are searched first, dynamic ones in the order they were
\* added; no method is called if none fits.
Answers(r, uri, m) ==
  LET static == {h \in DOMAIN endpoints_static_[r] : h = <<uri, m>>}
      dynamic == endpoints_dynamic_[r]
      fits == {i \in 1 .. Len(dynamic) : FitsDynamic(dynamic[i], uri, m)}
      called(handler, variables) ==
        [status |-> "called", handler |-> handler, variables |-> variables]
  IN  CASE static # {} -> called(endpoints_static_[r][<<uri, m>>], <<>>)
        [] static = {} /\ fits # {} ->
             LET h == dynamic[First(fits)]
             IN  called(h.handler, ParsePathVariables(uri, h.endpoint).variables)
        [] OTHER -> [status |-> "not_found", handler |-> 0, variables |-> <<>>]

HandleRequest(r, uri, m) ==
  LET uri_relative == From(uri, Len(route_[r]) + 1)
      a == Answers(r, WithoutParameters(uri_relative), m)
  IN  [status |-> a.status, uri |-> uri, method |-> m, router |-> r,
       handler |-> a.handler, variables |-> a.variables,
       parameters |-> ParseParameters(uri_relative)]

\* The first router whose route starts the URI gets the request for good; of
\* two such routes the map holds the shorter first.  Nothing of a request stays
\* behind in a router, so one request after every setup is enough.
Matching(uri) == {path \in DOMAIN routers : IsPrefixOf(path, uri)}
\* Mutation of FirstMatching: the longest route.
MostSpecific(uri) == CHOOSE p \in Matching(uri) : \A q \in Matching(uri) : Len(q) <= Len(p)
FirstMatching(uri) == CHOOSE p \in Matching(uri) : \A q \in Matching(uri) : Len(p) <= Len(q)
Serve(uri, m) ==
  /\ reply.status = "none"
  /\ reply' = IF Matching(uri) = {} THEN [status |-> "no_router", uri |-> uri, method |-> m]
               ELSE HandleRequest(routers[FirstMatching(uri)], uri, m)
  /\ UNCHANGED setupVars

\* What the method that is called sees of the request: a name that is not there
\* has the empty value.
ExistsPathVariable(key) == key \in DOMAIN reply.variables
GetPathVariable(key) == IF ~ExistsPathVariable(key) THEN <<>> ELSE reply.variables[key]
ExistsParameter(key) == key \in DOMAIN reply.parameters
GetParameter(key) == IF ~ExistsParameter(key) THEN <<>> ELSE reply.parameters[key]

Next ==
  \/ \E r \in RouterObj, e \in Endpoint, m \in Method : AddEndpoint(r, e, m)
  \/ \E r \in RouterObj, path \in Path : Route(path, r)
  \/ \E uri \in Uri, m \in Method : Serve(uri, m)

Spec == Init /\ [][Next]_vars
-----------------------------------------------------------------------------
(* Correctness.  A program is disciplined if it registers no router twice    *)
(* and no two routers under one route.                                       *)

Disciplined ==
  \A i, j \in 1 .. Len(routed) :
    i # j => routed[i][1] # routed[j][1] /\ routed[i][2] # routed[j][2]

VariablesOf(endpoint) == {endpoint[i] : i \in 1 .. Len(endpoint)} \cap Variable

\* The URI that a client writes for an endpoint, given its path variables.
Written(endpoint, variables) ==
  FlattenSeq([i \in 1 .. Len(endpoint) |->
                IF endpoint[i] \in Variable THEN variables[endpoint[i]] ELSE <<endpoint[i]>>])

\* What is asked of a router that has a route; and all that ParsePathVariables
\* looks at of a string, which it takes for a C string.
Asked(uri, route) == WithoutParameters(From(uri, Len(route) + 1))
BeforeNul(s) ==
  SubSeq(s, 1, CHOOSE n \in 0 .. Len(s) : At(s, n + 1) = "NUL" /\ \A i \in 1 .. n : s[i] # "NUL")

\* Endpoints that ParsePathVariables can match: nothing but "/" follows a
\* variable, and the last symbol is one.  An endpoint that goes on after its
\* last variable is never found.
Reachable(endpoint) ==
  /\ \A i \in 1 .. Len(endpoint) - 1 : endpoint[i] \in Variable => endpoint[i + 1] = "/"
  /\ endpoint[Len(endpoint)] \in Variable
  /\ Len(endpoint) < MaxLoops

\* A URI fits an endpoint that is its text, or into which it can be divided.  A
\* last variable that is empty is not found.
Pieces(uri) == {SubSeq(uri, i, j) : i \in 1 .. Len(uri), j \in 0 .. Len(uri)}
Fits(endpoint, uri) ==
  IF VariablesOf(endpoint) = {} THEN endpoint = uri
  ELSE /\ Reachable(endpoint)
       /\ \E v \in [VariablesOf(endpoint) ->
                    {p \in Pieces(uri) : \A i \in 1 .. Len(p) : p[i] \notin {"/", "NUL"}}] :
            /\ Written(endpoint, v) = BeforeNul(uri)
            /\ v[endpoint[Len(endpoint)]] # <<>>

TypeOK ==
  /\ DOMAIN routers \subseteq Path /\ \A p \in DOMAIN routers : routers[p] \in RouterObj
  /\ route_ \in [RouterObj -> Path \cup {<<>>}]
  /\ offered \in Seq([router : RouterObj, endpoint : Seq(Symbol \ {"NUL"}), method : Method])
  /\ routed \in Seq(Path \X RouterObj)
  /\ Len(offered) <= MaxEndpoints /\ Len(routed) <= MaxRoutes
  /\ \A r \in RouterObj :
       /\ \A h \in DOMAIN endpoints_static_[r] : endpoints_static_[r][h] \in 1 .. Len(offered)
       /\ endpoints_dynamic_[r] \in
            Seq([endpoint : Seq(Symbol \ {"NUL"}), method : Method, handler : 1 .. Len(offered)])
  /\ reply.status \in {"none", "no_router", "not_found", "called"}

\* The calls of Route for a router; the last of them decides how much of a URI
\* is cut off, whether the route was taken or not.
Given(r) == {i \in 1 .. Len(routed) : routed[i][2] = r}
LastRoute(r) == routed[Latest(Given(r))][1]

\* A method is only called for a request it was added for: by its router, for
\* its HTTP method, and with path variables that, written into its endpoint,
\* give back what was asked after the route its router was given last.  If it
\* was given one, that is the route the URI starts with.
NamesOnce(endpoint) ==
  \A i, j \in 1 .. Len(endpoint) :
    endpoint[i] = endpoint[j] /\ endpoint[i] \in Variable => i = j
CalledAsOffered ==
  reply.status = "called" =>
    LET o == offered[reply.handler]
        asked == Asked(reply.uri, LastRoute(reply.router))
    IN  /\ o.router = reply.router /\ o.method = reply.method
        /\ \A v \in Variable : ExistsPathVariable(v) <=> v \in VariablesOf(o.endpoint)
        /\ NamesOnce(o.endpoint) =>
             Written(o.endpoint, [v \in VariablesOf(o.endpoint) |-> GetPathVariable(v)])
               = BeforeNul(asked)
        /\ VariablesOf(o.endpoint) = {} => o.endpoint = asked
        /\ Given(reply.router) = {Latest(Given(reply.router))} =>
             IsPrefixOf(LastRoute(reply.router), reply.uri)

\* A request whose URI fits an endpoint is answered by some method, if no
\* router with a shorter route takes the request away.
OfferedIsFound ==
  reply.status \in {"no_router", "not_found"} /\ Disciplined =>
    \A i \in 1 .. Len(routed), j \in 1 .. Len(offered) :
      ~ /\ IsPrefixOf(routed[i][1], reply.uri)
        /\ \A path \in Matching(reply.uri) : Len(routed[i][1]) <= Len(path)
        /\ offered[j].router = routed[i][2] /\ offered[j].method = reply.method
        /\ Fits(offered[j].endpoint, Asked(reply.uri, routed[i][1]))

\* "Search for static endpoints first", "then search for dynamic endpoints
\* second", each in the order in which they were added.
OrderOfSearch ==
  reply.status = "called" =>
    LET rivals == {j \in 1 .. Len(offered) :
                     /\ offered[j].router = reply.router /\ offered[j].method = reply.method
                     /\ Fits(offered[j].endpoint, Asked(reply.uri, LastRoute(reply.router)))}
        static == {j \in rivals : VariablesOf(offered[j].endpoint) = {}}
    IN  IF static # {} THEN reply.handler \in static /\ \A j \in static : reply.handler <= j
                       ELSE \A j \in rivals : reply.handler <= j

\* The terms of a query, which "&" separates, by their first and last positions;
\* and the key and the value that a term is written for.
Terms(q) == {t \in (1 .. Len(q)) \X (0 .. Len(q)) :
               /\ t[1] <= t[2] + 1
               /\ t[1] = 1 \/ q[t[1] - 1] = "&"
               /\ t[2] = Len(q) \/ q[t[2] + 1] = "&"
               /\ \A i \in t[1] .. t[2] : q[i] # "&"}
Term(q, t) == SubSeq(q, t[1], t[2])
KeyLength(w) == CHOOSE n \in 0 .. Len(w) :
                  (n = Len(w) \/ w[n + 1] = "=") /\ \A i \in 1 .. n : w[i] # "="
KeyOf(w) == SubSeq(w, 1, KeyLength(w))
ValueOf(w) == IF KeyOf(w) = w THEN <<"true">> ELSE From(w, KeyLength(w) + 2)

\* A query of the form k=v&k=v&k is parsed to the first value of each key, and
\* "true" for a key that stands alone, unless the route that is cut off the URI
\* is another than it starts with, and takes part of the query with it.
Query == From(reply.uri, Separator(reply.uri) + 1)
ParametersMeant ==
  /\ reply.status \in {"not_found", "called"}
  /\ IsPrefixOf(LastRoute(reply.router), WithoutParameters(reply.uri))
  /\ Separators(reply.uri) # {}
  /\ \A t \in Terms(Query) : KeyOf(Term(Query, t)) # <<>> /\ ValueOf(Term(Query, t)) # <<>>
  => /\ DOMAIN reply.parameters = {KeyOf(Term(Query, t)) : t \in Terms(Query)}
     /\ \A t \in Terms(Query) :
          (\A u \in Terms(Query) : KeyOf(Term(Query, u)) = KeyOf(Term(Query, t)) => t[1] <= u[1])
            => GetParameter(KeyOf(Term(Query, t))) = ValueOf(Term(Query, t))

\* "MAX LENGTH FOR URI" bounds the loop of ParsePathVariables: no URI that is
\* longer finds a dynamic endpoint.
LongUriIsNotFound ==
  reply.status = "called" /\ reply.variables # <<>> => Len(reply.uri) <= MaxLoops
=============================================================================
