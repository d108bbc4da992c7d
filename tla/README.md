# Verification of gpp-common

`gpp-common` is a small C++ library: an asynchronous HTTP/HTTPS server on top of
asio, a JSON reader and writer, a Redis client, a UUID helper, and a Python
script that builds projects. This directory holds TLA+ models of its core, the
TLC configurations that check them, and TLAPS proofs about them. Paths are
relative to the repository, `src/...` being its root.

## 1. Inventory

| component | state it keeps | operations | status |
|---|---|---|---|
| `Server` (`src/http/server.cpp`) | the event loop, the acceptor, the signal set, `routers_`, `secure_` | constructor, `Run`, `Route`, accept handler, signal handler | `HttpServer`, `Router` |
| `ConnectionManager` | `connections_` | `Start`, `Stop`, `StopAll` | `HttpServer` |
| `Connection`, `ConnectionSecure` | socket, `buffer_`, `request_`, `request_parser_`, `response_` | `Start`, `Stop`, handshake, `DoRead`, `ReadSome`, `DoWrite` | `HttpServer`; what `ReadSome` computes is in `RequestParser` and `Router` |
| `RequestParser` | `state_`, `method_`, `header_key_`, `header_val_` | `Parse`, `ConsumeHeader`, `ConsumePayload` | `RequestParser` |
| `Router` | `route_`, `endpoints_static_`, `endpoints_dynamic_` | `SetRoute`, `AddEndpoint`, `HandleRequest` | `Router` |
| `Request` | the parsed fields | getters | its fields are variables of `RequestParser` and fields of the reply of `Router`, which has the getters of path variables and parameters |
| `Response` | `status_`, `headers_`, `content_` | setters, `Generate`, `ToBuffers` | `HttpResponse`; `HttpServer` has which kind is sent |
| JSON (`src/json`) | `null_`, and `elements_` which copies share | put, delete, `SetNull`, copies, `ToString`, `Parser`, getters | `JsonObject`, `JsonText`, `JsonDocument` |
| Redis (`src/redis`) | a hiredis context, and what the server holds | 17 commands, copy, move, destruction | `RedisContext`, `RedisCommand` |
| Build tool (`app`) | `build.json`: timestamps of sources and headers; objects; the binary | `build`: compile what changed, link | `BuildTool` |
| UUID | none | random string | not modelled, see section 6 |
| Build configuration (`config.json`, `sonar-scanner`, `.gitignore`) | none | | not modelled, see section 6 |

**How they interact.** One thread calls `Server::Run`, so completion handlers
never run at the same time. The accept handler makes a connection and hands it
to the manager, which starts it. Each connection then has one asynchronous
operation outstanding at a time; the handler of each starts the next one or
calls `ConnectionManager::Stop`. `ReadSome` gives what was read to the parser,
and a complete request to the first router whose route starts its URI. The
signal handler closes the acceptor and has the manager stop everybody.

**What is hard.**

* *Order of handlers.* Closing a socket aborts an operation that is pending; one
  that has completed has its handler in the queue, and that handler runs later,
  with success, over state that has changed under it: an accept handler after
  the acceptor was closed, a read handler after `StopAll`.
* *Buffers and lifetimes.* `response_` is handed to `async_write` by reference.
* *Ending.* `Run` returns only when no operation is left; `StopAll` must have
  reached everything that may wait for a client for ever. Secure connections
  are never stopped after their answer.
* *Limits.* Descriptors run out and accepting fails; a read fills `buffer_`.
* *Cuts.* A request arrives in reads that end anywhere.
* *Failure.* A handshake fails and is not looked at; an exception leaves `Run`;
  a syntax error is not one (`Parse` treats `BAD` as the end of the header).
* *Routing.* Several maps and lists are searched in an order that registration
  decides, by hand-written scanners with off-by-one hazards.
* *Ownership.* Copies of a Redis object share a context that each of them frees,
  and assignments drop one; replies are looked at whether they came or not.
* *Two languages.* `ToString` and `Parser` are written apart from each other. They
  agree on some documents only: escapes, numbers, empty objects and blanks are
  each treated differently on the two sides, two functions `replace_` of the
  same name differ in what they replace, and a number that ends a text is read
  past its end. Copies of an object share its elements and not its `null_`.
* *Recording.* The build tool decides by times it recorded, file by file, while
  files are edited, compilations fail and it is interrupted.

There are no deadlines on any operation, no retries except of `async_accept`,
and the server persists nothing, so that timeouts and recovery do not occur in
it; recovery is the build tool's. The hazards are listed with their lines in `PROJECT.json`.

## 2. The modules

| module | contents |
|---|---|
| `ServerLifecycle` | what the server promises: conversations and the state of the server, nothing else |
| `HttpServer` | the server, its manager and connections; the properties; the refinement mapping |
| `HttpServerProofs` | inductive invariant, safety proofs, and the proof that `HttpServer` implements `ServerLifecycle` |
| `RequestParser` | `ConnectionBase::ReadSome` and the parser, for any set of messages |
| `RequestClient` | `RequestParser` with the clients it is made for and what they are promised |
| `RequestParserProofs` | types, the ground of refusals, and that a proper request arrives as it was meant |
| `Router` | `Server::Route` and `http::Router` |
| `RouterProofs` | the right method is called, found if it is there, and given its variables and parameters |
| `HttpResponse` | `http::Response` under every sequence of calls |
| `HttpResponseProofs` | what is read of a content, and of a generated page |
| `BuildTool` | the build script with edits, failures and interruptions |
| `BuildToolProofs` | no change is forgotten, what is linked is current |
| `RedisContext` | who owns a hiredis context, and who frees it |
| `RedisContextProofs` | unshared contexts are safe, leaks come from assignments |
| `RedisCommand` | the commands over one context, the server, its other clients |
| `RedisCommandProofs` | every reply, result, exception and crash is true to what the server had |
| `JsonObject` | `json::Object` and `json::Array` under every sequence of calls and copies |
| `JsonText` | `ToString` and `Parser` as recursive functions on texts |
| `JsonDocument` | a document from the program that builds it to the one that reads it |
| `JsonProofs` | what `null_` says of elements that may be shared; that `Parser` reads what `ToString` writes, and which documents come back |
| `MCHttpServer`, `MCRequestClient`, `MCRouter`, `MCHttpResponse`, `MCBuildTool`, `MCRedisContext`, `MCRedisCommand`, `MCJsonDocument` | values of constants and symmetry for TLC |

A definition that is introduced as a *mutation* of another one is that
definition with a plausible mistake in it. Nothing else uses it, but for `Latest`
of `Router`, which a property needs as well; `PROJECT.json` names
the property that fails when it takes the place of the original, which shows
that the property depends on the code.

### HttpServer

| variable | in the code |
|---|---|
| `loop` | `io_context_.run()`: not yet called, running, returned, left by an exception |
| `listening`, `accept` | `acceptor_.is_open()`, the outstanding `async_accept` |
| `signal` | the `async_wait` on `signals_`; it is not armed again, a second signal has no handler and changes nothing |
| `managed` | `connections_` |
| `sock[c]` | the socket: in the backlog, carried by an accept handler, open, shut down, closed |
| `op[c][k]` | the handshake, read or write: pending, or its handler queued with an error code |
| `response[c]` | which response `response_` holds |
| `peer`, `unsent`, `inbuf` | the client and the bytes on their way, in chunks |

Every completion handler is an action, or one action per path through it
(`ReadSome`: `ReadAborted`, `ReadFailed`, `ReadMore`, `Answer`,
`HandlerThrows`). The actions `Complete...` are asio and the kernel completing
an operation, which queues a handler; between that and the handler anything may
happen. The code does not tell a request that is complete from one that is not
except through the parser: here a request is a number of chunks, and the parser
has its answer once all were read. That is what `DecidedAtItsEnd` shows of
`RequestParser` for proper requests; a request that is refused or served early
ends the reading earlier, which only shortens what happens here. A failed TLS
handshake leaves a stream nothing can be read from, so the client counts as
gone. A secure connection is stopped after its write only if the low byte of
the error is `SSL_R_HTTP_REQUEST`; no error that asio reports for a write to an
established stream has it, so that branch is written down and not taken.

### RequestParser and RequestClient

The model works on *symbols*: a character that the parser tells apart, or a run
of characters it treats alike (a word, an escape). `Paths` is the state machine
of `ConsumeHeader` as a set of edges; `Accepting` adds the two conditions that
depend on what was parsed, `Collect` and `Stores` say what an accepted symbol
does to strings and headers. `ReadSome(n)` is a read of any length up to
`BufSize`; the parse of a read is deterministic and runs to its end before the
next one. `phase` says how `ReadSome` ended.

Kept from the code: a read that fills `buffer_` (`full`) has its NUL written over
the low byte of `request_.method_`, making the method `GET`; if the method is parsed
from that same read it is written over the NUL in turn, and what is read as a C
string goes on to it, one symbol (`Overrun`), unless it is `GET`, which is zero;
`method_` has no initial value; the body is appended as a C string, to its first NUL; the length
is compared as a `size_t`, so that a negative one is huge (`Word`); a `BAD`
header leads to `ConsumePayload` as a good one does; a URI escape that cannot
be decoded ends the URI. Left out: the numbers of the HTTP version, which are
never read.

`RequestClient` says what a client means (`sent`), how it is written
(`Encode`), and what the parser owes it (`Proper`, `Meant`). `MayOverrun` are the
requests of which one full read can hold the ends of both the method and the header:
the body of those may get a symbol that was not sent, so that they may be refused,
or answered before their end. Some clients are
`Careless`: one symbol of what they send is replaced by another (`Faults`).

### Router

Strings are sequences of symbols (`/`, `?`, `=`, `&`, words); a variable is one
symbol, which the code writes in braces. A URI was decoded and may hold a NUL, where
`ParsePathVariables` takes it to end and `find`, `substr` and the parsing of
parameters do not; endpoints and routes are literals of the program. `AddEndpoint` and `Route` set up, then
one request is served: a router keeps nothing of a request, so a second one
would find what the first did. `Turn` is one turn of the loop of
`ParsePathVariables`, with `TakeVariable` for the variable it may begin with, and
`Scan` one of `ParseParameters`. The getters of a request
are operators on the reply, and the properties ask through them.
`Server::Route` calls `SetRoute` in any case, so that a router that is registered
twice, or whose route was taken, cuts URIs by the route it was given last.
`CalledAsOffered` says for every program what is called all the same; only
`OfferedIsFound` is stated for *disciplined* programs, which register every router
and every route once. Endpoints that go on after
their last variable can never be found, because the loop returns `NOT_FOUND`
when either string ends one ahead; nor can one whose last variable is empty in the
URI. `Reachable` and `Fits` name the endpoints that can. The bound 1024 is `MaxLoops`.

Four conditions in the properties are there because the proof attempt failed
without them, each for a request the instance did not have, and has now: a NUL in
the URI (`BeforeNul`), an endpoint that names a variable twice and keeps the first
value (`NamesOnce`), the empty last variable (`Fits`), and a router whose later
route reaches into the query, which loses a part of it (`ParametersMeant`).

### HttpResponse

`status`, `headers` and `content` are the three fields; `ToBuffers` is what is
written, and since a handler may return after any call every state is one that
may be written. `given`, `named` and `page` remember what was called, for the
properties. A content is a sequence whose length counts; a status line is one
symbol. `PERMANENT_REDIRECT` is in the enumeration and in neither switch, and
falls back on the line of an internal error. The fields are public; handlers
that assign them directly are outside of the model.

What the properties leave open is what the code does: contents of different
lengths are announced with the length of the first, and a generated page, whose
length is taken before the page is there, is announced as empty.

### BuildTool

| variable | in the code |
|---|---|
| `disk[f]` | the modification time of a source or header: the number of the edit that made it |
| `object[s]`, `binary` | the object files and what was linked last, as the times of the files they were made from |
| `stamps`, `broken` | `build/build.json`, and that it was cut short |
| `state`, `phase`, `todo`, `current` | `build_state` of a running script and how far it is |
| `linked`, `quiet`, `raced` | history: the last build got to the end; nothing was edited since it began; files last edited between a compilation and its `os.stat` |

A build is a step per system call that others can see between: `Compile` (g++),
`Record` (the times, and opening `build.json`, which empties it), `WriteState`,
`Link`. `Edit` may happen between any two, `Interrupt` ends the script anywhere.
`Includes` is what the script sees, the `#include <...>` lines of the source
itself: a header that is included by a header does not make anything compile.
Sources are looked at in any order, as `os.walk` promises none. The model does
not delete sources.

Kept from the code, and the reason for the exceptions in the properties: one time
is kept for a header, whoever includes it, so that after an edit only the first
of its includers is compiled again; the times are read after the compilation,
so that an edit in between is recorded and not compiled; a `build.json` that was
cut short makes every later build fail in `json.load` until it is removed; a
failing link is ignored, but the link is done again by every build.

### RedisContext and RedisCommand

The client is two modules, because its two questions do not meet: who may still
use a context, and what a command over a context of its own comes to.

In `RedisContext`, `held[o]` is `context_` of a variable of the program, or `Dead`
where there is no object, and `connection[c]` a context from `redisConnect` to
`redisFree`. Kept from the code: a constructor does not look at what it got; both
constructors from another object leave that one as it was; both assignments drop
the context they replace; every destructor frees. `shared` and `overwritten` are
histories, for the properties. After a command or a second `redisFree` on a
freed context nothing can be said of a program, and the model stops. The
assignment operators have no `return`. The script compiles without optimisation,
where g++ lets such a function return; a program that uses what it returns is
outside of the model.

In `RedisCommand` a command is three steps, `Send`, `Execute` or `Refuse` in the server,
and `Receive`, with `OtherClient` and `Lose` at any time between them. `Write`,
`Test`, `Get` and `List` are the four ways in which the code treats a reply; a
lost connection gives a null pointer in its place, whether the server executed
the command, refused it, or never got it. The server is external: `Replies(s, c)` is the
set of what it may answer a command of a store, and `Effects(s, c)` that of the stores it
may make of it. It holds a string, a list or a hash of one field under a key, and gives
the order of a `SORT`, with or without `BY`, as it likes; ends of ranges and limits only
choose a part of a list and are left out. It must refuse a command for another type, and
one of no values, as `MSet`, `HMSet`, `MGet` and `HMGet` make of an empty vector
(`MustRefuse`); it may refuse any other, because it is loading, a replica, out of memory,
or does not take the time of an `EXPIRE`. Of that time three kinds are told apart: later;
now or earlier, which removes the key; and beyond what the server can add to its clock,
which some servers refuse and others take for a time that has passed. A value counts by
its text as a C string (`CString`), since lists are made of those. `fate`, `before` and
`seen` are histories: what the server did of the command, of which store, and after how
many changes by others. A command that is executed only after its caller saw the
connection fail is like a change by another client, and is not modelled as its own.

Kept from the code: a truth value is whether the number in the reply is one,
which for `LRem` means that a value was removed exactly once, and which is false for
every error, whose number is zero; an error makes an empty list; `Get` and `HGet`
read a freed string, of a value or of an error, and may return anything or crash, while
a missing value throws; a missing element ends a list with
an exception (its reply is not freed, which the model does not keep track of); a
write looks at nothing.

### JsonObject, JsonText and JsonDocument

| variable | in the code |
|---|---|
| `null[x]`, `map[x]` | `null_` of an object, and which map its `elements_` points to |
| `elements[m]`, `items[a]` | what a map and an array hold; arrays and objects by reference, as they are put by shared pointer |
| `phase`, `document`, `text`, `result`, `got` | the way of a document: what was written, its text, what `Parser` made of it, what a getter gave |

`JsonObject` is the half that changes: `PutValue` keeps the element of a key that is
there, `SetNull(true)` clears the elements and `SetNull(false)` nothing, and the
implicit copy shares the elements while `null_` is copied. `JsonText` is the half
that computes. A text is a sequence of symbols: the characters the parser tells
apart, words, and numbers as they are printed, each number one symbol. `At` of a
place past the end is undefined, and a parse that depends on it ends as
`Undefined`. What is read from each place on is a function of the place: of the text for
strings (`StringRests`), of `ReadState` and the place for the functions of `Parser` that call
each other (`Reading`); what is written is a function of the depth (`Written`). What a number is printed as and what `std::stoll` and `std::stold`
make of it are tables of examples, one for each way in which the two differ.
`JsonDocument` puts the halves together: an object is built, written, and its
text read whole, cut at any place, or with a blank somewhere outside of strings;
then the reader asks for the members by the types they were put with. Writing an
object that holds itself does not end (`Overflow`).

Kept from the code: `object.cpp` and `array.cpp` define an inline function
`replace_` each, which differ in how much they replace, so that the linker picks
one for both (`Widths`, the argument `width`); keys are written as they are; a null object is written
as `null` inside of another, whatever its elements; the parser takes blanks in
some places only and refuses an empty object; it looks for the end of a number
without an end of text. The documents that survive all this are `Kept`, and
`RoundTrip` says that it is these and no others. Left out: an implicit copy of
an array, `Array::Get` and `GetSize`, which change nothing, and
`Parser::ParseNull`, which is declared and never defined.

## 3. What the runs check

| run | instance | shows |
|---|---|---|
| `ServerPlain` | 3 clients, 2 descriptors, requests of up to 2 chunks | types; open sockets are exactly the managed ones, no accepted socket is lost, one operation per connection (`SocketsAreOwned`); nothing revives a stopped server; a response is chosen once; each step is one of `ServerLifecycle` |
| `ServerPlainLive` | 2 clients, 1 descriptor | `Run` returns after a signal; complete requests are answered; the connection of a client that is done and reads its response is released, whatever other clients do; with patient clients failed accepts are retried until everybody was taken in |
| `ServerSecure` | 2 clients with TLS | after handshakes that fail as well, whatever may wait is managed and only an answered connection is held for nothing (`NothingIsStranded`), and it is held until the server stops; the server implements `ServerLifecycle` with its fairness |
| `ParserSent` | 242 requests, 2 of them with each symbol replaced by others, any cut | what was sent is what is parsed, neither too early nor too late, but for what a full read does to the method and the body; a message is refused for its length only |
| `Router` | 2 routers, 3 routes, 9 endpoints, 2 methods, 2 + 2 registrations, 9 URIs | the right method is called with the right variables and parameters, and found if it is there |
| `HttpResponse` | 4 contents, 2 types, 3 statuses, 4 calls | a content arrives as it was set; a generated response is read as empty |
| `Build` | 2 sources, own and shared header, 2 versions of each file, 1 mishap | no change is forgotten; a change of a header reached somebody; what was linked undisturbed is current; who builds again and again gets what was edited |
| `RedisContext` | 3 objects, 3 contexts | only contexts that were shared are used or freed again; only an assignment over the last holder leaks |
| `RedisCommand` | 2 keys, 2 values of which one has a NUL, 3 commands, 1 change by another client | truth values and lists speak of the moment of execution, or of a refusal; crashes and exceptions have a reason; a write was done as a whole or not at all |
| `JsonDocument` | 2 objects, 1 array, 2 keys, 13 values, 3 puts, both widths | what comes back of what was written, cut or formatted; where the parser stays within its text; what the getters give; what `null_` says |
| `RouterLongUri` | a long segment | expected to fail: see below |
| `JsonSanitized` | as `JsonDocument` | expected to fail: see below |

**Bounds.** Three clients and two descriptors are the least for two connections
to be served while a third meets the limit, and for a queued accept to race the
signal while others read and write; two chunks are the least for a request that
is incomplete once. The runs with liveness use two clients, without symmetry, which
is not sound for it; with one descriptor the second
client is refused in `ServerPlainLive`. `BufSize` 24 is longer than some requests and shorter than
others, and reads of one symbol up to that give every cut. The header of a request
with one `Content-Length` has 23 or 25 symbols, so that a read that fills `buffer_` can
hold all of it and one symbol of the body, or all but its method and two, or all but
its method and none. The requests have no, one and two
headers of each kind the parser treats differently: repeated, differently
capitalised, continued, empty, and lengths that are too small, too large,
negative or no number. `MaxLoops` 8 lies above every endpoint of `Router` and
below the URIs of `RouterLongUri`; two endpoints and two routes are the least
for any order between them to matter. Four calls are two contents with a header
and a status around them, or a content before and after `Generate`. Two sources,
of which one has a header of its own and both have one together, are the least
for a header to be shared and not shared; a second version of each file is one
edit of each, in any place of any build; `MaxMishaps` 1 is one interruption, or one
removal of the build directory. With three objects a context can be freed under
a second holder while a third has another; with three commands a list can have
two elements and be removed from or read; one change by another client can come
between any two steps. Three puts are an array or object with a member and a sibling,
or a copy that differs from its original; the values have each symbol that is
escaped first, last and alone, each way of printing a number, and a truth value.

**Where the model stops.** Runs do not check for deadlock: a server whose `Run`
returned, a parser that waits for bytes that do not come, a router that served
its request, a handler that made its last call, a build directory whose `build.json` was cut
short, a program that used a freed context, a freed reply or a null pointer, and a reader that
asked for its member have stopped properly.

**Fairness.** A handler that is queued is run, a started `Run` goes on, and the
kernel completes a read for which there are bytes or an end of stream. A
handshake completes once the client played its part. The kernel's
backlog is first in, first out: a client that can be accepted again and again
is (strong fairness of `CompleteAccept`). `Fairness` assumes nothing of the clients,
and therefore nothing of writes either: the code has no deadlines, and
a client that does not send the rest of its request, or does not read a response
that is larger than the buffers of the sockets, keeps its connection, and its
descriptor, for ever. `StopReturns` and `RequestAnswered` hold all the same. The
two properties that need more say so in their premises: `PlainReleased` of
each client that it is done sending and reads (`Reads`), whatever the other clients do;
`BacklogDrains` of all of them (`PatientClients`), since one that stays can hold
the last descriptor. There is no such property for secure connections: they keep
their descriptor until the server stops, which `SecureHeldUntilStop` states.

In `Build` somebody starts builds again and again, a build that was started
goes on, and a compiler or linker that could succeed again and again does once
(strong fairness of `Compile` and `Link`, which a failing attempt disables).
Edits and mishaps are bounded and need not happen. `EditsAreBuilt` says again and
again, not for ever, because a failing linker may remove the binary.

**The findings.** Two runs are expected to fail, each with a property that a
comment of the code states. `src/http/router.cpp:18` calls the bound of the loop in
`ParsePathVariables` the maximal length of a URI. It counts turns, and a turn
takes the whole of a segment that stands for a variable: `RouterLongUri` serves
a URI that is longer. `src/json/array.cpp:76` says that strings are sanitized;
where the `replace_` of `array.cpp:56` is linked, it removes the symbol that
follows a quote or a new line, and `JsonSanitized` has a string that comes back
without it.

## 4. What is proved

For every set of connections and every bound (`HttpServerProofs`), from `SecureAssumption` and `BoundAssumption`: the
invariants of `ServerPlain` with their parts, its action property `AnsweredOnce`,
`SecureHeldUntilStop`, and that every behaviour of `Spec` is one of
`ServerLifecycle`.

None of these invariants is inductive alone. `IInv` has three layers, and each
is inductive given those before it:

1. `Types`: the type invariant with the conservation of chunks, without which a
   client could fill `inbuf` beyond its type.
2. `Sockets`: `OpenIsManaged`, `AcceptedIsCarried` and `OneOperation` with two
   facts they lean on: operations belong to connections whose socket is open or
   was closed under them (`OperationsBelong`), and a connection handshakes and
   reads before it has a response and only writes after (`Phases`). A second
   operation could only come from a handler that runs while another is
   outstanding.
3. `Remains`: `PendingIsManaged`, `RetainedOnlyAfterSecureWrite` and
   `StoppedStaysStopped` with the tie between acceptor and signal
   (`StopClosesAcceptor`). A handler that was queued when `StopAll` ran starts its
   next operation on a closed socket, where it fails at once and so never pends.

The action properties follow from `IInv` at both ends of a step. The refinement
maps sockets and responses to conversations; its proof has one lemma per action
that is a step of `ServerLifecycle` and shows the others to be stutters.

For every set of messages, buffer size and word size (`RequestParserProofs`), from
`MessagesAssumption` and `SizeAssumption`: the types, and that a message that
does not name a content-length is never refused. The invariant `Origin` traces
each symbol of a stored header name back to the message.

For every set of requests in addition, with `RequestAssumption` and
`CarelessAssumption`: the three invariants of the clients, `DeliveredAsSent`,
`DecidedAtItsEnd` and `LengthIsKept`, in whatever portions a message is read.
`RequestAssumption` says of what a request is made, that each header has a line, and
that the length of a body is a `size_t`. The last was found by the proof: the announced
length is taken modulo the word, so that a body of `Word` symbols would be announced
as none and decided too early.

* The inductive invariant is `OnTrack`; `ClientInit` implies it, and TLC
  found it true on the instance of `ParserSent` before it was proved. A parser that is sent a readable request without
  a fault is in one of the stages of `Stage`, or in the body (`InBody`). A stage is
  a place in the encoding: after the method, after `n` symbols of the URI or of the
  version, after the name or the colon of header `i`, after `n` symbols of its line
  `l`, and so on. It says three things together: the state of the state machine,
  what `buffer_` and the wire still hold (`toCome`), which is the rest of the
  encoding (`AfterHeaders`, `AfterLine`), and what the parser has made of what came
  before (`Holds`): the decoded URI, the headers that are stored, and the key and
  value of the one that is not.
* A read leaves `toCome` as it is and so cannot disturb a stage (`ReadSomeOnTrack`):
  this is why the portions do not matter. The method is the exception, being
  overwritten by a read that fills `buffer_`. `Consumed` shows that such a read
  happens after the method is known only if the message is longer than `buffer_`,
  which is what `MethodKept` and `DeliveredAsSent` allow.
* A body grows by more than was sent only from a read that fills `buffer_` and from which
  the method was parsed. At most the first symbol of the message was read before it
  (`MethodFirst`, `Filled`), and it holds the end of the header, which makes the request
  one that `MayOverrun` (`OverrunsOnce`); any later read that fills `buffer_` finds
  a method to make `GET` of. So what such a request gets, `Extra`, is one symbol at most.
* One lemma per stage (`FromStart`, `FromMethod`, ... `FromEnd`) says which stage
  the next symbol leads to. They rest on `Effect`: the state machine takes the one
  path on that symbol there is (`Deterministic`), and what it then does.
* What headers come to: `ValueGrows` follows a value through its lines, skipping the
  spaces of a continuation as the state machine does, and `StoresIt` shows that
  inserting header `i` into what the first `i - 1` mean gives what the first `i`
  mean.
* In the body what was read and what is to come add up to the body that was sent, so
  that the comparison of lengths decides as the properties say.

For every set of symbols, routers, routes, endpoints and URIs, of any length, and any
number of registrations (`RouterProofs`), from the five assumptions of `Router`, which
say what strings are made of and that an endpoint is not empty: the types and all
four properties of the run.

* The part about states is `IInv`: keys and places of the tables (`Containers`), the
  static tables hold the first of the offered endpoints with a text and a method
  (`StaticEndpoints`), the dynamic lists hold the others in the order they were
  offered (`DynamicEndpoints`), `routers` has the first router of each route and
  `route_` the last route of each router (`Routes`). It is inductive as a whole.
* The part about strings is induction. An operator cannot be a
  parameter of a lemma here, so `SetInduction` takes the set of the numbers for which
  a fact holds; it follows from the cardinality of finite sets. `Recursion` gives
  the recursive functions of the scanners their values, and `Least` and `Greatest`
  what a CHOOSE of a smallest or largest number is.
* What was parsed is what was written: `ParsedIsWritten` carries `Sound` through the
  turns of `ParsePathVariables`, that the variables so far, written into the part of
  the endpoint that was passed, give the part of the URI that was passed.
* What was written is parsed: `FittingIsCut` turns a division of a URI into the
  places at which the symbols of the endpoint end (`Cuts`), and `TurnOnTrack` shows a
  turn to go from one such place to the next; `FittingIsParsed` concludes that the
  loop ends with `OK` in no more turns than the endpoint has symbols.
* A query is read term by term: `Reading` says where the scanner is in the term it
  is in, and `Known` that the parameters so far are the first values of the keys of
  the terms before it (`ScanReads`, `ParsedAsMeant`).

For every set of sources and headers and any number of edits and interruptions
(`BuildToolProofs`), from `FilesAssumption` and `BoundAssumption`: the types,
`NoChangeIsForgotten`, `ChangeReachesSomeone` and `LinkedIsCurrent`. The invariant
`IInv` follows the times. `Behind`: a recorded time is never later than the file,
so that an edit never meets a time that was recorded before. `OwnRecorded` and
`HeaderRecorded`: what `build.json`, and the copy in the script, says of a file
is true of the objects. `InHand`: between `Compile` and `Record` the object is as
the files are, but for edits in the race, which carries a compilation over to
what is recorded of it. `LookedAt`: in an undisturbed build, all that was looked
at is current, which is what `Link` needs.

For every set of contents, headers and statuses and any number of calls
(`HttpResponseProofs`), from the three assumptions of `HttpResponse`: all three
properties of the run. The invariant says whose length is announced
(`LengthIsFirst`) and whose content is written (`ContentIsLast`).

For every set of objects and contexts (`RedisContextProofs`), from
`ContextAssumption`: `OnlySharedDangle` and `NothingLeaks`, which are inductive
together with the types.

For every set of keys and values, every C string of them, and any number of
commands and changes by others (`RedisCommandProofs`), from `ValueAssumption`,
`NilAssumption` and `BoundAssumption`: the types and all four properties of the
run. They are proved together. What carries them are `ReplyIsTrue`, that a reply is one
that the server gives of the store it had, or an error, and `StoreIsLeft`, that the store
is as the command left it until another client changes it. One lemma per kind of command
then says what a reply that is no error holds: `TestReply`
(the number of removed values is one exactly if the value is there once, by the
cardinality of `Places`), `ListElements` and `ListTexts`, `ValueGot` and `MissingValue`.
`EffectsWritten` says that a write which was executed has written each of its values, the
last one of each key (`LastAssigned`), and nothing else, which `WriteIsAllOrNothing` needs. That
the store stays a store (`EffectsType`) needs that each key of a request has a last
value (`AssignedType`), which holds since requests have up to two keys.

For every set of objects, arrays, keys and values (`JsonProofs`), from
`NodesAssumption`, `BoundAssumption`, `KeysAssumption`, `ScalarsAssumption` and
`WidthsAssumption`: the types and `NullIsEmpty`, with `SharingIsKnown` (two objects have the
same elements only after a copy) to make it inductive, both of the calls alone (`BuildSpec`)
and with what happens to the document afterwards (`Spec`); `NumbersAreRead`; and `RoundTrip`, for documents of any depth and size.

The argument for what is read is that the parser keeps in step with the writer (`Synced`): wherever the
text of an element stands, followed by what ends it, `Parser` reads it up to its last symbol and
no further, and finds the element, unless something in it misleads the parser. It takes
these steps. *The functions are defined.* Each recursive definition computes from places
nearer to the end of the text, or from less depth; `Recursion` makes of that a fixed point, by induction over sets
of numbers, since an induction theorem of the library needs an operator as parameter. So
the recursive definitions can be unfolded: `ReplacingStep`, `StringStep`, `ArrayStep`,
`ObjectStep`, `ReadingStep` (the functions of `Parser` depend on each other only
through what is read after their place: `ValueDepends`) and `WrittenStep`. *Strings.* A
sanitized string is read back symbol by symbol (`SanitizedCons`, `ShownIsRead`,
`KeptIsRead`). *Elements.* `ScalarIsSynced`; an array is in step if its items are
(`ArrayIsSynced`) and an object if its members are (`ObjectIsSynced`), from each item or
key on, down from the last. *Documents.* `WrittenInduction` concludes that all that
`ToString` writes is in step. The invariant `DocumentInv` carries this from `Write` to
`Read` and `Get`: the text on its way is one that was written. `KeptComesBack` follows,
since nothing in a kept document misleads the parser.

`OnlyKeptComesBack`, the other half of `RoundTrip`, cannot be had from `Synced`, which
says nothing of a document that misleads the parser: what was read after that might still
be what was written. So there is a second statement by induction over documents
(`Faithful`): wherever the text of an element stands, if `Parser` finds there the element
that was written, then it is kept, with all below it. A string is read as another one
unless it is kept, and a double shown without a point or with too few digits as another
number (`StringIsFaithful`, `NumberIsFaithful`). An array or object that was read as it
was written had its first item or key in place, so that it is kept by induction and
therefore in step: the next one is read at its own place too, and so on to the last
(`ItemIsFaithful`, `MemberIsFaithful`). A number at the end of an array is read on over the
bracket (`NumberRunsOn`), so that no array ends there. A key that was read never has a
backslash (`KeysArePlain`), and an object without members is read as null. A quote in a key
stays out of it: the text of such a member may be read as several, and
`OnlyKeptComesBack` makes the same exception.

Only model-checked: liveness and the refinement with fairness, which are out of
the prover's reach; and of `JsonDocument` the properties of texts that are not as they
were written, `FormattedIsRead`, `CutIsPart` and `ReadsWithin`. `LongUriIsNotFound` and the property of
`JsonSanitized` are false.

## 5. Plan

Done in this order: `ServerLifecycle`, `HttpServer` and its proofs;
`RequestParser`, `RequestClient` and proofs; `Router` and proofs; `BuildTool`,
`HttpResponse`, `RedisContext`, `RedisCommand` and their proofs; `JsonText`,
`JsonObject`, `JsonDocument` and their proofs. Next:

1. `Conversation`: `HttpServer` with `RequestParser` in place of its chunks, so
   that the end of a request is the parser's and not a count.
2. An abstract specification of the build tool, of sources that are or are not
   up to date, which `BuildTool` implements.
3. Proofs of what is only model-checked of `JsonDocument`. A text that is cut or has
   a blank put in is not in step with what was written: it needs a statement like
   `Synced` of each beginning of a text, and of each text with a blank.

## 6. Not modelled

* UUID (`src/util/uuid.cpp`): thirty-two independent random characters. It keeps
  no state, takes no input, and nothing but the probability of a collision could
  be said about it.
* Build configuration (`config.json`, `sonar-scanner`, `.gitignore`): files without
  behaviour. The options of `config.json` only lengthen the commands that
  `BuildTool` runs.
* Loading of certificates and the handler of `SIGSEGV` in `server.cpp`: set-up that
  no later step depends on, and the end of the process.
* What `std::` and hiredis do with numbers, memory and sockets, beyond what the
  code in `src/` relies on: marked as external in `PROJECT.json`.
