# Octane, modelled in TLA+

Octane is a header-only C++20 HTTP/1.1 server on standalone Asio. This
directory holds TLA+ models of its core, the TLC runs that check them and
machine-checked proofs about the connection, the server, the parser, the router,
responses and mapped files. Paths below are relative to the repository.

## Inventory

| Part | State | Operations | Talks to |
|---|---|---|---|
| `App` (`include/App.h`) | a `Router` | `get` ... `head`, `listen` | builds one `TcpServer` per `listen` |
| `TcpServer`, `WorkerContext` (`include/transport/TcpServer.h`) | per worker: event loop, acceptor, map of connections, `stopping`; `signal_io_` | `listen`, accept callback, `stop`, signal callback | posts to workers, owns connections, joins threads |
| `TcpConnection` (`include/transport/TcpConnection.h`) | rolling buffer, `phase_`, `draining_`, `close_after_write_`, `requests_`, `request_` | `start`, read and write callbacks, `stop`, `close`, `fail` | parser, dispatcher, kernel; reports its close to the server |
| `HttpLimits` | bounds and timeouts | `validate` | copied into server and connection |
| `HttpParser` | none between calls | `parse_headers` | returns views into the connection's buffer |
| `Router`, `Trie` | per method a hash map of static paths and a trie of patterns | `add`, `resolve` | filled before `listen`, only read after |
| `RequestDispatcher` | none | `dispatch_response` | router, handlers; turns exceptions into 500 |
| `HttpResponse` | status, fields, body in one of three forms | builders, `serialize_headers`, `serialize` | hooks build it, the connection writes it |
| `MappedFile` (`include/FileHandle.h`) | descriptor, mapping | `open`, `view`, moves, destruction | responses borrow views from it |
| `RouteBase` | an instance for each request | `invoke` with `before`, `handle`, `after` | builds the response |
| `HttpRequest`, `HttpTypes` | data | accessors | |

What is hard in this code:

* *Interleaving on one loop.* A worker's loop is single-threaded, but a read or
  write completes in the kernel some time before its callback runs; the stop
  task can run in between. The same holds for an accept.
* *Interleaving of threads.* Workers, the signal thread and callers of `stop()`
  meet at posted tasks, `signal_io_` and `listen()`'s return.
* *Borrowed storage.* `request_` holds views into a buffer that compacts and
  grows under it; the kernel reads into that buffer.
* *Framing.* The end of a request and of a response is decided by lengths that
  several places compute; pipelining makes every such mistake visible in the
  next request.
* *Borrowed bodies.* A response may view a mapped file it does not own, while
  other workers move, destroy and reopen files and the kernel gives regions and
  descriptors out again.
* *Failure midway.* A hook may throw with the response half built; each system
  call of `open()` may fail after an earlier one has taken a resource; a thread
  may fail to start after others run.
* *Termination.* Joining threads needs every outstanding operation to end.

What must hold, by part: the connection always waits for exactly one operation,
reports its close once, keeps the byte stream intact, answers in order and
within its budget, and sends no body where the client looks for the next
response; the server holds exactly its open connections, within the capacity of
its workers, keeps accepting until it is told to stop, is left with at most one
connection then, and returns only when nothing runs; the router answers as its registrations say;
an accepted header block determines one body length, within the limits; what is
written is the body that was given last, from memory that still holds it; a
descriptor or a mapping is released once, by its owner.
`PROJECT.json` lists each hazard at its line with the properties aimed at it.

## Modules

| Module | Models |
|---|---|
| `HttpLimits` | the limits as constants, `validate()` as their assumption, `std::size_t` addition |
| `RollingBuffer` | `buffer_`, `read_pos_`, `write_pos_` as a record; compaction, growth, consumption as operators |
| `TcpConnection` | one connection, its kernel and its client |
| `ConnectionLifecycle` | what a connection promises its server: the abstract specification |
| `TcpServer` | workers, acceptors, connection maps, stop tasks, signal thread |
| `Routes` | the vocabulary of paths and patterns |
| `RouteTable` | what a router promises, as a function of the registrations: the reference definition |
| `Router` | the hash map, the trie and its two child containers |
| `HttpParser` | `parse_headers`, line by line |
| `HttpResponse` | the response: its builders and both serializations, as operators on a record |
| `MappedFile` | files in memory, the kernel's descriptors and regions, and any program that uses them |
| `StaticFiles` | a request from its route to the wire: `RouteBase`, `RequestDispatcher`, the response, the file it views and the write |
| `MC...` | instances for TLC |
| `..._proofs` | theorems; `Numbers_proofs` holds the facts about natural numbers that the others need |

`TcpConnection` extends `HttpLimits` and `RollingBuffer`; `HttpParser` extends
`HttpLimits`. `TcpConnection` implements `ConnectionLifecycle` by a refinement
mapping (`op` is the operation in flight or its queued callback, `known` is
`closes = 0`), and `TcpServer` runs its connections by the same specification,
one instance for each slot: the two modules compose through it. `StaticFiles`
composes `MappedFile` and `HttpResponse` with the dispatcher and the writing end
of the connection; it refines `MappedFile`'s specification of a program that
uses files. `Router` is compared with `RouteTable` in every state (`AnswersAsTable`).

### TcpConnection

A callback is one action (the loop runs it to its end): `OnRead`,
`OnReadFailed`, `OnWrite`, `OnLastWrite`, `OnClosed`. Each consumes `result`,
the completed operation the kernel queued it for, so that `Stop` may come
between completion and callback. `ProcessInput` is the loop of
`process_input()`, with `ReadMore`, `Fail`, `AwaitBody` and `Serve` for its
exits. `Init` is the state after the accept callback has run the constructor
and `start()`. `stop()` is called only while the server holds the connection
(`closes = 0`); the server passes `force = true`, the model allows both values
because the function is public.

A byte is the offset it has in the client's stream, and a stream is a record of
requests and the offsets where they start. Parsing is what it does to such a
stream: `HeaderOf` finds the request whose header block ends at the first blank
line, `ParseStatus` is the status `parse_headers` throws for it (of the reasons
other than limits only the outcome, `verdict`, is kept; `Expect` is looked at
after the body limit). The header length of a request is at least the four bytes
of a blank line. An application answers with any of `Replies`, throws, or has no
route. `responses` is a history of what was handed to `async_write`, with what
the properties compare: which request it answers, the first and last byte it was
computed from, whether the views were intact, the declared and the sent length.
`Refusal` is what `fail()` sends, its text whatever the method was; the history
keeps whether the request it answers is a `HEAD` request (`HeadAtFront`, also for
a header block that is too long to be completed), which the code does not look at.

The time between the start of a read and its completion is the time in which
the kernel may write into the buffer; a read whose storage is gone writes
nowhere in the model (`ReadTargetsFreeSpace` shows that this does not happen).

### TcpServer

A connection is a slot that is used once: its state is that of
`ConnectionLifecycle`. Posting the stop tasks is one step, because a worker
looks at nothing but its own queue. `LoopOutcomes` says what `++it` may do after
the body of the range-for has erased the node `it` stands on (`TcpServer.h:46`
with `:123`): read the old link ("next"), read a null one ("end"), or crash.
`server_threads` and `server_join` have the first only, so that nothing holds merely
because the process is gone, `server_iteration` the first two, and
`server_liveness` all of them; the theorems but `StopLeavesOneAtMost` hold for any.
`signalOff` is permanent: `listen()` never restarts `signal_io_`. `ListenFails`
is a bind failure, after any number of workers. `ThreadsFail` is a thread that
cannot be created (`:103`, `:106`): the exception stays in `listen()`, whose
`jthread`s join loops that nothing has told to stop, until somebody calls
`stop()` (`main = "unwinding"`). The signal wait is armed by then and its loop
never runs, so that a signal is caught and lost; it stays queued for a later
call (`Armed`).

### Router

A trie node is named by the steps from the root. `add()` is the action, split
into the unknown method, the pattern and the static path; `resolve()` is an
operator, because `App` and the examples register every route before `listen`.
A path is its non-empty segments and a spelling, since a hash map compares
spellings and a trie does not see empty segments. Where the code allows eight
children in the linear array, the instance allows one: the second child then
migrates.

### MappedFile, HttpResponse and StaticFiles

`MappedFile` keeps its whole state in one record, `fs`: the objects, what every
descriptor and every region refers to, and, as a history, what a second `open()`
of the same object forgot. Each operation of the class is a function from such
a record to another (`Open`, whose system calls may fail, to a set of them),
and the actions of `FileSpec` are what a program may do with objects of that
type. Descriptors are reused lowest first, as POSIX says; `mmap` may use any free
region. An operation is one step: it works on one object and meets other
threads only in system calls, each of which takes or returns one number.

`HttpResponse` gives a run of bytes as where it is, what it says and how long it
is. A header field has a name and a spelling, because the map of fields tells
spellings apart and HTTP does not. Keys and values are strings of any bytes in
the code, so both also have the set of the lines that line breaks inside them
make (`lines`; empty for an ordinary field): what is written for a field is all
of them, and a key with a line break is no reserved name (`Says`). A blank line
in a value, which would end the header block early, is left out.

In `StaticFiles` a hook is a sequence of builder calls which may end in an
exception; `GetHtml`, `GetCss` and `GetHello` are the handlers of
`examples/01_hello_world` and `ServeFile` is the one of `README.md:247-255`. A
route's file is a member of its instance, opened by the constructor in `Begin` and
destroyed in `Return`, or one of the application's, opened by the first request
that needs it. Between `Return` and `Written` the response holds nothing but the
view: this is where other connections and `Housekeeping` run. `Housekeeping` is
whatever the application does with its files on other threads; it keeps the one
promise an application can keep, never to unmap what a response under way
views. The threads of two connections share files and nothing else here, so
`StaticFiles` does not repeat the buffers and phases of `TcpConnection`.

### HttpParser

A header block is the outcome of splitting its bytes: a request line and field
lines, each with what its own check tells apart. The model keeps the order of the
checks, which decides the status. Cookies and the content type decide nothing
and are left out.

## Runs

Passing:

| Run | Question | Bounds |
|---|---|---|
| `conn_requests` | Is the byte stream intact through every fragmentation; do operations, closes, responses and views keep their discipline under stop, failure and refusal; does a connection implement `ConnectionLifecycle`; is everything pipelined answered, and do the callbacks of a closed connection end? | buffer 8, low water 2, limits of 6 and 6; two to four requests of 4, 7, 8 and 11 bytes that are served, end the connection, are refused (400, 413, 417, 431), are `HEAD`, served or refused, fill the buffer exactly, or exceed a budget of 3; replies with and without body, exceptions, a status of 600; fair loop, fair client |
| `server_threads` | Threads, maps, joins and capacity; what does a stop leave behind? | a limit of three connections, whose share for each of two workers is one, and two clients for each worker; two calls of `listen`, each of which may fail to bind or to create a thread, one of `stop`; a loop over the map that survives its erasures (`LuckyOutcome`) |
| `server_liveness` | Does a signal end the server? | two workers, one call of `listen`, one of `stop`; anything the loop over the map may do after an erasure (`AnyOutcome`) |
| `static_files` | Is each file released once, is what is written what was given last, and is it still there? | two connections, two files of the application, two regions and two descriptors (fewer than there are objects, so that they run out and are reused), one lost resource, nine kinds of requests; connections and regions are symmetric |
| `router_table` | Does the tree answer as the table says? | three registrations out of 23, all paths of up to two segments |
| `parser_blocks` | What does an accepted block determine? | up to two arbitrary field lines, or a sound `Host` and two more; all kinds of request lines; body limit 3, `std::size_t` of 0..15 |

`CHECK_DEADLOCK` is off everywhere: a connection that has closed and drained, a
server that has returned, a parser that is done and a router with all its
registrations really stop.

Three requests are enough for the buffer because a request can meet the buffer
in three ways (at its start, behind consumed bytes, behind the point where it
must grow), a fourth one exceeds the budget, and the proofs below do not depend
on any bound. Two workers are
enough because workers share only the signal loop and `listen()`. Three
registrations are enough to fill, migrate and look up in one node and to
shadow one pattern by another. Two connections and two files are enough for a
region to be released by one, given to another and viewed by the first; the
bound on lost resources lets one object be opened twice.

Each of the other runs checks one sentence of the repository's `README.md`, of a
header's comment or of a test, and finds that the code does otherwise (see
`findings` in `PROJECT.json`, which quotes the sentences):

| Run | What the code does |
|---|---|
| `conn_dangling` | compaction or growth while the body arrives leaves the request's views dangling (`TcpConnection.h:162`, `:169`) |
| `server_iteration` | erases from the map it is iterating over (`TcpServer.h:46`) |
| `server_join` | admits a connection after the stop task, and then waits for it (`:117`) |
| `static_dangling` | destroys the route instance, and the mapped file that is its member, before the body is written (`RouteBase.h:17`); `static_files` checks the same property for routes that do not do this |
| `static_injection` | writes a field value with a line break as it is, which adds a `Content-Length` (`HttpResponse.h:170`); `static_files` checks the framing for fields of one line |
| `parser_empty_length` | takes an empty `Content-Length` for none (`HttpParser.h:66`); `parser_blocks` checks that any other one is the length |

Further places where documents and code differ, read while modelling and present
in the models, but without a run of their own:

* the body of a 204 or 304 response is sent (`TcpConnection.h:136-151`;
  `README.md:78`), where the client looks for the next response: the
  applications of `conn_requests` give these statuses none;
* a refused `HEAD` request is answered with a text (`TcpConnection.h:189`;
  `README.md:78`). It is the last response of its connection, and that is what
  `NextResponseIsFound` says of it; streams of `conn_requests` refuse such requests;
* the exception of `serialize_headers`, for a status outside 200..599, leaves the
  event loop and ends the process (`TcpConnection.h:137`; `README.md:78` promises
  a 500 and a close). The models have it as `crashed`, which is why
  `EveryRequestAnswered` exempts such a process;
* the connection is kept after the response of an exception
  (`TcpConnection.h:125` decides before the handler runs; `README.md:78`,
  `tests/http_parser.cpp:43-45`);
* the server may hold more connections than `max_connections`, because
  `worker_limit()` is at least 1024 for each worker (`TcpServer.h:137`;
  `HttpLimits.h:18`): with the limit of the tests (2,
  `tests/server_fixture.cpp:13`) it admits 1024 for each worker, and with the default of 4096 and
  eight workers (`README.md:64-71`) it admits 8192. `TotalCapacity`
  says exactly this, with the floors in its bound, and `CapacityHolds` proves it
  for every floor; the floor is 1 in the instances, so that the share of a
  worker decides there and its rounding is what is checked;
* a pattern renames the parameter of an earlier one that goes through the same
  node, whose handler no longer finds it (`Trie.h:84`; `README.md:219`), and a
  literal child that leads nowhere hides a parameter that would match
  (`Trie.h:112`). `RouteTable` has both rules in it: `AnswersAsTable`
  pins them down and does not rule them out;
* an empty `Transfer-Encoding` is taken for none (`HttpParser.h:59`;
  `README.md:53`);
* fields a hook set before it threw are sent with the 500
  (`RequestDispatcher.h:27`);
* a signal does nothing while `listen()` waits for its threads after a failure
  to create one (`TcpServer.h:103`; `README.md:80`);
* there is no read and no write deadline (`TcpConnection.h:172`, `:208`;
  `HttpLimits.h:22`, `:24`);
* the stop task calls `stop(true)`, which cuts off requests in progress
  (`TcpServer.h:47`; `README.md:80`);
* a second `listen` handles no signal, because `signal_io_` stays stopped
  (`TcpServer.h:106`);
* the query is stored as it was sent (`HttpParser.h:199`;
  `tests/http_parser.cpp:38`).

`ViewsIntactAtOrigin` is the part of the view promise that the code keeps: a
request that fits the initial buffer and whose header block was found at its
start is safe. With the default limits (16 KiB and 1 MiB) and buffer (64 KiB)
these are the requests of up to 64 KiB, unless one was found behind consumed bytes.

## Fairness

The event loop runs every callback it has queued (`LoopFairness`, and the
per-thread fairness of `TcpServer`): this is what `io_context::run` does as
long as handlers return. The kernel completes the operations of a closed socket
(`Cancel`): `close()` cancels them. Nothing else is fair: a client may send and
read nothing, `stop()` need not be called and no signal need come. Only
`conn_requests` adds a client that sends its stream and reads its responses,
because one of its questions is whether such a client is answered; this restricts
no finite behaviour, so that its safety properties are those of any client.
`server_join`, whose counterexample is a client that stays silent, uses the fair
specification of the server.

## Proofs

All theorems hold for every choice of limits, buffer sizes, client streams and
replies, under `LimitsAssumption` (what `validate()` checks),
`BufferAssumption`, `StreamAssumption` (requests follow each other without
gaps) and `ReplyAssumption`; those about the parser hold for every set of header
blocks of the shape `BlockAssumption` gives; those about the server for every
finite set of workers (`ServerAssumption`); those about files for any sets of
objects, paths, regions and descriptors (`FileAssumption`) and any requests and
hooks (`RequestAssumption`); those about the router for any methods, segments,
calls of `add()` and request paths of the shapes `CallAssumption` and
`PathAssumption` give, and any size of the linear array (`LinearAssumption`;
the bound on the calls, `MaxCalls`, is arbitrary and no proof uses it).

For a connection the argument has six layers, each an inductive invariant: the
second and third contain the one before them, and the last three rest on *Order*.

1. *Control* (`TcpConnection_proofs`): the types of the control variables,
   `OneOperation` and `ClosesOnce`. `ProcessInputStarts` reduces all exits of
   `process_input()` to three effects (a read started, a write started, the
   process gone), so that the data plays no part. From it: `AlwaysOneOperation`,
   `AlwaysClosesOnce`, `ClosedStaysClosed`, and
   `ConnectionImplementsLifecycle`, the step simulation of the abstract
   specification.
2. *Data*: the buffer is a buffer, its window is a
   piece of the stream that ends at the last byte received, a read targets its
   free space, its size is bounded, and in the body phase the header size is
   within the limit and the body is within its own. The last conjunct is what
   makes the bound inductive: growth happens only while less than header limit
   plus body limit bytes are unconsumed. A lemma for each buffer operation says
   what it keeps (`CompactKeeps`, `MakeRoomKeeps`, ...). Theorems: `WindowIsAlwaysStream`,
   `ReadsAlwaysTargetFreeSpace`, `BufferAlwaysBounded`.
3. *Order* (`TcpConnectionOrder_proofs`): while a connection may still serve,
   its unconsumed bytes start exactly where the next unanswered request starts,
   and `requests_` is the number of responses. `FoundIsNext` turns this into
   the statement that the first blank line found belongs to the next request.
   Theorems: `ResponsesAlwaysInOrder`, `AnnouncedEndIsTheEnd`, `BudgetIsKept`.
4. *Types*: what is left of `TypeOK` needs the first three layers
   (`request.idx` is a request of the stream because of *Order*). Theorem:
   `ConnectionTypes`.
5. *Views* (`InPlace`): while a request found at the front of the buffer waits
   for its body, the unconsumed bytes are fewer than it has in all, which fits
   the initial buffer, and the buffer never shrinks, so that `read_more()` finds room, moves nothing
   and reallocates nothing (`MakeRoomAtOrigin`); that the cells then still show
   the header block is *Data* and *Order* again. Theorem: `ViewsStayAtOrigin`.
6. *Framing*: `NextResponseIsFound` is false of an application that gives a 204
   a body, which is sent, so the theorem assumes what the code leaves to it
   (`BodilessAreEmpty`). A served response has the length its client expects; a
   refusal need not, but it announces the close, and `AnnouncedEndIsTheEnd` makes
   it the last. Theorem: `ResponsesAreFramed`.

For the parser (`HttpParser_proofs`) the invariant is `Parsing`. Its core,
`Stored`, says of the lines read so far that what is stored under a name is the
value of the *first* line with that name, and that a name that must be unique
has one line; `Verdict` says what an accepted block was accepted for. `OneLength`
needs the uniqueness (`StoredIsTheLine`: with one line, the stored value is the
value of every line), `PersistenceAgrees` needs the order (`AskedIsStored`: what
is stored under `connection` is what the first such line asks for, nothing when
there is none), and `WithinLimits`
needs the relation between the limits that `validate()` establishes. Theorems:
`AcceptedBodyHasOneLength`, `PersistenceAlwaysAgrees`,
`AcceptedRequestIsWithinLimits`, `ParserTypes`.

For the server (`TcpServer_proofs`) the argument is about one slot at a time.
`SlotSteps` says that any step of any thread leaves a connection alone or takes it
through one transition of its life, on a worker whose loop runs, and that a new
connection comes from an accept callback that found room. The invariant
`ServerInv` adds to the types: what is known is open and has an operation
outstanding (`AllSound`); a loop that does not run has nothing left, and none
runs when `listen()` does not (`Rested`, without which `ReturnsClean` is not
kept, since nothing else connects loops that have ended with connections);
`KeepsAccepting`; and that a stopping worker waits for no accept (`Quiet`).
The capacity of the server is the sum of what its workers hold: each stays within
its share (`WorkerCapacityHolds`), the shares fit the whole (`SharesFit`), and
numbering the connections of each worker shows that all of them are no more than
the workers times a share (`AllKnownBounded`).
Theorems: `ServerTyped`, `MapAgrees`, `AlwaysAccepting`, `LeavesNothing`,
`CapacityHolds`, `LateAdmissions`, and `ServerFollowsLifecycle`, the refinement of
`ConnectionLifecycle` by every slot. `ConnectionImplementsLifecycle` says the same
of `TcpConnection`: both modules stay within one specification of a connection.
It is not shown that every behaviour of that specification is one of
`TcpConnection`; the server model may be wider.

`StopLeavesOneAtMost` has the hypothesis `LoopOutcomes = {"next"}`, that `++it`
still reads the link of the node it has erased. The first stop task then empties
the map (`FirstStop`, `StopEmpties`), later ones find it so, and an accept that
had completed adds one connection (`StoppedAccept`): what `server_iteration` and
`server_join` find has no other cause.

For files (`MappedFile_proofs`) the invariant is `Consistent`: types, `Held`
(what an object holds is open, its own and not lost) and `Accounted` (what is
open is held or lost). `Held` alone is not kept: the number `open()` gets from
the kernel is nobody's only because everything anybody holds or lost is not free,
and `Release` is harmless only because what it closes is the object's own. There
is one lemma for each operation; `LowestIsFree` is about the kernel's choice.
Theorems: `FilesTyped`, `FilesHeldAreOpen`, `OpenFilesAreHeld`. `StaticFiles_proofs`
shows that requests and the application are such a program (`RequestsUseFiles`),
and so both hold of it (`RequestsKeepFilesOpen`, `RequestsLeakNothing`).

For responses (`StaticFiles_proofs`) the invariant is `Responses`: types, and
`Sound` for each connection, which says how the selector and the three bodies
relate to the body given last at the stage the connection is in, and what is on
the wire. A hook is any sequence of calls, so what it does is an induction along
the sequence, in which `Built` is what every call keeps; an exception is covered
because `CallNext` does nothing after it. Theorems: `RequestsTyped`,
`BodyAlwaysLastGiven`, `FramingAlwaysTransports`, `TestsAlwaysSeeTheWire`.
The framing is proved for fields of one line: nothing in the code rejects others
(`static_injection`).

`MappedBodiesAlive` has a hypothesis about the application, `LentByApplication`:
a route whose file is a member of its instance gives no view of it. Without it
the statement is false (`static_dangling`); the routes of the example satisfy it, and
so do all requests of `static_files`. Its invariant, `BodiesViewed`, says that a
mapped body is what is mapped where it points *and* that the region belongs to
the application or is lost: regions of instances, which are unmapped and reused
all the time, are not among those. That connections only ever take free regions
(`FilesKeepViews`) comes from `Consistent`, so that the proof composes the two
invariants.

For the router (`Router_proofs`) the invariant is `Registered`, which determines
tree and map from the registrations: a node is in a trie exactly if it is a prefix
of the shape of a dynamic registration (or the root), its handler is that of the
last registration of exactly its shape, its parameter name that of the last one
through it, and every child is in one of the parent's two containers, the linear
one no longer than it may be (`IsTrieOf`, `IsMapOf`). None of the three
properties is inductive alone: an insertion at a node needs to know of its
containers, and what `search()` returns is about all nodes on a path. An
insertion (`InsertBuilds`) is an induction along the pattern whose statement,
`Grown`, compares trie and result; `WithChildAdds` is the migration, and
`TrieGrows` the comparison with the registrations. A search is an induction along
the path: where literals-first steps lead to a node, the walk ends there with the
parameters bound (`SearchFinds`), and where they do not, it fails
(`SearchFails`). `RouteTable` says `Takes` and `Parameters` without a walk;
`TakesLeads` and `SameParameters` show that they are the steps and the bindings of
the walk. The names of two parameters of one path may be equal; then the later
segment wins, in the trie because the map is overwritten and in the table because
it says so. Theorems: `RouterTyped`, `NothingIsEverLost`, `AlwaysAnswersAsTable`.

Induction here is over numbers, in the form `Numbers_proofs` gives it: a
property is passed as the set of the numbers that have it (`AllNumbers`, `UpTo`),
which is derived from the well-foundedness of `<` on `Nat`. For the same reason
`Insert`, `Search` and `Run` are recursive functions on `0..Len`, not recursive
operators.

Only model-checked are the liveness properties and the refinement that includes
fairness (`EveryRequestAnswered`, `ImplementsFairLifecycle`, `SignalStops`,
`StoppedLoopEnds`, `ListenReturnsAfterStop`): liveness under fairness and
`ENABLED` are outside the prover. Every invariant and every action property of
a passing run is a theorem. The properties of the other runs are false of the
code, so there is nothing to prove; where a theorem needs what the code lacks, it
has it as a hypothesis (`ResponsesAreFramed`, `MappedBodiesAlive`,
`StopLeavesOneAtMost`) or in the property itself (`FramingAlwaysTransports`).

## Not modelled, and plan

Not modelled:

* `App`, `HttpRequest`, `HttpTypes`, tests and benchmarks (see the notes in
  `PROJECT.json`), `read_file`, which is input and output only, and
  `examples/02_rest_api`, which the build leaves out and which does not compile;
* the Windows branch of `FileHandle`, socket options, port numbers, reason
  phrases and the names of content types;
* handlers that block: a hook is a part of a callback, which ends;
* a file that is truncated while it is mapped: the code never looks at it again;
* the data race on `workers_` between `stop()` and `listen()`
  (`TcpServer.h:40`, `:58`, `:88`): in the model `stop()` finds the workers of
  the current call, or none.

Next, in this order:

1. The safety half of the liveness arguments: that a stopped worker without
   connections has only finitely many steps left, as a measure that every step of
   it decreases, and that an answered request leaves less of the stream to serve.
2. The life of `workers_` across `listen`, `stop` and the destruction of the
   server.
