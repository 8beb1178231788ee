----------------------------- MODULE StaticFiles ----------------------------
(***************************************************************************)
(* A request from its route to the wire: RequestDispatcher finds a route,  *)
(* routes::Base constructs an instance, runs its hooks and destroys it,    *)
(* the response they built is serialized, and the connection keeps a view  *)
(* of its body until the kernel has sent it.  The body may be a view into  *)
(* a mapped file, which nothing in the response owns.                      *)
(*                                                                         *)
(* Every connection runs on some worker; those of different workers        *)
(* interleave and share the files of the application and what the kernel   *)
(* reuses.  A connection is shown while it has a request; between two of   *)
(* them it is idle, and a closed one is as good as idle.                   *)
(***************************************************************************)
EXTENDS MappedFile, HttpResponse, Sequences

CONSTANTS
  Conns,    \* connections; each names the member file of its route's instance
  Requests  \* what clients may ask for

\* A request is the route it resolves to (NoRoute for none), whether it is a
\* HEAD request, and whether the connection closes after it.
\*
\* A route's file is a member of its instance, opened by its constructor, or
\* one of the application's, opened when a request first needs it.  Its hooks
\* are sequences of calls, empty for a hook the class does not have.
Owners == {"none", "member", "shared"}

Operations == {"throw", "status", "header", "text", "send", "owned",
               "GetHtml", "GetCss", "GetHello", "ServeFile"}

IsHook(calls) ==
  Len(calls) \in Nat /\ \A i \in 1 .. Len(calls) : calls[i].op \in Operations

ASSUME RequestAssumption ==
  /\ Conns \subseteq Objects
  /\ Heap \notin Regions \cup {NoRegion}
  /\ \A q \in Requests :
       /\ q.head \in BOOLEAN /\ q.close \in BOOLEAN
       /\ q.route.owner \in Owners
       /\ IsHook(q.route.before) /\ IsHook(q.route.handle) /\ IsHook(q.route.after)
       /\ q.route.owner = "shared" => q.route.file \in Objects \ Conns
       /\ q.route.owner # "none" => q.route.path \in Paths

VARIABLES
  stage,     \* what a connection does next
  route,     \* the route its request has
  head,      \* its request is a HEAD request
  close,     \* close_after_write_
  response,  \* the response under construction
  given,     \* history: the body last given to the response
  threw,     \* history: a hook has thrown
  wire,      \* header_payload_ and body_payload_
  crashed    \* an exception has left a callback: the process is gone

exchange == <<stage, route, head, close, response, given, threw, wire>>
vars == <<fs, exchange, crashed>>

Stages ==
  {"idle", "before", "handle", "after", "return", "dispatched", "writing"}

NoRoute == [owner |-> "none", file |-> NoRegion, path |-> NoPath,
            before |-> <<>>, handle |-> <<>>, after |-> <<>>]
NoWire  == [block |-> {}, payload |-> NoBytes]

-----------------------------------------------------------------------------
(* What the code of a hook does.                                           *)

FixedText(status) == Text(IF status = 404 THEN "Not Found" ELSE "Internal Server Error", 1)
AppText(what) == Text(what, 2)

\* The body and the response that says it, for the three ways of giving one.
Give(e, b, res) == [e EXCEPT !.res = res, !.given = b]

\* examples/01_hello_world: GetHtml, GetCss and GetHello, given what the file's
\* view() is.
GetHtml(e, v) ==
  IF v.len = 0
  THEN LET missing == AppText("index.html not found")
       IN Give(e, missing, SendText(SetStatus(e.res, 500), missing))
  ELSE Give(e, v, SendView(SetStatus(e.res, 200), v, "text/html"))

GetCss(e, v) ==
  LET css == Key("content-type", "Content-Type")
      copy == Text(v.text, v.len)
      res == SetHeader(SetStatus(e.res, 200), css, Value("text/css"))
  IN Give(e, copy, Send(res, copy))

GetHello(e) ==
  LET json == AppText("hello")
  IN Give(e, json, SendTyped(SetStatus(e.res, 200), json, "application/json"))

\* One call of a hook.  ServeFile is the handler of README.md:247-255.
Call(e, call, v) ==
  LET text == AppText(call.op)
  IN CASE call.op = "throw"  -> [e EXCEPT !.threw = TRUE]
    [] call.op = "status"    -> [e EXCEPT !.res = SetStatus(e.res, call.status)]
    [] call.op = "header"    -> [e EXCEPT !.res = SetHeader(e.res, call.key, call.val)]
    [] call.op = "text"      -> Give(e, text, SendText(e.res, text))
    [] call.op = "send"      -> Give(e, text, Send(e.res, text))
    [] call.op = "owned"     -> Give(e, text, SendOwned(e.res, text))
    [] call.op = "GetHtml"   -> GetHtml(e, v)
    [] call.op = "GetCss"    -> GetCss(e, v)
    [] call.op = "GetHello"  -> GetHello(e)
    [] call.op = "ServeFile" ->
         Give(e, v, SendView(SetStatus(e.res, 200), v, "text/html"))

\* Nothing is called after a call that throws.
CallNext(e, call, v) == IF e.threw THEN e ELSE Call(e, call, v)

\* A hook's calls in order.
Run(e, calls, v) ==
  LET after[n \in 0 .. Len(calls)] ==
        IF n = 0 THEN e ELSE CallNext(after[n - 1], calls[n], v)
  IN after[Len(calls)]

-----------------------------------------------------------------------------
(* routes::Base::invoke().                                                 *)

HolderOf(c, r) == IF r.owner = "member" THEN c ELSE r.file

\* What view() of the route's file returns, with what is mapped there.
FileView(f, c, r) ==
  IF r.owner = "none" THEN NoBytes
  ELSE LET v == View(f, HolderOf(c, r))
       IN [at |-> v.at, len |-> v.len,
           text |-> IF v.at = NoRegion THEN NoText ELSE f.maps[v.at].path]

\* Only the hooks a class has are compiled into invoke().
FirstHook(r) == IF r.before # <<>> THEN "before" ELSE "handle"
LastHook(r)  == IF r.after # <<>> THEN "after" ELSE "return"

\* A request is complete and has a route: an instance is constructed, and its
\* member file opened.
Begin(c) ==
  /\ ~crashed /\ stage[c] = "idle"
  /\ \E q \in Requests :
       /\ q.route # NoRoute
       /\ route' = [route EXCEPT ![c] = q.route]
       /\ head' = [head EXCEPT ![c] = q.head]
       /\ close' = [close EXCEPT ![c] = q.close]
       /\ IF q.route.owner = "member" THEN FileAcquire(c, q.route.path)
                                      ELSE UNCHANGED fs
  /\ stage' = [stage EXCEPT ![c] = FirstHook(route'[c])]
  /\ UNCHANGED <<response, given, threw, wire, crashed>>

\* The calls of the hook that comes next; afterwards the next hook comes, or
\* the end of invoke() when one of them threw.
HookRuns(c, calls, next) ==
  LET e == Run([res |-> response[c], given |-> given[c], threw |-> FALSE],
               calls, FileView(fs', c, route[c]))
  IN /\ response' = [response EXCEPT ![c] = e.res]
     /\ given' = [given EXCEPT ![c] = e.given]
     /\ threw' = [threw EXCEPT ![c] = e.threw]
     /\ stage' = [stage EXCEPT ![c] = IF e.threw THEN "return" ELSE next]
     /\ UNCHANGED <<route, head, close, wire, crashed>>

Before(c) ==
  /\ ~crashed /\ stage[c] = "before"
  /\ UNCHANGED fs
  /\ HookRuns(c, route[c].before, "handle")

\* The application's file is opened by the first handler that needs it.
Handle(c) ==
  /\ ~crashed /\ stage[c] = "handle"
  /\ IF route[c].owner = "shared" /\ ~Alive(route[c].file)
     THEN FileAcquire(route[c].file, route[c].path)
     ELSE UNCHANGED fs
  /\ HookRuns(c, route[c].handle, LastHook(route[c]))

After(c) ==
  /\ ~crashed /\ stage[c] = "after"
  /\ UNCHANGED fs
  /\ HookRuns(c, route[c].after, "return")

-----------------------------------------------------------------------------
(* RequestDispatcher.                                                      *)

\* dispatch() answers an exception with a fixed text, and leaves the header
\* fields the hooks set before it.
Caught(res) == SendText(SetStatus(res, 500), FixedText(500))

\* dispatch_response() marks the last response of a connection.
Marked(res, k) ==
  IF k THEN SetHeader(res, Key("connection", "Connection"), Value("close")) ELSE res

\* invoke() ends, by returning or by an exception: the instance is destroyed,
\* and with it the file that is its member.
Return(c) ==
  /\ ~crashed /\ stage[c] = "return"
  /\ IF route[c].owner = "member" THEN FileDestroy(c) ELSE UNCHANGED fs
  /\ response' = [response EXCEPT ![c] =
       Marked(IF threw[c] THEN Caught(@) ELSE @, close[c])]
  /\ given' = [given EXCEPT ![c] = IF threw[c] THEN FixedText(500) ELSE @]
  /\ stage' = [stage EXCEPT ![c] = "dispatched"]
  /\ UNCHANGED <<route, head, close, threw, wire, crashed>>

\* No route takes the request.
NotFound(c) ==
  /\ ~crashed /\ stage[c] = "idle"
  /\ \E q \in Requests :
       /\ q.route = NoRoute
       /\ head' = [head EXCEPT ![c] = q.head]
       /\ close' = [close EXCEPT ![c] = q.close]
       /\ response' = [response EXCEPT ![c] =
            Marked(SendText(SetStatus(@, 404), FixedText(404)), q.close)]
  /\ given' = [given EXCEPT ![c] = FixedText(404)]
  /\ stage' = [stage EXCEPT ![c] = "dispatched"]
  /\ UNCHANGED <<fs, route, threw, wire, crashed>>

-----------------------------------------------------------------------------
(* TcpConnection.                                                          *)

\* Mutant: an owned body is looked for in the dynamic one.
PayloadWithoutOwned(res, h) ==
  IF h THEN NoBytes
  ELSE IF res.bodyType = "Mapped" THEN res.mapped ELSE res.body

\* body_payload_: a view of the mapped body, or of a string the connection
\* now owns.
Payload(res, h) ==
  IF h THEN NoBytes
  ELSE CASE res.bodyType = "Mapped"  -> res.mapped
         [] res.bodyType = "Owned"   -> res.owned
         [] res.bodyType = "Dynamic" -> res.body

\* The rest of process_input(), and write().
Write(c) ==
  /\ ~crashed /\ stage[c] = "dispatched"
  /\ Serializable(response[c].status)
  /\ wire' = [wire EXCEPT ![c] =
       [block   |-> SerializeHeaders(response[c], close[c]),
        payload |-> Payload(response[c], head[c])]]
  /\ stage' = [stage EXCEPT ![c] = "writing"]
  /\ UNCHANGED <<fs, route, head, close, response, given, threw, crashed>>

\* serialize_headers() throws out of the callback.
WriteThrows(c) ==
  /\ ~crashed /\ stage[c] = "dispatched"
  /\ ~Serializable(response[c].status)
  /\ crashed' = TRUE
  /\ UNCHANGED <<fs, exchange>>

\* The write completes, or the connection closes under it.
Written(c) ==
  /\ ~crashed /\ stage[c] = "writing"
  /\ stage' = [stage EXCEPT ![c] = "idle"]
  /\ route' = [route EXCEPT ![c] = NoRoute]
  /\ head' = [head EXCEPT ![c] = FALSE]
  /\ close' = [close EXCEPT ![c] = FALSE]
  /\ response' = [response EXCEPT ![c] = NewResponse]
  /\ given' = [given EXCEPT ![c] = NoBytes]
  /\ threw' = [threw EXCEPT ![c] = FALSE]
  /\ wire' = [wire EXCEPT ![c] = NoWire]
  /\ UNCHANGED <<fs, crashed>>

-----------------------------------------------------------------------------
(* The application's own use of its files, at any time, on any thread.  It *)
(* keeps one promise: no mapping goes while a response views it.           *)

Files == Objects \ Conns

Unviewed(o) ==
  fs.obj[o].data # NoRegion =>
    \A c \in Conns : response[c].mapped.at # fs.obj[o].data

Housekeeping ==
  /\ ~crashed
  /\ \E o \in Files :
       \/ FileConstruct(o) \/ FileOpen(o)
       \/ Unviewed(o) /\ FileDestroy(o)
       \/ \E from \in Files :
            \/ FileMoveConstruct(o, from)
            \/ (o = from \/ Unviewed(o)) /\ FileMoveAssign(o, from)
  /\ UNCHANGED <<exchange, crashed>>

-----------------------------------------------------------------------------
Init ==
  /\ FileInit
  /\ stage = [c \in Conns |-> "idle"]
  /\ route = [c \in Conns |-> NoRoute]
  /\ head  = [c \in Conns |-> FALSE]
  /\ close = [c \in Conns |-> FALSE]
  /\ response = [c \in Conns |-> NewResponse]
  /\ given = [c \in Conns |-> NoBytes]
  /\ threw = [c \in Conns |-> FALSE]
  /\ wire  = [c \in Conns |-> NoWire]
  /\ crashed = FALSE

Exchange(c) ==
  \/ Begin(c) \/ Before(c) \/ Handle(c) \/ After(c) \/ Return(c)
  \/ NotFound(c) \/ Write(c) \/ WriteThrows(c) \/ Written(c)

Next == Housekeeping \/ \E c \in Conns : Exchange(c)

Spec == Init /\ [][Next]_vars

-----------------------------------------------------------------------------
(* Properties.                                                             *)

\* What a body may say: a file, a text of the library's, or the application's.
Texts ==
  Paths \cup {NoPath, NoText, "Not Found", "Internal Server Error"}
    \cup Operations \cup {"index.html not found", "hello"}

Bytes(b) ==
  /\ b = [at |-> b.at, text |-> b.text, len |-> b.len]
  /\ b.at \in Regions \cup {NoRegion, Heap} /\ b.text \in Texts /\ b.len \in Nat

\* Types: what a connection holds has the shape of its C++ type.
TypeOK ==
  /\ FileTypeOK
  /\ crashed \in BOOLEAN
  /\ \A c \in Conns :
       /\ stage[c] \in Stages /\ route[c] \in {q.route : q \in Requests} \cup {NoRoute}
       /\ {head[c], close[c], threw[c]} \subseteq BOOLEAN
       /\ response[c].bodyType \in {"Dynamic", "Owned", "Mapped"}
       /\ \A b \in {given[c], response[c].body, response[c].owned,
                    response[c].mapped, wire[c].payload} : Bytes(b)

\* While a response is being written, the region its body points into maps the
\* bytes the handler chose: neither another thread's file, moved objects, a
\* repeated open() nor an instance destroyed meanwhile took its place.  It
\* rests on the promise of Housekeeping and on routes that do not view a file
\* of their own instance.
MappedBodyAlive ==
  \A c \in Conns :
    LET payload == wire[c].payload
    IN (stage[c] = "writing" /\ payload.at # Heap /\ payload.len > 0) =>
         /\ payload.at \in Regions
         /\ fs.maps[payload.at] = [path |-> payload.text, len |-> payload.len]

\* Whatever hooks and exceptions did to the response before, its active body
\* is the one given last, and after an exception the fixed text with status
\* 500: the three body members and their selector never disagree.
BodyIsLastGiven ==
  \A c \in Conns : stage[c] \in {"dispatched", "writing"} =>
    /\ ActiveBody(response[c]) = given[c]
    /\ threw[c] => response[c].status = 500 /\ given[c] = FixedText(500)

\* The lines of a block that delimit the response are the transport's: one
\* Connection, which says what the connection will do, one Content-Length with
\* the length of the body (none for 204 and 304), no Transfer-Encoding.
Framed(block, k, status, len) ==
  {line \in block : line.name \in {"connection", "content-length", "transfer-encoding"}}
    = {Line("connection", Framework, IF k THEN "close" ELSE "keep-alive", 0)}
        \cup (IF status \in {204, 304} THEN {}
              ELSE {Line("content-length", Framework, NoText, len)})

\* A response on the wire is framed by the transport, whatever fields of one
\* line the application sets, in whatever spelling and order, before and after
\* exceptions.  Of fields with a line break in them it says nothing.
FramingIsTransports ==
  \A c \in Conns :
    (stage[c] = "writing" /\ OneLineFields(response[c])) =>
      Framed(wire[c].block, close[c], response[c].status, given[c].len)

\* serialize(), with which the tests read a response, and the transport, which
\* selects the body itself, put the same bytes on the wire (except for the
\* body of a 204 or 304 response, which only serialize() leaves out).
TestsSeeTheWire ==
  \A c \in Conns :
    (stage[c] = "writing" /\ ~Bodiless(response[c].status)) =>
      wire[c] = Serialize(response[c], close[c], head[c])

-----------------------------------------------------------------------------
(* What the documentation says, and the code does not do.                  *)

\* README.md:78 and tests/http_parser.cpp:50-51 say this of every field:
\* "User-provided response headers cannot inject CR/LF or override framing."
HeadersCannotInject ==
  \A c \in Conns : stage[c] = "writing" =>
    Framed(wire[c].block, close[c], response[c].status, given[c].len)
=============================================================================
