---------------------------- MODULE TcpConnection ---------------------------
(***************************************************************************)
(* One keep-alive connection (include/transport/TcpConnection.h): the      *)
(* callbacks its event loop runs, the kernel that completes its reads and  *)
(* writes, and the client at the other end.                                *)
(*                                                                         *)
(* A callback is one action: the loop runs it to its end.  Between the     *)
(* moment the kernel completes an operation (result) and the moment the    *)
(* loop runs its callback, other work of the same loop may run, stop() in  *)
(* particular.                                                             *)
(*                                                                         *)
(* The client sends a stream of requests, chosen at the start, in          *)
(* fragments of any size; the application answers each request it is given *)
(* with any of Replies.  What a request or a response says is left out     *)
(* except for what the transport acts on.                                  *)
(***************************************************************************)
EXTENDS HttpLimits, RollingBuffer, Sequences

CONSTANTS
  Streams,   \* the request streams a client may send
  Replies    \* what the application may do with a request

\* A request: the length of its header block and the body length it declares,
\* whether the connection persists after it, whether it is a HEAD request, and
\* the status parse_headers refuses it with for a reason other than a limit
\* (0 for a well-formed request).
Requests ==
  [hdr : Nat, body : Nat, keep : BOOLEAN, head : BOOLEAN, verdict : Nat]

\* A stream is its requests and the offset at which each of them starts, with
\* the length of the stream as the last offset.
StreamShape(s) ==
  /\ s.reqs \in Seq(Requests)
  /\ s.start \in Seq(Nat)
  /\ Len(s.start) = Len(s.reqs) + 1
  /\ s.start[1] = 0
  /\ \A i \in 1 .. Len(s.reqs) :
       /\ s.reqs[i].hdr >= 4
       /\ s.start[i + 1] = s.start[i] + s.reqs[i].hdr + s.reqs[i].body
       /\ \A j \in i + 1 .. Len(s.start) : s.start[i + 1] <= s.start[j]

\* The application replies with a status and a body length, throws, or has no
\* route for the request.
ReplyShape(r) ==
  /\ r.kind \in {"reply", "throw", "missing"}
  /\ r.status \in Int
  /\ r.body \in Nat

ASSUME StreamAssumption == \A s \in Streams : StreamShape(s)
ASSUME ReplyAssumption  == \A r \in Replies : ReplyShape(r)

VARIABLES
  buf,              \* buffer_, read_pos_ and write_pos_
  phase,            \* phase_
  draining,         \* draining_
  closeAfterWrite,  \* close_after_write_
  requests,         \* requests_
  headerSize,       \* header_size_
  request,          \* request_: which request it is, and where its views point
  reads, writes,    \* asynchronous reads and writes started and not completed
  target,           \* the memory the last started read fills
  result,           \* the completed operation whose callback has not yet run
  closes,           \* how often on_close_ was called
  crashed,          \* an exception has left a callback: the process is gone
  stream,           \* the client's stream
  received,         \* how many bytes of it the kernel has stored
  responses         \* history: the responses handed to async_write, in order

conn == <<buf, phase, draining, closeAfterWrite, requests, headerSize, request>>
asio == <<reads, writes, target, result>>
vars == <<conn, asio, closes, crashed, stream, received, responses>>

-----------------------------------------------------------------------------
(* The client's stream as the parser sees it.                              *)

StreamLength == stream.start[Len(stream.start)]

\* The offsets of the last byte of every header block.
HeaderEnds ==
  {stream.start[i] + stream.reqs[i].hdr - 1 : i \in 1 .. Len(stream.reqs)}

\* The lengths at which a header block ends inside the unconsumed bytes.
EndLengths(b) ==
  {k \in 1 .. Unconsumed(b) : ByteAt(b, k - 1) \in HeaderEnds}

\* end + 4: the length up to the first blank line.
FoundHeader(b) ==
  CHOOSE k \in EndLengths(b) : \A j \in EndLengths(b) : k <= j

\* The request whose header block ends with byte x.
HeaderOf(x) ==
  CHOOSE i \in 1 .. Len(stream.reqs) :
    stream.start[i] + stream.reqs[i].hdr - 1 = x

\* The status parse_headers throws, 0 when it accepts.  Of the other reasons
\* only Expect is looked at after the body limit.
ParseStatus(i, h) ==
  IF h > MaxHeaderBytes THEN 431
  ELSE IF stream.reqs[i].verdict \notin {0, 417} THEN stream.reqs[i].verdict
  ELSE IF stream.reqs[i].body > MaxBodyBytes THEN 413
  ELSE stream.reqs[i].verdict

\* request_: path, headers and query are views that start at base in the
\* storage gen.  An empty request has no views.
NoRequest == [idx |-> 0, gen |-> 0, base |-> 0]

Parsed(b, h) ==
  [idx |-> HeaderOf(ByteAt(b, h - 1)), gen |-> b.gen, base |-> b.read]

ContentLength(r) == IF r.idx = 0 THEN 0 ELSE stream.reqs[r.idx].body

\* The views of r still show, in buffer b, the header block they were made from.
ViewsIntact(b, r) ==
  /\ r.gen = b.gen
  /\ \A k \in 0 .. stream.reqs[r.idx].hdr - 1 :
       b.cells[r.base + k] = stream.start[r.idx] + k

-----------------------------------------------------------------------------
(* Responses.                                                              *)

TextLength == 1   \* the length of the fixed texts the framework answers with

\* RequestDispatcher::dispatch.
Dispatched(reply) ==
  CASE reply.kind = "reply"   -> [status |-> reply.status, body |-> reply.body]
    [] reply.kind = "throw"   -> [status |-> 500, body |-> TextLength]
    [] reply.kind = "missing" -> [status |-> 404, body |-> TextLength]

Serializable(status) == status \in 200 .. 599

Bodiless(status) == status \in {204, 304}

\* The Content-Length field serialize_headers writes, -1 when it writes none.
Declared(res) == IF Bodiless(res.status) THEN -1 ELSE res.body

\* Mutant: the body of a response to HEAD is sent.
PayloadOfAny(q, res) == res.body

\* body_payload_.size() for a response to request q.
PayloadSize(q, res) == IF q.head THEN 0 ELSE res.body

\* What a client makes of a response: the header block, whether it was the
\* answer to a HEAD request, and the body bytes that follow on the wire.
Served(b, h, r, reply, close) ==
  LET q   == stream.reqs[r.idx]
      res == Dispatched(reply)
  IN [req |-> r.idx, first |-> ByteAt(b, 0), last |-> ByteAt(b, h + q.body - 1),
      intact |-> ViewsIntact(b, r), head |-> q.head, status |-> res.status, declared |-> Declared(res),
      sent |-> PayloadSize(q, res), close |-> close]

\* The unconsumed bytes start with a HEAD request.
HeadAtFront(b) ==
  \E i \in 1 .. Len(stream.reqs) :
    stream.start[i] = ByteAt(b, 0) /\ stream.reqs[i].head

\* The response of fail(), which sends its text whatever the method was.
Refusal(b, status) ==
  [req |-> 0, first |-> 0, last |-> 0, intact |-> TRUE, head |-> HeadAtFront(b),
   status |-> status, declared |-> TextLength, sent |-> TextLength, close |-> TRUE]

-----------------------------------------------------------------------------
(* Pieces of the callbacks.                                                *)

NoResult == [kind |-> "none", bytes |-> 0, failed |-> FALSE]

\* read_more(): make room, then start a read into all of the free space.
ReadMore(b) ==
  /\ buf' = MakeRoom(b)
  /\ reads' = reads + 1
  /\ target' = [gen |-> MakeRoom(b).gen, at |-> MakeRoom(b).write,
                len |-> MakeRoom(b).size - MakeRoom(b).write]
  /\ UNCHANGED <<writes, requests, closeAfterWrite, responses, crashed>>

\* Mutant: the phase is left as it was.
WriteInBodyPhase(response) ==
  /\ phase' = "body"
  /\ writes' = writes + 1
  /\ responses' = Append(responses, response)
  /\ UNCHANGED <<reads, target, crashed>>

\* write(): hand the response to async_write.
Write(response) ==
  /\ phase' = "writing"
  /\ writes' = writes + 1
  /\ responses' = Append(responses, response)
  /\ UNCHANGED <<reads, target, crashed>>

\* Mutant: close_after_write_ is not set.
FailStaysOpen(b, status) ==
  /\ buf' = b
  /\ Write(Refusal(b, status))
  /\ UNCHANGED <<requests, closeAfterWrite>>

\* fail(status): a fixed response, after which the connection closes.
Fail(b, status) ==
  /\ buf' = b
  /\ closeAfterWrite' = TRUE
  /\ Write(Refusal(b, status))
  /\ UNCHANGED requests

\* requests_ counts a request only when nothing before it in the condition
\* already decides that the connection closes.
Counted(q) == ~draining /\ q.keep

\* Mutant: one request too many.
BudgetOverspent(n) == n > MaxRequestsPerConnection

BudgetSpent(n) == n >= MaxRequestsPerConnection

\* The part of process_input() that serves a complete request.  A status
\* outside 200..599 makes serialize_headers throw, and nothing between there
\* and the thread's entry point catches it.
Serve(b, h, r) ==
  LET q     == stream.reqs[r.idx]
      n     == IF Counted(q) THEN requests + 1 ELSE requests
      close == ~Counted(q) \/ BudgetSpent(n)
  IN /\ requests' = n
     /\ closeAfterWrite' = close
     /\ buf' = Consume(b, SizeSum(h, q.body))
     /\ \E reply \in Replies :
          \/ /\ Serializable(Dispatched(reply).status)
             /\ Write(Served(b, h, r, reply, close))
          \/ /\ ~Serializable(Dispatched(reply).status)
             /\ crashed' = TRUE
             /\ phase' = "body"
             /\ UNCHANGED <<reads, writes, target, responses>>

\* process_input() from the body phase on: wait for the rest of the request
\* or serve it.
AwaitBody(b, h, r) ==
  /\ headerSize' = h
  /\ request' = r
  /\ \/ /\ Unconsumed(b) < SizeSum(h, ContentLength(r))
        /\ phase' = "body"
        /\ ReadMore(b)
     \/ /\ Unconsumed(b) >= SizeSum(h, ContentLength(r))
        /\ Serve(b, h, r)

\* process_input() on buffer b in phase p with header size h and request r.
ProcessInput(b, p, h, r) ==
  \/ /\ p = "headers"
     /\ EndLengths(b) = {}
     /\ headerSize' = h
     /\ request' = r
     /\ \/ /\ Unconsumed(b) >= MaxHeaderBytes
           /\ Fail(b, 431)
        \/ /\ Unconsumed(b) < MaxHeaderBytes
           /\ phase' = "headers"
           /\ ReadMore(b)
  \/ /\ p = "headers"
     /\ EndLengths(b) # {}
     /\ LET end    == FoundHeader(b)
            status == ParseStatus(HeaderOf(ByteAt(b, end - 1)), end)
        IN \/ /\ status # 0
              /\ headerSize' = end
              /\ request' = r
              /\ Fail(b, status)
           \/ /\ status = 0
              /\ AwaitBody(b, end, Parsed(b, end))
  \/ /\ p = "body"
     /\ AwaitBody(b, h, r)

\* Mutant: a second close() is not told from the first.
CloseAgain ==
  /\ phase' = "closed"
  /\ closes' = closes + 1

\* close(): the socket goes away and the server is told, once.
Close ==
  /\ phase # "closed"
  /\ phase' = "closed"
  /\ closes' = closes + 1

-----------------------------------------------------------------------------
(* The callbacks.  Each consumes the completed operation it was queued for. *)

Callback(kind) ==
  /\ ~crashed
  /\ result.kind = kind
  /\ result' = NoResult
  /\ UNCHANGED <<draining, stream, received>>

\* Mutant: only the read callback looks for a closed connection.
OnClosedRead ==
  /\ Callback("read")
  /\ phase = "closed"
  /\ UNCHANGED <<buf, phase, closeAfterWrite, requests, headerSize, request,
                 reads, writes, target, closes, crashed, responses>>

\* A callback that finds the connection closed returns at once.
OnClosed ==
  /\ \E kind \in {"read", "write"} : Callback(kind)
  /\ phase = "closed"
  /\ UNCHANGED <<buf, phase, closeAfterWrite, requests, headerSize, request,
                 reads, writes, target, closes, crashed, responses>>

\* The read failed or the client is gone.
OnReadFailed ==
  /\ Callback("read")
  /\ result.failed
  /\ Close
  /\ UNCHANGED <<buf, closeAfterWrite, requests, headerSize, request,
                 reads, writes, target, crashed, responses>>

\* Mutant: bytes that arrive on a closed connection are added to the buffer.
OnReadUnchecked ==
  /\ Callback("read")
  /\ ~result.failed
  /\ LET b == [buf EXCEPT !.write = buf.write + result.bytes]
     IN \/ ProcessInput(b, phase, headerSize, request)
        \/ /\ phase = "closed"
           /\ buf' = b
           /\ UNCHANGED <<phase, closeAfterWrite, requests, headerSize, request,
                          reads, writes, target, crashed, responses>>
  /\ UNCHANGED closes

\* Bytes arrived.
OnRead ==
  /\ Callback("read")
  /\ ~result.failed
  /\ phase # "closed"
  /\ ProcessInput([buf EXCEPT !.write = buf.write + result.bytes],
                  phase, headerSize, request)
  /\ UNCHANGED closes

\* Mutant: a drain that began during the write is not noticed.
EndsAsAnnounced == result.failed \/ closeAfterWrite

\* A write callback ends the connection.
Ends == result.failed \/ closeAfterWrite \/ draining

\* The response is out, or the client is gone, and the connection is over.
OnLastWrite ==
  /\ Callback("write")
  /\ Ends
  /\ Close
  /\ UNCHANGED <<buf, closeAfterWrite, requests, headerSize, request,
                 reads, writes, target, crashed, responses>>

\* Mutant: leftovers are looked for at the front of the buffer only.
LeftoverAtFront(b) == b.read = 0 /\ b.write > 0

Leftover(b) == b.write > b.read

\* The response is out and the connection persists: a pipelined request may
\* already be in the buffer.
OnWrite ==
  /\ Callback("write")
  /\ ~Ends
  /\ phase # "closed"
  /\ \/ /\ Leftover(buf)
        /\ ProcessInput(buf, "headers", 0, NoRequest)
     \/ /\ ~Leftover(buf)
        /\ phase' = "headers"
        /\ headerSize' = 0
        /\ request' = NoRequest
        /\ ReadMore(buf)
  /\ UNCHANGED closes

\* stop(force), which the server calls on a connection it still holds.
Stop(force) ==
  /\ ~crashed
  /\ closes = 0
  /\ draining' = TRUE
  /\ \/ /\ force \/ phase = "headers"
        /\ Close
     \/ /\ ~force /\ phase # "headers"
        /\ UNCHANGED <<phase, closes>>
  /\ UNCHANGED <<buf, closeAfterWrite, requests, headerSize, request, asio,
                 crashed, stream, received, responses>>

-----------------------------------------------------------------------------
(* The kernel and the client.                                              *)

Completes(kind, bytes, failed) ==
  /\ ~crashed
  /\ result.kind = "none"
  /\ result' = [kind |-> kind, bytes |-> bytes, failed |-> failed]

\* Some of the bytes the client has sent are stored where the read points, if
\* that is still the connection's storage.
Receive(n) ==
  /\ phase # "closed" /\ reads > 0
  /\ n <= target.len /\ n <= StreamLength - received
  /\ Completes("read", n, FALSE)
  /\ reads' = reads - 1
  /\ received' = received + n
  /\ buf' = IF target.gen = buf.gen THEN Store(buf, target.at, n, received) ELSE buf
  /\ UNCHANGED <<phase, draining, closeAfterWrite, requests, headerSize, request,
                 writes, target, closes, crashed, stream, responses>>

ReceiveSome == \E n \in 1 .. target.len : Receive(n)

\* The client closes or resets, or the socket was closed under the read.
ReadFails ==
  /\ reads > 0
  /\ Completes("read", 0, TRUE)
  /\ reads' = reads - 1
  /\ UNCHANGED <<conn, writes, target, closes, crashed, stream, received, responses>>

\* The whole response has been sent.
Sent ==
  /\ phase # "closed" /\ writes > 0
  /\ Completes("write", 0, FALSE)
  /\ writes' = writes - 1
  /\ UNCHANGED <<conn, reads, target, closes, crashed, stream, received, responses>>

WriteFails ==
  /\ writes > 0
  /\ Completes("write", 0, TRUE)
  /\ writes' = writes - 1
  /\ UNCHANGED <<conn, reads, target, closes, crashed, stream, received, responses>>

\* A closed socket cancels what is still outstanding.
Cancel == phase = "closed" /\ (ReadFails \/ WriteFails)

-----------------------------------------------------------------------------
\* The server has just accepted the connection, constructed it and called
\* start(), which found the buffer empty and started the first read.
Init ==
  /\ buf = NewBuffer
  /\ phase = "headers"
  /\ draining = FALSE /\ closeAfterWrite = FALSE
  /\ requests = 0 /\ headerSize = 0 /\ request = NoRequest
  /\ reads = 1 /\ writes = 0
  /\ target = [gen |-> 0, at |-> 0, len |-> BufferSize]
  /\ result = NoResult
  /\ closes = 0 /\ crashed = FALSE
  /\ stream \in Streams /\ received = 0
  /\ responses = <<>>

Callbacks == OnClosed \/ OnReadFailed \/ OnRead \/ OnLastWrite \/ OnWrite

Next ==
  \/ Callbacks
  \/ \E force \in BOOLEAN : Stop(force)
  \/ ReceiveSome \/ ReadFails \/ Sent \/ WriteFails

\* The event loop runs every callback it has queued, and the kernel completes
\* every operation on a closed socket.
LoopFairness == WF_vars(Callbacks) /\ WF_vars(Cancel)

\* A client that sends all of its stream and reads every response.
ClientFairness == WF_vars(ReceiveSome) /\ WF_vars(Sent)

Spec       == Init /\ [][Next]_vars
FairSpec   == Spec /\ LoopFairness
ClientSpec == FairSpec /\ ClientFairness

-----------------------------------------------------------------------------
(* Properties.                                                             *)

Phases == {"headers", "body", "writing", "closed"}

Responses ==
  [req : Nat, first : Int, last : Int, intact : BOOLEAN, head : BOOLEAN,
   status : Int, declared : Int, sent : Nat, close : BOOLEAN]

\* Types: every variable of a connection stays inside the type its C++
\* declaration gives it, and the indices stay inside the buffer.
TypeOK ==
  /\ IsBuffer(buf)
  /\ phase \in Phases
  /\ draining \in BOOLEAN /\ closeAfterWrite \in BOOLEAN
  /\ requests \in Nat /\ headerSize \in Nat
  /\ request \in [idx : 0 .. Len(stream.reqs), gen : Nat, base : Nat]
  /\ reads \in Nat /\ writes \in Nat
  /\ target \in [gen : Nat, at : Nat, len : Nat]
  /\ result \in [kind : {"none", "read", "write"}, bytes : Nat, failed : BOOLEAN]
  /\ closes \in Nat /\ crashed \in BOOLEAN
  /\ stream \in Streams /\ received \in Nat
  /\ responses \in Seq(Responses)

\* Operations in flight, counting the one whose callback is queued.
Reading == reads + (IF result.kind = "read" THEN 1 ELSE 0)
Writing == writes + (IF result.kind = "write" THEN 1 ELSE 0)

\* A connection that is not closed waits for exactly one operation, a write
\* in the writing phase and a read otherwise: it is never stuck without a
\* callback to come, never reads into the buffer while it processes it, and
\* never starts a second write while the payload of the first is in use.  A
\* closed one has at most the operation it was closed under.
OneOperation ==
  \/ crashed
  \/ /\ phase \in {"headers", "body"} => Reading = 1 /\ Writing = 0
     /\ phase = "writing" => Reading = 0 /\ Writing = 1
     /\ phase = "closed" => Reading + Writing <= 1

\* A read that is in flight on an open connection fills exactly the free space
\* behind the write index of the storage the buffer has now, and that space is
\* not empty (a read of nothing completes at once, forever).
ReadTargetsFreeSpace ==
  (reads > 0 /\ phase # "closed") =>
    /\ target = [gen |-> buf.gen, at |-> buf.write, len |-> buf.size - buf.write]
    /\ target.len > 0

\* Bytes the kernel has stored and the queued read callback will add.
Arrived == IF result.kind = "read" THEN result.bytes ELSE 0

\* Through compaction, growth and consumption, the bytes between the read
\* index and the write index of an open connection (with those a queued
\* callback will add) are consecutive bytes of the client's stream and end at
\* the last one received.
WindowIsStream ==
  phase # "closed" => \A k \in 0 .. Unconsumed(buf) + Arrived - 1 :
    ByteAt(buf, k) = received - (Unconsumed(buf) + Arrived) + k

\* Responses are in the order of the requests, one for each, and each was
\* computed from exactly the bytes of its request.
ServedInOrder ==
  \A i \in 1 .. Len(responses) :
    responses[i].req # 0 =>
      /\ responses[i].req = i
      /\ responses[i].first = stream.start[i]
      /\ responses[i].last = stream.start[i + 1] - 1

\* Nothing is sent after a response that announces that the connection closes,
\* and the connection then does as announced.
LastIsLast ==
  \A i \in 1 .. Len(responses) :
    responses[i].close =>
      /\ i = Len(responses)
      /\ phase \in {"writing", "closed"}
      /\ phase = "writing" => closeAfterWrite

\* A connection answers at most max_requests_per_connection requests, the one
\* it refuses included, and a connection that still reads has budget left.
RequestBudget ==
  /\ Len(responses) <= MaxRequestsPerConnection
  /\ (phase \in {"headers", "body"} /\ ~crashed) => requests < MaxRequestsPerConnection

\* The buffer of a connection stays below twice what the limits let one
\* request occupy, or at its initial size, however many requests are pipelined.
BufferBound ==
  \/ buf.size = BufferSize
  \/ buf.size < 2 * (MaxHeaderBytes + MaxBodyBytes)

\* on_close_ runs exactly when the connection closes and never again, so that
\* the server forgets a connection once.
ClosesOnce == closes = (IF phase = "closed" THEN 1 ELSE 0)

\* A request that fits into the initial buffer, and whose header block was found
\* at the start of it, keeps valid views until it is served, however its body
\* arrives and whatever the buffer went through before.
ViewsIntactAtOrigin ==
  (/\ phase = "body" /\ request.base = 0
   /\ SizeSum(headerSize, ContentLength(request)) <= BufferSize)
    => ViewsIntact(buf, request)

\* The body a client expects after a header block: none for HEAD, 204 and 304.
Expected(res) ==
  IF res.head \/ Bodiless(res.status) THEN 0 ELSE res.declared

\* A client that frames responses by their header blocks finds the next
\* response where it looks for it: only the last response of a connection,
\* one that announces the close, may carry another body than expected.  The
\* refusal of a HEAD request does (TcpConnection.h:189), against README.md:78.
NextResponseIsFound ==
  \A i \in 1 .. Len(responses) :
    responses[i].sent # Expected(responses[i]) =>
      i = Len(responses) /\ responses[i].close

\* A closed connection stays closed and sends nothing more.
ClosedIsFinal ==
  [][phase = "closed" => phase' = "closed" /\ UNCHANGED <<responses, buf>>]_vars

\* A client that sends its whole stream and reads its responses gets every
\* request answered, unless the connection closes.  A process that an
\* exception has ended is exempt, although README.md:78 promises a 500 and a
\* close there: the exemption is what the code does (TcpConnection.h:137).
EveryRequestAnswered ==
  <>(phase = "closed" \/ crashed \/ Len(responses) >= Len(stream.reqs))

\* The connection implements ConnectionLifecycle.
Lifecycle ==
  INSTANCE ConnectionLifecycle WITH
    op    <- IF result.kind # "none" THEN "ready"
             ELSE IF reads + writes > 0 THEN "pending" ELSE "none",
    known <- closes = 0,
    dead  <- crashed

\* Every behaviour of a connection is one of its lifecycle, fairness included.
ImplementsLifecycle     == Lifecycle!Spec
ImplementsFairLifecycle == Lifecycle!FairSpec

-----------------------------------------------------------------------------
(* What the documentation says, and the code does not do.                  *)

\* README.md:78: input storage "stays owned until completion" and accessors
\* return views that are valid for the lifetime of the request.
ViewsValidWhenServed == \A i \in 1 .. Len(responses) : responses[i].intact
=============================================================================
