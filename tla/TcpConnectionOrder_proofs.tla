---------------------- MODULE TcpConnectionOrder_proofs ---------------------
(***************************************************************************)
(* Requests and responses: every request is served from exactly its own    *)
(* bytes, in order, within the budget, and nothing follows a response that *)
(* announces the end.  The argument: while a connection may still serve,   *)
(* its unconsumed bytes start where the next unanswered request starts.    *)
(* From it follow when the views of a request stay valid and when a client *)
(* can tell where a response ends.                                         *)
(***************************************************************************)
EXTENDS TcpConnection_proofs

Answered == Len(responses)

\* A connection that may still serve a request.
Continuing ==
  phase # "closed" /\ ~crashed /\ ~(phase = "writing" /\ closeAfterWrite)

History ==
  /\ responses \in Seq(Responses)
  /\ requests \in Nat /\ closeAfterWrite \in BOOLEAN
  /\ ServedInOrder /\ LastIsLast
  /\ Answered <= MaxRequestsPerConnection

\* The next request is request n + 1 of the stream, and the unconsumed bytes
\* of b, which end at the last byte received, start with its first byte.
AtRequest(b, n) ==
  /\ n <= Len(stream.reqs)
  /\ received - Unconsumed(b) = stream.start[n + 1]

Position ==
  /\ requests = Answered /\ Answered < MaxRequestsPerConnection
  /\ Answered <= Len(stream.reqs)
  /\ (received - Arrived) - Unconsumed(buf) = stream.start[Answered + 1]
  /\ phase = "body" =>
       request.idx = Answered + 1 /\ headerSize = stream.reqs[Answered + 1].hdr

Order == Data /\ History /\ (Continuing => Position)

\* What a callback knows when it calls process_input() on buffer b.
Ready(b) ==
  /\ Input(b, received) /\ received \in Nat
  /\ stream \in Streams /\ UNCHANGED <<stream, received>>
  /\ History /\ ~crashed
  /\ \A i \in 1 .. Answered : ~responses[i].close
  /\ requests = Answered /\ Answered < MaxRequestsPerConnection
  /\ AtRequest(b, Answered)

\* and what it leaves behind.
Left ==
  /\ History'
  /\ Continuing' =>
       /\ requests' = Answered' /\ Answered' < MaxRequestsPerConnection
       /\ AtRequest(buf, Answered)'
       /\ phase' = "body" => /\ request'.idx = Answered' + 1
                             /\ headerSize' = stream'.reqs[Answered' + 1].hdr

-----------------------------------------------------------------------------
\* The first blank line of the unconsumed bytes ends the header block of the
\* next request: an earlier block ends before these bytes, and a later one
\* after the next request's.
LEMMA FoundIsNext ==
  ASSUME NEW b, NEW n \in Nat, Input(b, received), received \in Nat, stream \in Streams,
         AtRequest(b, n), EndLengths(b) # {}
  PROVE  /\ n + 1 \in 1 .. Len(stream.reqs)
         /\ HeaderOf(ByteAt(b, FoundHeader(b) - 1)) = n + 1
         /\ FoundHeader(b) = stream.reqs[n + 1].hdr
<1> DEFINE end == FoundHeader(b)
           x   == ByteAt(b, end - 1)
           i   == HeaderOf(x)
           st  == stream.start
           rq  == stream.reqs
<1>1. /\ end \in 1 .. Unconsumed(b) /\ x \in HeaderEnds
      /\ \A k \in 1 .. Unconsumed(b) : ByteAt(b, k - 1) \in HeaderEnds => end <= k
  BY FoundHeaderIsFirst DEF EndLengths
<1>2. i \in 1 .. Len(rq) /\ st[i] + rq[i].hdr - 1 = x
  BY <1>1, HeaderOfFound
<1>3. Unconsumed(b) \in Nat
  BY DEF Input, IsBuffer, Unconsumed
<1>4. \A k \in 1 .. Unconsumed(b) : ByteAt(b, k - 1) = st[n + 1] + k - 1
  <2> SUFFICES ASSUME NEW k \in 1 .. Unconsumed(b)
               PROVE  ByteAt(b, k - 1) = st[n + 1] + k - 1
    OBVIOUS
  <2>1. k \in Int /\ k - 1 \in 0 .. Unconsumed(b) - 1
    BY <1>3
  <2>2. ByteAt(b, k - 1) = received - Unconsumed(b) + (k - 1)
    BY <2>1 DEF Input, Window
  <2>3. QED BY <1>3, <2>1, <2>2 DEF AtRequest
<1>5. x = st[n + 1] + end - 1
  BY <1>1, <1>4
<1>6. /\ Len(rq) \in Nat /\ Len(st) = Len(rq) + 1
      /\ \A k \in 1 .. Len(rq) :
           /\ rq[k].hdr \in Nat /\ rq[k].hdr >= 4 /\ rq[k].body \in Nat
           /\ st[k + 1] = st[k] + rq[k].hdr + rq[k].body
           /\ \A j \in k + 1 .. Len(rq) + 1 : st[k + 1] <= st[j]
      /\ \A k \in 1 .. Len(rq) + 1 : st[k] \in Nat
  BY StreamFacts
<1>7. n <= Len(rq)
  BY DEF AtRequest
<1> HIDE DEF end, x, i, st, rq
<1>8. i \in Nat /\ i >= 1 /\ i <= Len(rq) /\ Len(rq) \in Nat
  BY <1>2, <1>6
<1>9. end \in Nat /\ end >= 1 /\ end <= Unconsumed(b)
  BY <1>1, <1>3
<1>10. st[i] + rq[i].hdr = st[n + 1] + end
  <2>1. st[i] \in Nat /\ rq[i].hdr \in Nat /\ st[n + 1] \in Nat
    BY <1>2, <1>6, <1>7, <1>8
  <2>2. st[i] + rq[i].hdr - 1 = st[n + 1] + end - 1
    BY <1>2, <1>5
  <2>3. QED BY <1>9, <2>1, <2>2
<1>11. i >= n + 1
  <2> SUFFICES ASSUME i <= n PROVE FALSE
    BY <1>8
  <2>1. n + 1 \in i + 1 .. Len(rq) + 1
    BY <1>7, <1>8
  <2>2. st[i + 1] <= st[n + 1] /\ st[i + 1] = st[i] + rq[i].hdr + rq[i].body
    BY <1>2, <1>6, <2>1
  <2>3. /\ st[i] \in Nat /\ st[n + 1] \in Nat
        /\ rq[i].hdr \in Nat /\ rq[i].body \in Nat
    BY <1>2, <1>6, <1>7, <1>8
  <2>4. QED BY <1>9, <1>10, <2>2, <2>3
<1>12. n + 1 \in 1 .. Len(rq)
  BY <1>8, <1>11
<1>13. i <= n + 1
  <2> SUFFICES ASSUME i > n + 1 PROVE FALSE
    BY <1>8
  <2> DEFINE k == rq[n + 1].hdr
  <2>1. i \in (n + 1) + 1 .. Len(rq) + 1
    BY <1>8
  <2>2. st[(n + 1) + 1] <= st[i] /\ st[(n + 1) + 1] = st[n + 1] + k + rq[n + 1].body
    BY <1>6, <1>12, <2>1
  <2>3. /\ st[i] \in Nat /\ st[n + 1] \in Nat
        /\ rq[i].hdr \in Nat /\ rq[i].hdr >= 4 /\ rq[n + 1].body \in Nat
        /\ k \in Nat /\ k >= 4
    BY <1>2, <1>6, <1>7, <1>12
  <2> HIDE DEF k
  <2>4. k < end
    BY <1>9, <1>10, <2>2, <2>3
  <2>5. k \in 1 .. Unconsumed(b)
    BY <1>3, <1>9, <2>3, <2>4
  <2>6. ByteAt(b, k - 1) = st[n + 1] + k - 1
    BY <1>4, <2>5
  <2>7. st[n + 1] + k - 1 \in HeaderEnds
    BY <1>12 DEF HeaderEnds, st, rq, k
  <2>8. end <= k
    BY <1>1, <2>5, <2>6, <2>7
  <2>9. QED BY <1>9, <2>3, <2>4, <2>8
<1>14. i = n + 1
  BY <1>8, <1>11, <1>13
<1>15. end = rq[n + 1].hdr
  <2>1. /\ st[n + 1] \in Nat /\ rq[n + 1].hdr \in Nat /\ end \in Nat
    BY <1>1, <1>3, <1>6, <1>12
  <2>2. QED BY <1>10, <1>14, <2>1
<1>16. QED BY <1>12, <1>14, <1>15 DEF end, x, i, st, rq

-----------------------------------------------------------------------------
(* What is appended to the history.                                        *)

LEMMA RefusalType ==
  ASSUME NEW b, NEW status \in Nat
  PROVE  Refusal(b, status) \in Responses
<1>1. HeadAtFront(b) \in BOOLEAN
  BY Zenon DEF HeadAtFront
<1>2. ASSUME NEW v \in BOOLEAN
      PROVE  [req |-> 0, first |-> 0, last |-> 0, intact |-> TRUE, head |-> v,
              status |-> status, declared |-> TextLength, sent |-> TextLength,
              close |-> TRUE] \in Responses
  BY DEF Responses, TextLength
<1>3. QED BY <1>1, <1>2, Zenon DEF Refusal

\* Every reply of the application becomes a status and a body length.
LEMMA DispatchedType ==
  ASSUME NEW reply \in Replies
  PROVE  Dispatched(reply).status \in Int /\ Dispatched(reply).body \in Nat
<1>1. ReplyShape(reply)
  BY ReplyAssumption
<1>2. CASE reply.kind = "reply"
  BY <1>1, <1>2 DEF ReplyShape, Dispatched
<1>3. CASE reply.kind = "throw"
  BY <1>3 DEF Dispatched, TextLength
<1>4. CASE reply.kind = "missing"
  BY <1>4 DEF Dispatched, TextLength
<1>5. QED BY <1>1, <1>2, <1>3, <1>4 DEF ReplyShape

\* A response that is neither a repeat nor out of order extends the history.
LEMMA AppendKeepsHistory ==
  ASSUME History, \A i \in 1 .. Answered : ~responses[i].close,
         Answered < MaxRequestsPerConnection,
         NEW res \in Responses, responses' = Append(responses, res), stream' = stream,
         requests' \in Nat, closeAfterWrite' \in BOOLEAN, phase' = "writing",
         res.close => closeAfterWrite',
         res.req # 0 => /\ res.req = Answered + 1
                        /\ res.first = stream.start[Answered + 1]
                        /\ res.last = stream.start[Answered + 2] - 1
  PROVE  History' /\ Answered' = Answered + 1
<1>1. /\ responses' \in Seq(Responses) /\ Len(responses) \in Nat
      /\ Len(responses') = Len(responses) + 1
      /\ responses'[Len(responses) + 1] = res
      /\ \A i \in 1 .. Len(responses) : responses'[i] = responses[i]
  BY DEF History
<1>2. Answered' = Answered + 1 /\ Answered \in Nat /\ Answered = Len(responses)
  BY <1>1 DEF Answered
<1>3. \A i \in 1 .. Len(responses') : i \in 1 .. Len(responses) \/ i = Len(responses) + 1
  BY <1>1
<1>4. ServedInOrder'
  <2> SUFFICES ASSUME NEW i \in 1 .. Len(responses'), responses'[i].req # 0
               PROVE  /\ responses'[i].req = i
                      /\ responses'[i].first = stream.start[i]
                      /\ responses'[i].last = stream.start[i + 1] - 1
    BY DEF ServedInOrder
  <2>1. CASE i \in 1 .. Len(responses)
    BY <1>1, <2>1 DEF History, ServedInOrder
  <2>2. CASE i = Len(responses) + 1
    <3>1. i = Answered + 1 /\ i + 1 = Answered + 2 /\ responses'[i] = res
      BY <1>1, <1>2, <2>2
    <3>2. QED BY <3>1
  <2>3. QED BY <1>3, <2>1, <2>2
<1>5. LastIsLast'
  <2> SUFFICES ASSUME NEW i \in 1 .. Len(responses'), responses'[i].close
               PROVE  i = Len(responses') /\ closeAfterWrite'
    BY DEF LastIsLast
  <2>1. ~(i \in 1 .. Len(responses))
    BY <1>1, <1>2
  <2>2. i = Len(responses')
    BY <1>1, <1>3, <2>1
  <2>3. QED BY <1>1, <2>2
<1>6. Answered' <= MaxRequestsPerConnection
  BY <1>2, LimitsAssumption DEF Validated
<1>7. QED BY <1>1, <1>2, <1>4, <1>5, <1>6 DEF History

-----------------------------------------------------------------------------
(* What process_input() leaves behind.                                     *)

LEMMA FailOrder ==
  ASSUME NEW b, NEW status \in Nat, Ready(b), Fail(b, status)
  PROVE  Left
<1>1. /\ responses' = Append(responses, Refusal(b, status))
      /\ phase' = "writing" /\ closeAfterWrite' = TRUE /\ requests' = requests
  BY DEF Fail, Write
<1>2. Refusal(b, status).req = 0 /\ Refusal(b, status) \in Responses
  BY RefusalType DEF Refusal
<1>3. History'
  BY <1>1, <1>2, AppendKeepsHistory DEF Ready, History
<1>4. ~Continuing'
  BY <1>1 DEF Continuing
<1>5. QED BY <1>3, <1>4 DEF Left

\* A request whose header block is the first h of the unconsumed bytes.
IsNext(r, h) ==
  /\ r.idx = Answered + 1 /\ h = stream.reqs[Answered + 1].hdr
  /\ BodyOK(r, h)

\* The response to the next request, and how many requests are now counted.
LEMMA ServedType ==
  ASSUME NEW b, NEW r, NEW h, Ready(b), IsNext(r, h),
         Unconsumed(b) >= h + stream.reqs[r.idx].body,
         NEW reply \in Replies, NEW close \in BOOLEAN
  PROVE  /\ Served(b, h, r, reply, close) \in Responses
         /\ Served(b, h, r, reply, close).close = close
         /\ Served(b, h, r, reply, close).req = Answered + 1
         /\ Served(b, h, r, reply, close).first = stream.start[Answered + 1]
         /\ Served(b, h, r, reply, close).last = stream.start[Answered + 2] - 1
<1> DEFINE q == stream.reqs[r.idx]
           s == Served(b, h, r, reply, close)
           d == Dispatched(reply)
<1>1. /\ r.idx = Answered + 1 /\ r.idx \in 1 .. Len(stream.reqs) /\ Len(stream.reqs) \in Nat
      /\ q \in Requests /\ q.hdr = h /\ h \in Nat /\ h >= 4 /\ q.body \in Nat
      /\ stream.start[r.idx + 1] = stream.start[r.idx] + h + q.body
      /\ stream.start[r.idx] \in Nat
  <2>1. r.idx = Answered + 1 /\ r.idx \in 1 .. Len(stream.reqs) /\ q.hdr = h
    BY DEF IsNext, BodyOK
  <2>2. stream \in Streams
    BY DEF Ready
  <2>3. r.idx \in 1 .. Len(stream.reqs) + 1
    BY <2>1, <2>2, StreamFacts
  <2> HIDE DEF q
  <2>4. /\ q \in Requests /\ q.hdr \in Nat /\ q.hdr >= 4 /\ q.body \in Nat
        /\ stream.start[r.idx + 1] = stream.start[r.idx] + q.hdr + q.body
        /\ stream.start[r.idx] \in Nat /\ Len(stream.reqs) \in Nat
    BY <2>1, <2>2, <2>3, StreamFacts DEF q
  <2>5. QED BY <2>1, <2>4
<1>2. /\ s.req = r.idx /\ s.first = ByteAt(b, 0) /\ s.last = ByteAt(b, h + q.body - 1)
      /\ s.close = close
  BY DEF Served
<1>3. Unconsumed(b) \in Nat /\ received \in Nat /\ Window(b, received)
  BY DEF Ready, Input, IsBuffer, Unconsumed
<1>4. received - Unconsumed(b) = stream.start[r.idx]
  BY <1>1 DEF Ready, AtRequest
<1>5. h + q.body <= Unconsumed(b)
  BY <1>1, <1>3
<1>6. d.status \in Int /\ d.body \in Nat
  BY DispatchedType
<1>7. q.head \in BOOLEAN
  BY <1>1 DEF Requests
<1> HIDE DEF q
<1>8. 0 \in 0 .. Unconsumed(b) - 1 /\ h + q.body - 1 \in 0 .. Unconsumed(b) - 1
  BY <1>1, <1>3, <1>5
<1>9. /\ ByteAt(b, 0) = received - Unconsumed(b) + 0
      /\ ByteAt(b, h + q.body - 1) = received - Unconsumed(b) + (h + q.body - 1)
  BY <1>3, <1>8 DEF Window
<1>10. /\ ByteAt(b, 0) = stream.start[r.idx]
       /\ ByteAt(b, h + q.body - 1) = stream.start[r.idx + 1] - 1
  BY <1>1, <1>3, <1>4, <1>9
<1>11. s.first \in Int /\ s.last \in Int
  BY <1>1, <1>2, <1>10
<1>12. s \in Responses
  <2> HIDE DEF d
  <2>1. /\ Declared(d) \in Int
        /\ PayloadSize(q, d) \in Nat
    BY <1>6, <1>7 DEF Declared, PayloadSize
  <2>2. ViewsIntact(b, r) \in BOOLEAN
    BY Zenon DEF ViewsIntact
  <2>3. s = [req |-> r.idx, first |-> s.first, last |-> s.last,
             intact |-> ViewsIntact(b, r), head |-> q.head,
             status |-> d.status, declared |-> Declared(d),
             sent |-> PayloadSize(q, d), close |-> close]
    BY <1>2, Zenon DEF Served, d, q
  <2> HIDE DEF s
  <2>4. r.idx \in Nat
    BY <1>1
  <2>5. \A v \in BOOLEAN :
          [req |-> r.idx, first |-> s.first, last |-> s.last, intact |-> v,
           head |-> q.head, status |-> d.status,
           declared |-> Declared(d), sent |-> PayloadSize(q, d), close |-> close]
          \in Responses
    BY <1>6, <1>7, <1>11, <2>1, <2>4 DEF Responses
  <2>6. QED BY <2>2, <2>3, <2>5, Zenon
<1>13. r.idx + 1 = Answered + 2
  BY <1>1 DEF Ready, History, Answered
<1>14. QED
  <2> HIDE DEF s
  <2>1. s \in Responses /\ s.close = close /\ s.req = Answered + 1
    BY <1>1, <1>2, <1>12
  <2>2. s.first = stream.start[Answered + 1] /\ s.last = stream.start[Answered + 2] - 1
    BY <1>1, <1>2, <1>10, <1>13
  <2>3. QED BY <2>1, <2>2 DEF s

\* Serving a request moves the connection to the next one, closes it, or ends
\* the process.
LEMMA ServeOrder ==
  ASSUME NEW b, NEW r, NEW h, Ready(b), IsNext(r, h),
         Unconsumed(b) >= h + stream.reqs[r.idx].body,
         SizeSum(h, stream.reqs[r.idx].body) = h + stream.reqs[r.idx].body,
         Serve(b, h, r)
  PROVE  Left
<1> DEFINE q     == stream.reqs[r.idx]
           n     == IF Counted(q) THEN requests + 1 ELSE requests
           close == ~Counted(q) \/ BudgetSpent(n)
<1>1. /\ requests' = n /\ closeAfterWrite' = close
      /\ buf' = Consume(b, h + q.body)
      /\ \E reply \in Replies :
           \/ Write(Served(b, h, r, reply, close))
           \/ crashed' = TRUE /\ phase' = "body" /\ responses' = responses
  BY Zenon DEF Serve
<1>2. close \in BOOLEAN
  BY DEF Counted, BudgetSpent
<1>3. /\ Answered \in Nat /\ requests = Answered /\ Answered < MaxRequestsPerConnection
      /\ MaxRequestsPerConnection \in Nat /\ History
  BY LimitsAssumption DEF Ready, History, Answered, Validated
<1>4. n \in Nat
  BY <1>3
<1>5. /\ r.idx = Answered + 1 /\ r.idx \in 1 .. Len(stream.reqs) /\ Len(stream.reqs) \in Nat
      /\ q.hdr = h /\ h \in Nat /\ q.body \in Nat
      /\ stream.start[r.idx + 1] = stream.start[r.idx] + h + q.body
      /\ stream.start[r.idx] \in Nat
  <2>1. r.idx = Answered + 1 /\ r.idx \in 1 .. Len(stream.reqs) /\ q.hdr = h
    BY DEF IsNext, BodyOK
  <2>2. stream \in Streams
    BY DEF Ready
  <2>3. r.idx \in 1 .. Len(stream.reqs) + 1
    BY <2>1, <2>2, StreamFacts
  <2> HIDE DEF q
  <2>4. /\ q.hdr \in Nat /\ q.body \in Nat
        /\ stream.start[r.idx + 1] = stream.start[r.idx] + q.hdr + q.body
        /\ stream.start[r.idx] \in Nat /\ Len(stream.reqs) \in Nat
    BY <2>1, <2>2, <2>3, StreamFacts DEF q
  <2>5. QED BY <2>1, <2>4
<1>6. UNCHANGED <<stream, received>>
  BY DEF Ready
<1>7. CASE crashed' = TRUE /\ phase' = "body" /\ responses' = responses
  <2>1. \A i \in 1 .. Answered : ~responses[i].close
    BY DEF Ready
  <2>2. LastIsLast'
    BY <1>7, <2>1 DEF LastIsLast, Answered
  <2>3. ServedInOrder'
    BY <1>3, <1>6, <1>7 DEF History, ServedInOrder
  <2> HIDE DEF close, n
  <2>4. History'
    BY <1>1, <1>2, <1>3, <1>4, <1>7, <2>2, <2>3 DEF History, Answered
  <2>5. ~Continuing'
    BY <1>7 DEF Continuing
  <2>6. QED BY <2>4, <2>5 DEF Left
<1>8. ASSUME NEW reply \in Replies, Write(Served(b, h, r, reply, close))
      PROVE  Left
  <2> DEFINE s == Served(b, h, r, reply, close)
  <2>1. /\ s \in Responses /\ s.close = close
        /\ s.req = Answered + 1 /\ s.first = stream.start[Answered + 1]
        /\ s.last = stream.start[Answered + 2] - 1
    <3> HIDE DEF close, n, q
    <3>1. QED BY <1>2, ServedType
  <2>2. responses' = Append(responses, s) /\ phase' = "writing" /\ crashed' = crashed
    BY <1>8 DEF Write
  <2> HIDE DEF s, close, n
  <2>3. History' /\ Answered' = Answered + 1
    <3>1. \A i \in 1 .. Answered : ~responses[i].close
      BY DEF Ready
    <3>2. requests' \in Nat /\ closeAfterWrite' \in BOOLEAN /\ stream' = stream
      BY <1>1, <1>2, <1>4, <1>6
    <3>3. s.close => closeAfterWrite'
      BY <1>1, <2>1
    <3>4. QED BY <1>3, <2>1, <2>2, <3>1, <3>2, <3>3, AppendKeepsHistory
  <2>4. ASSUME ~close
        PROVE  /\ requests' = Answered' /\ Answered' < MaxRequestsPerConnection
               /\ AtRequest(buf, Answered)'
    <3>1. n = requests + 1 /\ n < MaxRequestsPerConnection
      <4>1. Counted(q) /\ ~BudgetSpent(n)
        BY <2>4 DEF close
      <4>2. n = requests + 1
        BY <4>1, Zenon DEF n
      <4>3. QED BY <1>3, <1>4, <4>1, <4>2 DEF BudgetSpent
    <3>2. requests' = Answered' /\ Answered' < MaxRequestsPerConnection
      BY <1>1, <1>3, <2>3, <3>1
    <3>3. Unconsumed(buf') = Unconsumed(b) - (h + q.body) /\ Unconsumed(b) \in Nat
      <4>1. IsBuffer(b)
        BY DEF Ready, Input
      <4>2. Unconsumed(b) \in Nat
        BY <4>1 DEF IsBuffer, Unconsumed
      <4>3. Unconsumed(b) >= h + q.body
        OBVIOUS
      <4> HIDE DEF q
      <4>4. h + q.body \in Nat /\ h + q.body <= Unconsumed(b)
        BY <1>5, <4>2, <4>3
      <4>5. QED BY <1>1, <4>1, <4>2, <4>4, ConsumeKeeps
    <3>4. received - Unconsumed(b) = stream.start[r.idx] /\ received \in Nat
      BY <1>5 DEF Ready, AtRequest
    <3>5. received - Unconsumed(buf') = stream.start[r.idx + 1]
      <4> DEFINE k == h + q.body
                 u == Unconsumed(b)
      <4>1. /\ k \in Int /\ u \in Int /\ stream.start[r.idx] \in Int
            /\ stream.start[r.idx + 1] = stream.start[r.idx] + k
        <5> HIDE DEF q
        <5>1. QED BY <1>5, <3>3
      <4> HIDE DEF k, u
      <4>2. Unconsumed(buf') = u - k /\ received - u = stream.start[r.idx] /\ received \in Int
        BY <3>3, <3>4 DEF k, u
      <4>3. QED BY <4>1, <4>2
    <3>6. Answered' = r.idx /\ Answered' <= Len(stream.reqs)
      BY <1>5, <2>3
    <3>7. AtRequest(buf, Answered)'
      BY <1>6, <3>5, <3>6 DEF AtRequest
    <3>8. QED BY <3>2, <3>7
  <2>5. Continuing' => ~close
    BY <1>1, <2>2 DEF Continuing
  <2>6. phase' # "body"
    BY <2>2
  <2>7. QED BY <2>3, <2>4, <2>5, <2>6, Zenon DEF Left
<1>9. QED
  <2> HIDE DEF close, n, q
  <2>1. QED BY <1>1, <1>7, <1>8

\* Waiting for more input changes nothing about which request comes next.
LEMMA WaitOrder ==
  ASSUME NEW b, Ready(b), ReadMore(b), phase' \in {"headers", "body"},
         phase' = "body" => IsNext(request', headerSize')
  PROVE  Left
<1>1. /\ UNCHANGED <<requests, closeAfterWrite, responses, crashed>>
      /\ buf' = MakeRoom(b)
  BY DEF ReadMore
<1>2. Unconsumed(buf') = Unconsumed(b)
  BY <1>1, MakeRoomKeeps DEF Ready, Input
<1>3. UNCHANGED <<stream, received>> /\ History /\ Answered' = Answered
  BY <1>1 DEF Ready, Answered
<1>4. LastIsLast'
  <2>1. \A i \in 1 .. Len(responses) : ~responses[i].close
    BY DEF Ready, Answered
  <2>2. QED BY <1>1, <2>1 DEF LastIsLast
<1>5. ServedInOrder'
  BY <1>1, <1>3 DEF History, ServedInOrder
<1>6. History'
  BY <1>1, <1>3, <1>4, <1>5 DEF History
<1>7. AtRequest(buf, Answered)'
  BY <1>2, <1>3 DEF Ready, AtRequest
<1>8. requests' = Answered' /\ Answered' < MaxRequestsPerConnection
  BY <1>1, <1>3 DEF Ready
<1>9. phase' = "body" => /\ request'.idx = Answered' + 1
                         /\ headerSize' = stream'.reqs[Answered' + 1].hdr
  BY <1>3 DEF IsNext
<1>10. QED BY <1>6, <1>7, <1>8, <1>9 DEF Left

LEMMA AwaitBodyOrder ==
  ASSUME NEW b, Ready(b), NEW r, NEW h, IsNext(r, h), AwaitBody(b, h, r)
  PROVE  Left
<1>1. request' = r /\ headerSize' = h
  BY DEF AwaitBody
<1>2. /\ r.idx # 0 /\ r.idx = Answered + 1
      /\ SizeSum(h, stream.reqs[r.idx].body) = h + stream.reqs[r.idx].body
  <2>1. BodyOK(r, h) /\ stream \in Streams /\ r.idx = Answered + 1
    BY DEF IsNext, Ready
  <2>2. /\ h \in Nat /\ h <= MaxHeaderBytes /\ r.idx # 0
        /\ stream.reqs[r.idx].body \in Nat /\ stream.reqs[r.idx].body <= MaxBodyBytes
    BY <2>1, StreamFacts, LimitTypes DEF BodyOK
  <2>3. QED BY <2>1, <2>2, SizesAdd
<1>3. CASE phase' = "body" /\ ReadMore(b)
  <2>1. Answered' = Answered /\ stream' = stream
    BY <1>3 DEF ReadMore, Ready, Answered
  <2>2. IsNext(request', headerSize')
    BY <1>1
  <2>3. QED BY <1>3, <2>2, WaitOrder
<1>4. CASE Unconsumed(b) >= SizeSum(h, ContentLength(r)) /\ Serve(b, h, r)
  BY <1>2, <1>4, ServeOrder DEF ContentLength
<1>5. QED BY <1>3, <1>4 DEF AwaitBody

LEMMA ParseStatusType ==
  ASSUME stream \in Streams, NEW i \in 1 .. Len(stream.reqs), NEW h
  PROVE  ParseStatus(i, h) \in Nat
BY StreamFacts DEF ParseStatus, Requests

LEMMA ProcessInputOrder ==
  ASSUME NEW b, Ready(b), NEW p \in {"headers", "body"}, NEW h, NEW r,
         p = "body" => IsNext(r, h), ProcessInput(b, p, h, r)
  PROVE  Left
<1>1. CASE p = "headers" /\ EndLengths(b) = {}
  <2>1. CASE Fail(b, 431)
    BY <2>1, FailOrder
  <2>2. CASE phase' = "headers" /\ ReadMore(b)
    BY <2>2, WaitOrder
  <2>3. QED BY <1>1, <2>1, <2>2 DEF ProcessInput
<1>2. CASE p = "headers" /\ EndLengths(b) # {}
  <2> DEFINE end == FoundHeader(b)
             i   == HeaderOf(ByteAt(b, end - 1))
             status == ParseStatus(i, end)
  <2>1. /\ Answered \in Nat /\ Answered + 1 \in 1 .. Len(stream.reqs)
        /\ i = Answered + 1 /\ end = stream.reqs[Answered + 1].hdr
    BY <1>2, FoundIsNext DEF Ready, History, Answered
  <2>2. CASE Fail(b, status)
    <3>1. status \in Nat
      BY <2>1, ParseStatusType DEF Ready
    <3>2. QED BY <2>2, <3>1, FailOrder
  <2>3. CASE status = 0 /\ AwaitBody(b, end, Parsed(b, end))
    <3>1. BodyOK(Parsed(b, end), end)
      BY <1>2, <2>3, ParsedIsOK DEF Ready
    <3>2. IsNext(Parsed(b, end), end)
      BY <2>1, <3>1 DEF IsNext, Parsed
    <3>3. QED BY <2>3, <3>2, AwaitBodyOrder
  <2>4. QED BY <1>2, <2>2, <2>3 DEF ProcessInput
<1>3. CASE p = "body"
  BY <1>3, AwaitBodyOrder DEF ProcessInput
<1>4. QED BY <1>1, <1>2, <1>3

-----------------------------------------------------------------------------
(* The inductive invariant.                                                *)

\* The control and the data of every callback that processes input hand it a
\* good buffer.
LEMMA LeftKeepsOrder ==
  ASSUME Data', Left, result' = NoResult
  PROVE  Order'
<1>1. Arrived' = 0
  BY DEF Arrived, NoResult
<1>2. Unconsumed(buf') \in Int /\ received' \in Int
  BY DEF Data, IsBuffer, Unconsumed
<1>3. Continuing' => Position'
  BY <1>1, <1>2 DEF Left, Position, AtRequest
<1>4. QED BY <1>3 DEF Order, Left

\* A step that neither processes input nor starts a response.
LEMMA IdleKeepsOrder ==
  ASSUME Order, Data',
         UNCHANGED <<headerSize, request, requests, closeAfterWrite,
                     responses, crashed, stream>>,
         Unconsumed(buf') = Unconsumed(buf),
         phase' = phase \/ phase' = "closed",
         phase' # "closed" => received' - Arrived' = received - Arrived
  PROVE  Order'
<1>1. History'
  <2>1. Answered' = Answered
    BY DEF Answered
  <2>2. LastIsLast'
    BY DEF Order, History, LastIsLast
  <2>3. ServedInOrder'
    BY DEF Order, History, ServedInOrder
  <2>4. QED BY <2>1, <2>2, <2>3 DEF Order, History
<1>2. ASSUME Continuing'
      PROVE  Position'
  <2>1. Continuing /\ phase' = phase
    BY <1>2 DEF Continuing
  <2>4. (received' - Arrived') - Unconsumed(buf') = (received - Arrived) - Unconsumed(buf)
    BY <1>2 DEF Continuing
  <2>5. Answered' = Answered
    BY DEF Answered
  <2>6. Position
    BY <2>1 DEF Order
  <2>7. /\ requests' = Answered' /\ Answered' < MaxRequestsPerConnection
        /\ Answered' <= Len(stream'.reqs)
    BY <2>5, <2>6 DEF Position
  <2>8. (received' - Arrived') - Unconsumed(buf') = stream'.start[Answered' + 1]
    BY <2>4, <2>5, <2>6 DEF Position
  <2>9. phase' = "body" => /\ request'.idx = Answered' + 1
                           /\ headerSize' = stream'.reqs[Answered' + 1].hdr
    BY <2>1, <2>5, <2>6 DEF Position
  <2>10. QED BY <2>7, <2>8, <2>9 DEF Position
<1>3. QED BY <1>1, <1>2 DEF Order

\* The callbacks that process input meet what process_input() relies on.
LEMMA ReadIsReady ==
  ASSUME Order, OnRead, NEW b, b = [buf EXCEPT !.write = buf.write + result.bytes]
  PROVE  /\ Ready(b) /\ ProcessInput(b, phase, headerSize, request)
         /\ phase \in {"headers", "body"} /\ ~crashed /\ result' = NoResult
         /\ phase = "body" => IsNext(request, headerSize)
<1>0. Data /\ Control /\ History
  BY DEF Order, Data
<1>1. /\ phase \in {"headers", "body"} /\ ~crashed /\ result.kind = "read"
      /\ ProcessInput(b, phase, headerSize, request)
      /\ UNCHANGED <<stream, received>> /\ result' = NoResult
  BY <1>0 DEF OnRead, Callback, Control, ControlTypes, Phases,
              OneOperation, Reading, Writing
<1>2. Arrived = result.bytes /\ Arrived \in Nat
  BY <1>0, <1>1 DEF Arrived, Data
<1>3. /\ Input(b, received) /\ received \in Nat /\ stream \in Streams
      /\ Unconsumed(b) = Unconsumed(buf) + Arrived
  BY <1>0, <1>1, <1>2, ArrivedInput
<1>4. Continuing /\ Position
  BY <1>1 DEF Continuing, Order
<1>5. Ready(b)
  <2>1. AtRequest(b, Answered)
    <3>1. Unconsumed(buf) \in Int
      BY <1>0 DEF Data, IsBuffer, Unconsumed
    <3>2. (received - Arrived) - Unconsumed(buf) = received - Unconsumed(b)
      BY <1>2, <1>3, <3>1
    <3>3. QED BY <1>4, <3>2 DEF Position, AtRequest
  <2>2. \A i \in 1 .. Answered : ~responses[i].close
    BY <1>0, <1>1 DEF History, LastIsLast, Answered
  <2>3. QED BY <1>0, <1>1, <1>3, <1>4, <2>1, <2>2 DEF Ready, Position
<1>6. phase = "body" => IsNext(request, headerSize)
  BY <1>0, <1>1, <1>4 DEF Position, IsNext, Data
<1>7. QED BY <1>1, <1>5, <1>6

LEMMA WriteIsReady ==
  ASSUME Order, OnWrite
  PROVE  /\ Ready(buf) /\ result' = NoResult
         /\ \/ ProcessInput(buf, "headers", 0, NoRequest)
            \/ phase' = "headers" /\ ReadMore(buf)
<1>0. Data /\ Control /\ History
  BY DEF Order, Data
<1>1. /\ phase = "writing" /\ ~crashed /\ result.kind = "write"
      /\ ~closeAfterWrite /\ result' = NoResult
      /\ UNCHANGED <<stream, received>>
  BY <1>0 DEF OnWrite, Ends, Callback, Control, ControlTypes, Phases,
              OneOperation, Reading, Writing
<1>2. Arrived = 0
  BY <1>1 DEF Arrived
<1>3. Input(buf, received) /\ received \in Nat /\ stream \in Streams
  BY <1>0, <1>1, <1>2, OpenInput
<1>4. Continuing /\ Position
  BY <1>1 DEF Continuing, Order
<1>5. Ready(buf)
  <2>1. AtRequest(buf, Answered)
    <3>1. Unconsumed(buf) \in Int
      BY <1>3 DEF Input, IsBuffer, Unconsumed
    <3>2. (received - Arrived) - Unconsumed(buf) = received - Unconsumed(buf)
      BY <1>2, <1>3, <3>1
    <3>3. QED BY <1>4, <3>2 DEF Position, AtRequest
  <2>2. \A i \in 1 .. Answered : ~responses[i].close
    BY <1>0, <1>1 DEF History, LastIsLast, Answered
  <2>3. QED BY <1>0, <1>1, <1>3, <1>4, <2>1, <2>2 DEF Ready, Position
<1>6. \/ ProcessInput(buf, "headers", 0, NoRequest)
      \/ phase' = "headers" /\ ReadMore(buf)
  BY Zenon DEF OnWrite
<1>7. QED BY <1>1, <1>5, <1>6

LEMMA OrderStep == Order /\ [Next]_vars => Order'
<1> SUFFICES ASSUME Order, [Next]_vars PROVE Order'
  OBVIOUS
<1>0. Data /\ Data' /\ Control /\ History
  BY DataStep DEF Order, Data
<1>1. CASE OnClosed \/ OnReadFailed \/ OnLastWrite
  <2>1. phase' = "closed"
    BY <1>1 DEF OnClosed, OnReadFailed, OnLastWrite, Close
  <2>2. UNCHANGED <<buf, headerSize, request, requests, closeAfterWrite,
                    responses, crashed, stream>>
    BY <1>1 DEF OnClosed, OnReadFailed, OnLastWrite, Callback
  <2>3. QED BY <1>0, <2>1, <2>2, IdleKeepsOrder
<1>2. CASE OnRead
  <2> DEFINE b == [buf EXCEPT !.write = buf.write + result.bytes]
  <2>1. /\ Ready(b) /\ ProcessInput(b, phase, headerSize, request)
        /\ phase \in {"headers", "body"} /\ result' = NoResult
        /\ phase = "body" => IsNext(request, headerSize)
    BY <1>2, ReadIsReady
  <2> HIDE DEF b
  <2>2. Left
    BY <2>1, ProcessInputOrder
  <2>3. QED BY <1>0, <2>1, <2>2, LeftKeepsOrder
<1>3. CASE OnWrite
  <2>1. /\ Ready(buf) /\ result' = NoResult
        /\ \/ ProcessInput(buf, "headers", 0, NoRequest)
           \/ phase' = "headers" /\ ReadMore(buf)
    BY <1>3, WriteIsReady
  <2>2. ASSUME ProcessInput(buf, "headers", 0, NoRequest)
        PROVE  Left
    <3>1. "headers" \in {"headers", "body"}
          /\ ("headers" = "body" => IsNext(NoRequest, 0))
      OBVIOUS
    <3>2. QED BY <2>1, <2>2, <3>1, ProcessInputOrder
  <2>3. ASSUME phase' = "headers", ReadMore(buf)
        PROVE  Left
    BY <2>1, <2>3, WaitOrder
  <2>4. QED BY <1>0, <2>1, <2>2, <2>3, LeftKeepsOrder
<1>4. ASSUME NEW force \in BOOLEAN, Stop(force)
      PROVE  Order'
  BY <1>0, <1>4, IdleKeepsOrder DEF Stop, Close, asio, Arrived
<1>5. CASE ReceiveSome
  <2>1. PICK n \in 1 .. target.len : Receive(n)
    BY <1>5 DEF ReceiveSome
  <2>2. /\ result.kind = "none" /\ result'.kind = "read" /\ result'.bytes = n
        /\ received' = received + n
    BY <2>1 DEF Receive, Completes
  <2>3. Arrived = 0 /\ Arrived' = n /\ received \in Nat /\ n \in Int
    BY <1>0, <2>2 DEF Arrived, Data
  <2>4. received' - Arrived' = received - Arrived
    BY <2>2, <2>3
  <2>5. Unconsumed(buf') = Unconsumed(buf)
    BY <1>0, <2>1 DEF Receive, Store, Unconsumed, Data, IsBuffer
  <2>6. QED BY <1>0, <2>1, <2>4, <2>5, IdleKeepsOrder DEF Receive
<1>6. CASE ReadFails \/ Sent \/ WriteFails
  <2>1. Arrived' = Arrived \/ phase' = "closed"
    BY <1>6 DEF ReadFails, Sent, WriteFails, Completes, Arrived
  <2>2. QED
    BY <1>0, <1>6, <2>1, IdleKeepsOrder DEF ReadFails, Sent, WriteFails, conn
<1>7. CASE UNCHANGED vars
  BY <1>0, <1>7, IdleKeepsOrder DEF vars, conn, asio, Arrived
<1>8. QED
  BY <1>1, <1>2, <1>3, <1>4, <1>5, <1>6, <1>7 DEF Next, Callbacks

LEMMA OrderInit == Init => Order
<1> SUFFICES ASSUME Init PROVE Order
  OBVIOUS
<1>1. Data
  BY DataInit
<1>2. /\ responses = <<>> /\ requests = 0 /\ closeAfterWrite = FALSE
      /\ phase = "headers" /\ received = 0 /\ result = NoResult
      /\ buf = NewBuffer /\ stream \in Streams
  BY DEF Init
<1>3. Answered = 0
  BY <1>2 DEF Answered
<1>4. History
  <2>1. responses \in Seq(Responses) /\ Len(responses) = 0
    BY <1>2
  <2>2. ServedInOrder /\ LastIsLast
    BY <2>1 DEF ServedInOrder, LastIsLast
  <2>3. Answered <= MaxRequestsPerConnection
    BY <1>3, LimitsAssumption DEF Validated
  <2>4. QED BY <1>2, <2>1, <2>2, <2>3 DEF History
<1>5. Unconsumed(buf) = 0 /\ Arrived = 0
  BY <1>2 DEF Unconsumed, NewBuffer, Arrived, NoResult
<1>6. Position
  <2>1. Len(stream.reqs) \in Nat /\ stream.start[1] = 0
    BY <1>2, StreamFacts
  <2>2. Answered <= Len(stream.reqs) /\ stream.start[Answered + 1] = 0
    BY <1>3, <2>1
  <2>3. QED BY <1>2, <1>3, <1>5, <2>2, LimitsAssumption DEF Position, Validated
<1>7. QED BY <1>1, <1>4, <1>6 DEF Order

LEMMA OrderInvariant == Spec => []Order
BY OrderInit, OrderStep, PTL DEF Spec

\* Responses are in the order of the requests, one for each, and each was
\* computed from exactly the bytes of its request, for every stream, however
\* it is fragmented and pipelined.
THEOREM ResponsesAlwaysInOrder == Spec => []ServedInOrder
<1>1. Order => ServedInOrder
  BY DEF Order, History
<1>2. QED BY <1>1, OrderInvariant, PTL

\* Nothing follows a response that announces that the connection closes.
THEOREM AnnouncedEndIsTheEnd == Spec => []LastIsLast
<1>1. Order => LastIsLast
  BY DEF Order, History
<1>2. QED BY <1>1, OrderInvariant, PTL

\* A connection never answers more than max_requests_per_connection requests.
THEOREM BudgetIsKept == Spec => []RequestBudget
<1>1. ASSUME Order PROVE RequestBudget
  <2>1. phase \in {"headers", "body"} /\ ~crashed => requests < MaxRequestsPerConnection
    BY <1>1 DEF Order, Continuing, Position
  <2>2. QED BY <1>1, <2>1 DEF RequestBudget, Order, History, Answered
<1>2. QED BY <1>1, OrderInvariant, PTL

-----------------------------------------------------------------------------
(* Types.  Most of TypeOK is part of what has been proved; the rest is      *)
(* about the request at hand, the last read and the queued result.         *)

RequestTypes == [idx : 0 .. Len(stream.reqs), gen : Nat, base : Nat]
TargetTypes  == [gen : Nat, at : Nat, len : Nat]
ResultTypes  == [kind : {"none", "read", "write"}, bytes : Nat, failed : BOOLEAN]

AtHand == headerSize \in Nat /\ request \in RequestTypes /\ target \in TargetTypes

Typed == Order /\ AtHand /\ result \in ResultTypes

LEMMA MoreTypes ==
  ASSUME NEW b, IsBuffer(b), b.size > 0, ReadMore(b)
  PROVE  target' \in TargetTypes
<1> DEFINE m == MakeRoom(b)
<1>1. IsBuffer(m) /\ m.write < m.size
  BY MakeRoomKeeps
<1>2. target' = [gen |-> m.gen, at |-> m.write, len |-> m.size - m.write]
  BY DEF ReadMore
<1> HIDE DEF m
<1>3. m.gen \in Nat /\ m.write \in Nat /\ m.size - m.write \in Nat
  BY <1>1 DEF IsBuffer
<1>4. QED BY <1>2, <1>3 DEF TargetTypes

LEMMA ProcessInputTypes ==
  ASSUME NEW b, IsBuffer(b), b.size > 0, AtHand, stream \in Streams, stream' = stream,
         NEW p \in {"headers", "body"}, NEW h \in Nat, NEW r \in RequestTypes,
         ProcessInput(b, p, h, r)
  PROVE  AtHand'
<1>1. ASSUME NEW h1 \in Nat, NEW r1 \in RequestTypes,
             headerSize' = h1, request' = r1,
             target' = target \/ ReadMore(b)
      PROVE  AtHand'
  <2>1. target' \in TargetTypes
    BY <1>1, MoreTypes DEF AtHand
  <2>2. request' \in RequestTypes'
    BY <1>1 DEF RequestTypes
  <2>3. QED BY <1>1, <2>1, <2>2 DEF AtHand, TargetTypes
<1>2. ASSUME NEW h1 \in Nat, NEW r1 \in RequestTypes, AwaitBody(b, h1, r1)
      PROVE  AtHand'
  <2>1. target' = target \/ ReadMore(b)
    BY <1>2, Zenon DEF AwaitBody, Serve, Write
  <2>2. headerSize' = h1 /\ request' = r1
    BY <1>2 DEF AwaitBody
  <2>3. QED BY <1>1, <2>1, <2>2
<1>3. CASE p = "headers" /\ EndLengths(b) = {}
  <2>1. headerSize' = h /\ request' = r
    BY <1>3 DEF ProcessInput
  <2>2. target' = target \/ ReadMore(b)
    BY <1>3 DEF ProcessInput, Fail, Write
  <2>3. QED BY <1>1, <2>1, <2>2
<1>4. CASE p = "headers" /\ EndLengths(b) # {}
  <2> DEFINE end == FoundHeader(b)
             status == ParseStatus(HeaderOf(ByteAt(b, end - 1)), end)
  <2>1. end \in Nat /\ ByteAt(b, end - 1) \in HeaderEnds
    BY <1>4, FoundHeaderIsFirst DEF EndLengths
  <2>2. CASE headerSize' = end /\ request' = r /\ Fail(b, status)
    BY <1>1, <2>1, <2>2 DEF Fail, Write
  <2>3. CASE AwaitBody(b, end, Parsed(b, end))
    <3>1. HeaderOf(ByteAt(b, end - 1)) \in 0 .. Len(stream.reqs)
      BY <2>1, HeaderOfFound, StreamFacts
    <3>2. Parsed(b, end) \in RequestTypes
      BY <3>1 DEF Parsed, RequestTypes, IsBuffer
    <3>3. QED BY <1>2, <2>1, <2>3, <3>2
  <2>4. QED BY <1>4, <2>2, <2>3 DEF ProcessInput
<1>5. CASE p = "body"
  BY <1>2, <1>5 DEF ProcessInput
<1>6. QED BY <1>3, <1>4, <1>5

LEMMA TypedStep == Typed /\ [Next]_vars => Typed'
<1> SUFFICES ASSUME Typed, [Next]_vars PROVE Typed'
  OBVIOUS
<1>1. /\ Order' /\ Data /\ AtHand /\ result \in ResultTypes
      /\ stream \in Streams /\ stream' = stream
  <2>1. stream' = stream
    BY DEF Next, Callbacks, OnClosed, OnReadFailed, OnRead, OnLastWrite, OnWrite, Callback,
           Stop, ReceiveSome, Receive, ReadFails, Sent, WriteFails, vars
  <2>2. QED BY <2>1, OrderStep DEF Typed, Order, Data
<1>2. NoResult \in ResultTypes
  BY DEF NoResult, ResultTypes
<1>3. ASSUME UNCHANGED <<headerSize, request, target>>
      PROVE  AtHand'
  BY <1>1, <1>3 DEF AtHand, RequestTypes, TargetTypes
<1>4. AtHand'
  <2>1. CASE OnRead
    <3> DEFINE b == [buf EXCEPT !.write = buf.write + result.bytes]
    <3>1. result.kind = "read" /\ phase \in {"headers", "body"} /\ phase # "closed"
      BY <1>1, <2>1 DEF OnRead, Callback, Data, Control, ControlTypes, Phases,
                        OneOperation, Reading, Writing
    <3>2. IsBuffer(b) /\ b.size > 0
      BY <1>1, <3>1, ArrivedInput DEF Input
    <3>3. ProcessInput(b, phase, headerSize, request)
      BY <2>1 DEF OnRead
    <3> HIDE DEF b
    <3>4. QED BY <1>1, <3>1, <3>2, <3>3, ProcessInputTypes DEF AtHand
  <2>2. CASE OnWrite
    <3>1. IsBuffer(buf) /\ buf.size > 0
      BY <1>1 DEF Data
    <3>2. 0 \in Nat /\ NoRequest \in RequestTypes
      BY <1>1, StreamFacts DEF NoRequest, RequestTypes
    <3>3. \/ ProcessInput(buf, "headers", 0, NoRequest)
          \/ headerSize' = 0 /\ request' = NoRequest /\ ReadMore(buf)
      BY <2>2, Zenon DEF OnWrite
    <3>4. ASSUME ProcessInput(buf, "headers", 0, NoRequest)
          PROVE  AtHand'
      BY <1>1, <3>1, <3>2, <3>4, ProcessInputTypes
    <3>5. ASSUME headerSize' = 0, request' = NoRequest, ReadMore(buf)
          PROVE  AtHand'
      BY <1>1, <3>1, <3>2, <3>5, MoreTypes DEF AtHand, RequestTypes, TargetTypes
    <3>6. QED BY <3>3, <3>4, <3>5
  <2>3. CASE ~OnRead /\ ~OnWrite
    <3>1. CASE OnClosed \/ OnReadFailed \/ OnLastWrite
      BY <1>3, <3>1 DEF OnClosed, OnReadFailed, OnLastWrite
    <3>2. CASE \E force \in BOOLEAN : Stop(force)
      BY <1>3, <3>2 DEF Stop, asio
    <3>3. CASE ReceiveSome \/ ReadFails \/ Sent \/ WriteFails
      BY <1>3, <3>3 DEF ReceiveSome, Receive, ReadFails, Sent, WriteFails, conn
    <3>4. CASE UNCHANGED vars
      BY <1>3, <3>4 DEF vars, conn, asio
    <3>5. QED BY <2>3, <3>1, <3>2, <3>3, <3>4 DEF Next, Callbacks
  <2>4. QED BY <2>1, <2>2, <2>3
<1>5. result' \in ResultTypes
  <2>1. CASE Callbacks
    BY <1>2, <2>1 DEF Callbacks, OnClosed, OnReadFailed, OnRead, OnLastWrite, OnWrite, Callback
  <2>2. CASE ReceiveSome
    <3>1. PICK n \in 1 .. target.len : Receive(n)
      BY <2>2 DEF ReceiveSome
    <3>2. n \in Nat
      BY <1>1 DEF AtHand, TargetTypes
    <3>3. QED BY <3>1, <3>2 DEF Receive, Completes, ResultTypes
  <2>3. CASE ReadFails \/ Sent \/ WriteFails
    <3>1. \E kind \in {"read", "write"}, failed \in BOOLEAN : Completes(kind, 0, failed)
      BY <2>3, Zenon DEF ReadFails, Sent, WriteFails
    <3>2. QED BY <3>1 DEF Completes, ResultTypes
  <2>4. CASE UNCHANGED result
    BY <1>1, <2>4 DEF ResultTypes
  <2>5. QED BY <2>1, <2>2, <2>3, <2>4 DEF Next, Stop, asio, vars
<1>6. QED BY <1>1, <1>4, <1>5 DEF Typed, ResultTypes

LEMMA TypedInit == Init => Typed
<1> SUFFICES ASSUME Init PROVE Typed
  OBVIOUS
<1>1. stream \in Streams
  BY DEF Init
<1>2. request = NoRequest /\ NoRequest \in RequestTypes
  BY <1>1, StreamFacts DEF Init, NoRequest, RequestTypes
<1>3. target \in TargetTypes /\ result \in ResultTypes /\ headerSize \in Nat
  BY BufferAssumption DEF Init, NoResult, TargetTypes, ResultTypes
<1>4. QED BY <1>2, <1>3, OrderInit DEF Typed, AtHand

\* Every variable of a connection keeps the type its C++ declaration gives it,
\* and the indices stay inside the buffer.
THEOREM ConnectionTypes == Spec => []TypeOK
<1>1. Init => Typed
  BY TypedInit
<1>2. Typed /\ [Next]_vars => Typed'
  BY TypedStep
<1>3. ASSUME Typed PROVE TypeOK
  <2>1. /\ Data /\ Control /\ History
    BY <1>3 DEF Typed, Order, Data
  <2>2. closes \in Nat
    BY <2>1 DEF Control, ClosesOnce
  <2>3. /\ phase \in Phases /\ draining \in BOOLEAN /\ crashed \in BOOLEAN
        /\ reads \in Nat /\ writes \in Nat
    BY <2>1 DEF Control, ControlTypes
  <2>4. IsBuffer(buf) /\ stream \in Streams /\ received \in Nat
    BY <2>1 DEF Data
  <2>5. requests \in Nat /\ closeAfterWrite \in BOOLEAN /\ responses \in Seq(Responses)
    BY <2>1 DEF History
  <2>6. /\ headerSize \in Nat /\ request \in RequestTypes
        /\ target \in TargetTypes /\ result \in ResultTypes
    BY <1>3 DEF Typed, AtHand
  <2>7. QED
    BY <2>2, <2>3, <2>4, <2>5, <2>6, Zenon
    DEF TypeOK, RequestTypes, TargetTypes, ResultTypes
<1>4. QED BY <1>1, <1>2, <1>3, PTL DEF Spec

-----------------------------------------------------------------------------
(* Views.  While a request whose header block was found at the front of    *)
(* the buffer waits for its body, the unconsumed bytes are shorter than it, *)
(* so they leave room behind them and read_more() moves nothing.           *)

Fits(r, h) == SizeSum(h, ContentLength(r)) <= BufferSize

\* The views of a request found at the front of b point at its unconsumed
\* bytes, which hold its header block.
AtOrigin(b, r, h) ==
  (Fits(r, h) /\ r.base = 0) => b.read = 0 /\ r.gen = b.gen /\ h <= Unconsumed(b)

\* A crashed callback has consumed the request and left the bytes in place.
InPlace ==
  phase = "body" =>
    IF crashed THEN Fits(request, headerSize) /\ request.base = 0 => ViewsIntact(buf, request)
               ELSE AtOrigin(buf, request, headerSize)

Views == Order /\ buf.size >= BufferSize /\ InPlace

LEMMA OriginIsIntact ==
  ASSUME NEW b, NEW r, NEW h, stream \in Streams, r.idx \in 1 .. Len(stream.reqs),
         h = stream.reqs[r.idx].hdr, AtOrigin(b, r, h), Fits(r, h), r.base = 0,
         Unconsumed(b) \in Nat,
         \A k \in 0 .. Unconsumed(b) - 1 : ByteAt(b, k) = stream.start[r.idx] + k
  PROVE  ViewsIntact(b, r)
<1>1. b.read = 0 /\ r.gen = b.gen /\ h <= Unconsumed(b)
  BY DEF AtOrigin
<1>2. h \in Nat
  BY StreamFacts
<1>3. ASSUME NEW k \in 0 .. h - 1
      PROVE  b.cells[r.base + k] = stream.start[r.idx] + k
  <2>1. k \in 0 .. Unconsumed(b) - 1
    BY <1>1, <1>2
  <2>2. b.cells[r.base + k] = ByteAt(b, k)
    BY <1>1 DEF ByteAt
  <2>3. QED BY <2>1, <2>2
<1>4. QED BY <1>1, <1>3 DEF ViewsIntact

\* What process_input() leaves behind.
Kept == buf'.size >= BufferSize /\ InPlace'

LEMMA ReadMoreKeepsSize ==
  ASSUME NEW b, Ready(b), b.size >= BufferSize, ReadMore(b)
  PROVE  buf'.size >= BufferSize
<1>1. /\ IsBuffer(b) /\ b.size > 0 /\ b.size \in Nat /\ BufferSize \in Nat
      /\ buf' = MakeRoom(b)
  BY BufferAssumption DEF Ready, Input, IsBuffer, ReadMore
<1>2. MakeRoom(b).size >= b.size /\ MakeRoom(b).size \in Nat
  BY <1>1, MakeRoomNeverShrinks, MakeRoomKeeps DEF IsBuffer
<1>3. QED BY <1>1, <1>2

LEMMA AwaitBodyViews ==
  ASSUME NEW b, Ready(b), b.size >= BufferSize, NEW r, NEW h, IsNext(r, h),
         AtOrigin(b, r, h), AwaitBody(b, h, r)
  PROVE  Kept
<1>1. /\ request' = r /\ headerSize' = h /\ stream' = stream /\ stream \in Streams
      /\ r.idx \in 1 .. Len(stream.reqs) /\ h = stream.reqs[r.idx].hdr
      /\ ~crashed
  BY DEF AwaitBody, Ready, IsNext, BodyOK
<1>2. /\ r.idx # 0
      /\ SizeSum(h, stream.reqs[r.idx].body) = h + stream.reqs[r.idx].body
      /\ h + stream.reqs[r.idx].body <= MaxHeaderBytes + MaxBodyBytes
      /\ h + stream.reqs[r.idx].body \in Nat
  <2>1. BodyOK(r, h)
    BY DEF IsNext
  <2>2. /\ h \in Nat /\ h <= MaxHeaderBytes /\ r.idx # 0
        /\ stream.reqs[r.idx].body \in Nat /\ stream.reqs[r.idx].body <= MaxBodyBytes
    BY <1>1, <2>1, StreamFacts, LimitTypes DEF BodyOK
  <2>3. QED BY <2>2, SizesAdd, LimitTypes
<1>3. /\ IsBuffer(b) /\ Unconsumed(b) \in Nat /\ Unconsumed(b) = b.write - b.read
      /\ b.write \in Nat /\ b.size \in Nat /\ BufferSize \in Nat
  BY BufferAssumption DEF Ready, Input, IsBuffer, Unconsumed
<1>4. CASE Unconsumed(b) < SizeSum(h, ContentLength(r)) /\ phase' = "body" /\ ReadMore(b)
  <2>1. buf'.size >= BufferSize
    BY <1>4, ReadMoreKeepsSize
  <2>2. ASSUME Fits(r, h), r.base = 0
        PROVE  buf' = b
    <3>1. b.read = 0
      BY <2>2 DEF AtOrigin
    <3>2. Unconsumed(b) < h + stream.reqs[r.idx].body
      BY <1>2, <1>4 DEF ContentLength
    <3>3. h + stream.reqs[r.idx].body <= BufferSize
      BY <1>2, <2>2 DEF Fits, ContentLength
    <3>5. b.size # b.write
      BY <1>2, <1>3, <3>1, <3>2, <3>3
    <3>6. QED BY <1>4, <3>1, <3>5, MakeRoomAtOrigin DEF ReadMore
  <2>3. AtOrigin(buf', request', headerSize')
    BY <1>1, <2>2 DEF AtOrigin
  <2>4. crashed' = crashed
    BY <1>4 DEF ReadMore
  <2>5. QED BY <1>1, <2>1, <2>3, <2>4 DEF Kept, InPlace, AtOrigin, Fits, ContentLength
<1>5. CASE Unconsumed(b) >= SizeSum(h, ContentLength(r)) /\ Serve(b, h, r)
  <2>1. /\ buf' = Consume(b, h + stream.reqs[r.idx].body)
        /\ phase' = "writing" \/ crashed' = TRUE
    BY <1>2, <1>5, Zenon DEF Serve, Write
  <2>2. buf'.size = b.size /\ buf'.gen = b.gen /\ buf'.cells = b.cells
    BY <1>3, <2>1 DEF Consume, IsBuffer
  <2>3. ASSUME Fits(r, h), r.base = 0
        PROVE  ViewsIntact(buf', r)
    <3>1. ASSUME NEW k \in 0 .. Unconsumed(b) - 1
          PROVE  ByteAt(b, k) = stream.start[r.idx] + k
      <4>1. ByteAt(b, k) = received - Unconsumed(b) + k
        BY DEF Ready, Input, Window
      <4>2. received - Unconsumed(b) = stream.start[r.idx]
        BY DEF Ready, AtRequest, IsNext
      <4>3. QED BY <4>1, <4>2
    <3>2. ViewsIntact(b, r)
      BY <1>1, <1>3, <2>3, <3>1, OriginIsIntact
    <3>3. QED BY <2>2, <3>2 DEF ViewsIntact
  <2>4. (Fits(request, headerSize) /\ request.base = 0 => ViewsIntact(buf, request))'
    BY <1>1, <2>3 DEF ViewsIntact, Fits, ContentLength
  <2>5. QED BY <2>1, <2>2, <2>4 DEF Kept, InPlace
<1>6. QED BY <1>4, <1>5 DEF AwaitBody

LEMMA ProcessInputViews ==
  ASSUME NEW b, Ready(b), b.size >= BufferSize, NEW p \in {"headers", "body"}, NEW h, NEW r,
         p = "body" => IsNext(r, h) /\ AtOrigin(b, r, h), ProcessInput(b, p, h, r)
  PROVE  Kept
<1>1. ASSUME NEW status, Fail(b, status)
      PROVE  Kept
  BY <1>1 DEF Fail, Write, Kept, InPlace
<1>2. CASE p = "headers" /\ EndLengths(b) = {}
  <2>1. CASE Fail(b, 431)
    BY <1>1, <2>1
  <2>2. CASE phase' = "headers" /\ ReadMore(b)
    BY <2>2, ReadMoreKeepsSize DEF Kept, InPlace
  <2>3. QED BY <1>2, <2>1, <2>2 DEF ProcessInput
<1>3. CASE p = "headers" /\ EndLengths(b) # {}
  <2> DEFINE end == FoundHeader(b)
             i   == HeaderOf(ByteAt(b, end - 1))
             status == ParseStatus(i, end)
  <2>1. /\ i = Answered + 1 /\ end = stream.reqs[Answered + 1].hdr
    BY <1>3, FoundIsNext DEF Ready, History, Answered
  <2>2. CASE Fail(b, status)
    BY <1>1, <2>2
  <2>3. CASE status = 0 /\ AwaitBody(b, end, Parsed(b, end))
    <3>1. BodyOK(Parsed(b, end), end) /\ end \in 1 .. Unconsumed(b)
      BY <1>3, <2>3, ParsedIsOK DEF Ready
    <3>2. IsNext(Parsed(b, end), end)
      BY <2>1, <3>1 DEF IsNext, Parsed
    <3>3. AtOrigin(b, Parsed(b, end), end)
      <4> HIDE DEF end
      <4>1. QED BY <3>1 DEF AtOrigin, Parsed
    <3>4. QED BY <2>3, <3>2, <3>3, AwaitBodyViews
  <2>4. QED BY <1>3, <2>2, <2>3 DEF ProcessInput
<1>4. CASE p = "body"
  BY <1>4, AwaitBodyViews DEF ProcessInput
<1>5. QED BY <1>2, <1>3, <1>4

LEMMA ViewsStep == Views /\ [Next]_vars => Views'
<1> SUFFICES ASSUME Views, [Next]_vars PROVE Views'
  OBVIOUS
<1>0. Order /\ Order' /\ Data /\ Control
  BY OrderStep DEF Views, Order, Data
<1>1. CASE OnClosed \/ OnReadFailed \/ OnLastWrite
  <2>1. phase' = "closed" /\ buf' = buf
    BY <1>1 DEF OnClosed, OnReadFailed, OnLastWrite, Close
  <2>2. QED BY <1>0, <2>1 DEF Views, InPlace
<1>2. CASE OnRead
  <2> DEFINE b == [buf EXCEPT !.write = buf.write + result.bytes]
  <2>1. /\ Ready(b) /\ ProcessInput(b, phase, headerSize, request)
        /\ phase \in {"headers", "body"} /\ ~crashed
        /\ phase = "body" => IsNext(request, headerSize)
    BY <1>0, <1>2, ReadIsReady
  <2>2. result.bytes \in Nat /\ IsBuffer(buf)
    BY <1>0 DEF Data
  <2>3. /\ b.size = buf.size /\ b.read = buf.read /\ b.gen = buf.gen
        /\ b.write = buf.write + result.bytes
    BY <2>2 DEF IsBuffer
  <2>4. phase = "body" => AtOrigin(b, request, headerSize)
    <3> SUFFICES ASSUME phase = "body", Fits(request, headerSize), request.base = 0
                 PROVE  b.read = 0 /\ request.gen = b.gen /\ headerSize <= Unconsumed(b)
      BY DEF AtOrigin
    <3>1. buf.read = 0 /\ request.gen = buf.gen /\ headerSize <= Unconsumed(buf)
      BY <2>1 DEF Views, InPlace, AtOrigin
    <3>2. headerSize \in Nat
      BY <2>1, LimitTypes DEF IsNext, BodyOK
    <3> HIDE DEF b
    <3>3. QED BY <2>2, <2>3, <3>1, <3>2 DEF Unconsumed, IsBuffer
  <2>5. b.size >= BufferSize
    BY <2>3 DEF Views
  <2> HIDE DEF b
  <2>6. QED BY <1>0, <2>1, <2>4, <2>5, ProcessInputViews DEF Views, Kept
<1>3. CASE OnWrite
  <2>1. /\ Ready(buf) /\ buf.size >= BufferSize
        /\ \/ ProcessInput(buf, "headers", 0, NoRequest)
           \/ phase' = "headers" /\ ReadMore(buf)
    BY <1>0, <1>3, WriteIsReady DEF Views
  <2>2. CASE ProcessInput(buf, "headers", 0, NoRequest)
    <3>1. "headers" \in {"headers", "body"} /\ "headers" # "body"
      OBVIOUS
    <3>2. QED BY <1>0, <2>1, <2>2, <3>1, ProcessInputViews DEF Views, Kept
  <2>3. CASE phase' = "headers" /\ ReadMore(buf)
    BY <1>0, <2>1, <2>3, ReadMoreKeepsSize DEF Views, InPlace
  <2>4. QED BY <2>1, <2>2, <2>3
<1>4. CASE ReceiveSome
  <2>1. PICK n \in 1 .. target.len : Receive(n)
    BY <1>4 DEF ReceiveSome
  <2>2. /\ buf'.size = buf.size /\ buf'.gen = buf.gen
        /\ buf'.read = buf.read /\ buf'.write = buf.write
    BY <1>0, <2>1 DEF Receive, Store, Data, IsBuffer
  <2>3. ~crashed /\ UNCHANGED <<phase, headerSize, request, crashed, stream>>
    BY <2>1 DEF Receive, Completes
  <2>4. QED BY <1>0, <2>2, <2>3 DEF Views, InPlace, AtOrigin, Fits, ContentLength, Unconsumed
<1>5. ASSUME UNCHANGED <<buf, headerSize, request, crashed, stream>>,
             phase' = phase \/ phase' = "closed"
      PROVE  Views'
  BY <1>0, <1>5 DEF Views, InPlace, AtOrigin, Fits, ContentLength, Unconsumed, ViewsIntact
<1>6. CASE \E force \in BOOLEAN : Stop(force)
  BY <1>5, <1>6 DEF Stop, Close
<1>7. CASE ReadFails \/ Sent \/ WriteFails \/ UNCHANGED vars
  BY <1>5, <1>7 DEF ReadFails, Sent, WriteFails, vars, conn
<1>8. QED
  BY <1>1, <1>2, <1>3, <1>4, <1>6, <1>7 DEF Next, Callbacks

LEMMA ViewsInit == Init => Views
<1> SUFFICES ASSUME Init PROVE Views
  OBVIOUS
<1>1. Order
  BY OrderInit
<1>2. buf.size = BufferSize /\ phase = "headers" /\ BufferSize \in Nat
  BY BufferAssumption DEF Init, NewBuffer
<1>3. QED BY <1>1, <1>2 DEF Views, InPlace

\* A request that fits into the initial buffer and whose header block was found
\* at the front of it keeps valid views until it is served, for all limits,
\* every stream and every fragmentation of it.
THEOREM ViewsStayAtOrigin == Spec => []ViewsIntactAtOrigin
<1>1. ASSUME Views PROVE ViewsIntactAtOrigin
  <2> SUFFICES ASSUME Fits(request, headerSize), phase = "body", request.base = 0
               PROVE  ViewsIntact(buf, request)
    BY DEF ViewsIntactAtOrigin, Fits
  <2>1. CASE crashed
    BY <1>1, <2>1 DEF Views, InPlace
  <2>2. CASE ~crashed
    <3>1. /\ Data /\ Position /\ AtOrigin(buf, request, headerSize)
          /\ BodyOK(request, headerSize)
      BY <1>1, <2>2 DEF Views, InPlace, Order, Continuing, Data
    <3>2. Unconsumed(buf) \in Nat /\ Arrived \in Nat /\ received \in Nat
      BY <3>1 DEF Data, IsBuffer, Unconsumed, Arrived
    <3>3. ASSUME NEW k \in 0 .. Unconsumed(buf) - 1
          PROVE  ByteAt(buf, k) = stream.start[request.idx] + k
      <4>1. k \in 0 .. Unconsumed(buf) + Arrived - 1
        BY <3>2
      <4>2. ByteAt(buf, k) = received - (Unconsumed(buf) + Arrived) + k
        BY <3>1, <4>1 DEF Data, WindowIsStream
      <4>3. (received - Arrived) - Unconsumed(buf) = stream.start[request.idx]
        BY <3>1 DEF Position
      <4>4. QED BY <3>2, <4>2, <4>3
    <3>4. /\ stream \in Streams /\ request.idx \in 1 .. Len(stream.reqs)
          /\ headerSize = stream.reqs[request.idx].hdr
      BY <3>1 DEF Data, BodyOK, Position
    <3>5. QED BY <3>1, <3>2, <3>3, <3>4, OriginIsIntact
  <2>3. QED BY <2>1, <2>2
<1>2. QED BY <1>1, ViewsInit, ViewsStep, PTL DEF Spec

-----------------------------------------------------------------------------
(* Framing.  A body the client does not expect follows the header block of *)
(* a 204 or 304 response that was given one, and of a refused HEAD request.*)
(* The second announces the close, and LastIsLast makes it the last one;   *)
(* the first is what BodilessAreEmpty excludes.                            *)

BodilessAreEmpty ==
  \A reply \in Replies :
    Bodiless(Dispatched(reply).status) => Dispatched(reply).body = 0

Framed(res) == res.close \/ res.sent = Expected(res)

\* A step that appends nothing, or a response a client can frame.
AppendsFramed ==
  \/ responses' = responses
  \/ \E res \in Responses : Framed(res) /\ responses' = Append(responses, res)

LEMMA FailFramed ==
  ASSUME NEW b, NEW status \in Nat, Fail(b, status)
  PROVE  AppendsFramed
<1>1. responses' = Append(responses, Refusal(b, status))
  BY DEF Fail, Write
<1>2. Framed(Refusal(b, status)) /\ Refusal(b, status) \in Responses
  BY RefusalType DEF Refusal, Framed
<1>3. QED BY <1>1, <1>2 DEF AppendsFramed

LEMMA AwaitBodyFramed ==
  ASSUME BodilessAreEmpty, NEW b, Ready(b), NEW r, NEW h, IsNext(r, h), AwaitBody(b, h, r)
  PROVE  AppendsFramed
<1>1. CASE ReadMore(b)
  BY <1>1 DEF ReadMore, AppendsFramed
<1>2. CASE Unconsumed(b) >= SizeSum(h, ContentLength(r)) /\ Serve(b, h, r)
  <2>1. \/ responses' = responses
        \/ \E reply \in Replies, close \in BOOLEAN :
             responses' = Append(responses, Served(b, h, r, reply, close))
    <3> DEFINE close == ~Counted(stream.reqs[r.idx])
                        \/ BudgetSpent(IF Counted(stream.reqs[r.idx]) THEN requests + 1 ELSE requests)
    <3>1. close \in BOOLEAN
      BY DEF Counted, BudgetSpent
    <3>2. \/ responses' = responses
          \/ \E reply \in Replies : responses' = Append(responses, Served(b, h, r, reply, close))
      BY <1>2, Zenon DEF Serve, Write
    <3> HIDE DEF close
    <3>3. QED BY <3>1, <3>2
  <2>2. ASSUME NEW reply \in Replies, NEW close \in BOOLEAN
        PROVE  Served(b, h, r, reply, close) \in Responses /\ Framed(Served(b, h, r, reply, close))
    <3> DEFINE q == stream.reqs[r.idx]
               d == Dispatched(reply)
               s == Served(b, h, r, reply, close)
    <3>1. s \in Responses
      <4>1. Unconsumed(b) >= h + q.body
        <5>1. BodyOK(r, h) /\ stream \in Streams
          BY DEF IsNext, Ready
        <5>2. /\ h \in Nat /\ h <= MaxHeaderBytes /\ r.idx # 0
              /\ q.body \in Nat /\ q.body <= MaxBodyBytes
          BY <5>1, StreamFacts, LimitTypes DEF BodyOK
        <5>3. QED BY <1>2, <5>2, SizesAdd DEF ContentLength
      <4>2. QED BY <4>1, ServedType
    <3>2. /\ s.head = q.head /\ s.status = d.status /\ s.declared = Declared(d)
          /\ s.sent = PayloadSize(q, d)
      BY Zenon DEF Served
    <3>3. Bodiless(d.status) => d.body = 0
      BY DEF BodilessAreEmpty
    <3> HIDE DEF q, d, s
    <3>4. Framed(s)
      BY <3>2, <3>3 DEF Framed, Expected, Declared, PayloadSize
    <3>5. QED BY <3>1, <3>4 DEF s
  <2>3. QED BY <2>1, <2>2, Zenon DEF AppendsFramed
<1>3. QED BY <1>1, <1>2 DEF AwaitBody

LEMMA ProcessInputFramed ==
  ASSUME BodilessAreEmpty,
         NEW b, Ready(b), NEW p \in {"headers", "body"}, NEW h, NEW r,
         p = "body" => IsNext(r, h), ProcessInput(b, p, h, r)
  PROVE  AppendsFramed
<1>1. CASE p = "headers" /\ EndLengths(b) = {}
  <2>1. CASE Fail(b, 431)
    BY <2>1, FailFramed
  <2>2. CASE ReadMore(b)
    BY <2>2 DEF ReadMore, AppendsFramed
  <2>3. QED BY <1>1, <2>1, <2>2 DEF ProcessInput
<1>2. CASE p = "headers" /\ EndLengths(b) # {}
  <2> DEFINE end == FoundHeader(b)
             i   == HeaderOf(ByteAt(b, end - 1))
             status == ParseStatus(i, end)
  <2>1. /\ Answered + 1 \in 1 .. Len(stream.reqs) /\ stream \in Streams
        /\ i = Answered + 1 /\ end = stream.reqs[Answered + 1].hdr
    BY <1>2, FoundIsNext DEF Ready, History, Answered
  <2>2. CASE status # 0 /\ Fail(b, status)
    <3>1. status \in Nat
      BY <2>1, ParseStatusType
    <3>2. QED BY <2>2, <3>1, FailFramed
  <2>3. CASE status = 0 /\ AwaitBody(b, end, Parsed(b, end))
    <3>1. BodyOK(Parsed(b, end), end)
      BY <1>2, <2>3, ParsedIsOK DEF Ready
    <3>2. IsNext(Parsed(b, end), end)
      BY <2>1, <3>1 DEF IsNext, Parsed
    <3>3. QED BY <2>3, <3>2, AwaitBodyFramed
  <2>4. QED BY <1>2, <2>2, <2>3 DEF ProcessInput
<1>3. CASE p = "body"
  BY <1>3, AwaitBodyFramed DEF ProcessInput
<1>4. QED BY <1>1, <1>2, <1>3

LEMMA StepAppendsFramed ==
  ASSUME BodilessAreEmpty, Order, [Next]_vars
  PROVE  AppendsFramed
<1>1. CASE OnRead
  <2>1. PICK b : /\ Ready(b) /\ ProcessInput(b, phase, headerSize, request)
                 /\ phase \in {"headers", "body"}
                 /\ phase = "body" => IsNext(request, headerSize)
    BY <1>1, ReadIsReady
  <2>2. QED BY <2>1, ProcessInputFramed
<1>2. CASE OnWrite
  <2>1. /\ Ready(buf)
        /\ \/ ProcessInput(buf, "headers", 0, NoRequest)
           \/ ReadMore(buf)
    BY <1>2, WriteIsReady
  <2>2. CASE ProcessInput(buf, "headers", 0, NoRequest)
    <3>1. "headers" \in {"headers", "body"} /\ "headers" # "body"
      OBVIOUS
    <3>2. QED BY <2>1, <2>2, <3>1, ProcessInputFramed
  <2>3. CASE ReadMore(buf)
    BY <2>3 DEF ReadMore, AppendsFramed
  <2>4. QED BY <2>1, <2>2, <2>3
<1>3. ASSUME responses' = responses PROVE AppendsFramed
  BY <1>3 DEF AppendsFramed
<1>4. CASE OnClosed \/ OnReadFailed \/ OnLastWrite
  BY <1>3, <1>4 DEF OnClosed, OnReadFailed, OnLastWrite
<1>5. CASE (\E force \in BOOLEAN : Stop(force)) \/ ReceiveSome
  BY <1>3, <1>5 DEF Stop, ReceiveSome, Receive
<1>6. CASE ReadFails \/ Sent \/ WriteFails \/ UNCHANGED vars
  BY <1>3, <1>6 DEF ReadFails, Sent, WriteFails, vars
<1>7. QED BY <1>1, <1>2, <1>4, <1>5, <1>6 DEF Next, Callbacks

\* Every response but the last of a connection carries the body its header
\* block lets the client expect, for every application that gives 204 and 304
\* no body, so that the next response is found where the client looks for it.
\* Only a response that announces the close may carry another body.
THEOREM ResponsesAreFramed ==
  BodilessAreEmpty /\ Spec => []NextResponseIsFound
<1> SUFFICES ASSUME BodilessAreEmpty PROVE Spec => []NextResponseIsFound
  OBVIOUS
<1> DEFINE AllFramed == \A i \in 1 .. Len(responses) : Framed(responses[i])
<1>1. Init => AllFramed
  BY DEF Init
<1>2. ASSUME Order, AllFramed, [Next]_vars
      PROVE  AllFramed'
  <2>1. AppendsFramed /\ responses \in Seq(Responses)
    BY <1>2, StepAppendsFramed DEF Order, History
  <2>2. CASE responses' = responses
    BY <1>2, <2>2 DEF Framed, Expected
  <2>3. CASE \E res \in Responses : Framed(res) /\ responses' = Append(responses, res)
    <3>1. PICK res \in Responses : Framed(res) /\ responses' = Append(responses, res)
      BY <2>3
    <3>2. ASSUME NEW i \in 1 .. Len(responses')
          PROVE  responses'[i] = res \/ (i \in 1 .. Len(responses) /\ responses'[i] = responses[i])
      BY <2>1, <3>1
    <3>3. QED BY <1>2, <3>1, <3>2 DEF Framed, Expected
  <2>4. QED BY <2>1, <2>2, <2>3 DEF AppendsFramed
<1>3. ASSUME Order, AllFramed
      PROVE  NextResponseIsFound
  <2> SUFFICES ASSUME NEW i \in 1 .. Len(responses), responses[i].sent # Expected(responses[i])
               PROVE  i = Len(responses) /\ responses[i].close
    BY DEF NextResponseIsFound
  <2>1. responses[i].close
    BY <1>3 DEF Framed
  <2>2. QED BY <1>3, <2>1 DEF Order, History, LastIsLast
<1>4. QED BY <1>1, <1>2, <1>3, OrderInvariant, PTL DEF Spec
=============================================================================
