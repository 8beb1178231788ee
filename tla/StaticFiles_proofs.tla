------------------------- MODULE StaticFiles_proofs -------------------------
(***************************************************************************)
(* Requests use their files as any program may: every step of StaticFiles  *)
(* is a step of MappedFile's program or leaves the files alone, so that    *)
(* what is proved of files there holds here, whatever the connections,     *)
(* requests, hooks and exceptions are.  And what hooks build in any        *)
(* sequence of calls is a sound response: the body given last, the same    *)
(* for tests and for clients; framed by the transport alone where fields   *)
(* have no line breaks, and in memory that is mapped where routes view     *)
(* files of the application only.                                          *)
(***************************************************************************)
EXTENDS StaticFiles, MappedFile_proofs

-----------------------------------------------------------------------------
(* A response under construction, and a hook that builds one.              *)

\* A response has the fields of the struct.
HasFields(res) ==
  res = [status |-> res.status, type |-> res.type, headers |-> res.headers,
         bodyType |-> res.bodyType, body |-> res.body, owned |-> res.owned,
         mapped |-> res.mapped]

\* Its three bodies are bodies, and only a mapped one is not the response's.
IsResponse(res) ==
  /\ HasFields(res)
  /\ res.bodyType \in {"Dynamic", "Owned", "Mapped"}
  /\ Bytes(res.body) /\ Bytes(res.owned) /\ Bytes(res.mapped)
  /\ res.body.at = Heap /\ res.owned.at = Heap

\* Texts are bytes on the heap.
LEMMA TextIsBytes ==
  ASSUME NEW text \in Texts, NEW len \in Nat
  PROVE  Bytes(Text(text, len)) /\ Text(text, len).at = Heap
BY DEF Bytes, Text

\* A response with given fields, and what each way to build one assigns.
Fields(status, type, headers, bodyType, body, owned, mapped) ==
  [status |-> status, type |-> type, headers |-> headers, bodyType |-> bodyType,
   body |-> body, owned |-> owned, mapped |-> mapped]

LEMMA Builders ==
  ASSUME NEW s, NEW t, NEW h, NEW k, NEW b, NEW o, NEW m, NEW x, NEW y, NEW r,
         r = Fields(s, t, h, k, b, o, m)
  PROVE  /\ SetHeader(r, x, y) = Fields(s, t, (x :> y) @@ h, k, b, o, m)
         /\ Send(r, x) = Fields(s, t, h, "Dynamic", x, o, m)
         /\ SendTyped(r, x, y) = Fields(s, y, h, "Dynamic", x, o, m)
         /\ SendText(r, x) = Fields(s, "text/plain", h, "Dynamic", x, o, m)
         /\ SendView(r, x, y) = Fields(s, y, h, "Mapped", b, o, x)
         /\ SendOwned(r, x) = Fields(s, t, h, "Owned", b, x, m)
<1>1. SetHeader(r, x, y) = Fields(s, t, (x :> y) @@ h, k, b, o, m)
  BY DEF SetHeader, Fields
<1>2. Send(r, x) = Fields(s, t, h, "Dynamic", x, o, m)
  <2> DEFINE z == [r EXCEPT !.body = x]
  <2>1. Send(r, x) = [z EXCEPT !.bodyType = "Dynamic"]
    BY DEF Send
  <2>2. z = Fields(s, t, h, k, x, o, m)
    BY DEF Fields
  <2> HIDE DEF z
  <2>3. QED BY <2>1, <2>2 DEF Fields
<1>3. \A z : SendTyped(r, x, z) = Fields(s, z, h, "Dynamic", x, o, m)
  BY <1>2 DEF SendTyped, Fields
<1>4. SendView(r, x, y) = Fields(s, y, h, "Mapped", b, o, x)
  <2> DEFINE z == [r EXCEPT !.mapped = x]
             w == [z EXCEPT !.bodyType = "Mapped"]
  <2>1. SendView(r, x, y) = [w EXCEPT !.type = y]
    BY DEF SendView
  <2>2. z = Fields(s, t, h, k, b, o, x)
    BY DEF Fields
  <2> HIDE DEF z
  <2>3. w = Fields(s, t, h, "Mapped", b, o, x)
    BY <2>2 DEF Fields
  <2> HIDE DEF w
  <2>4. QED BY <2>1, <2>3 DEF Fields
<1>5. SendOwned(r, x) = Fields(s, t, h, "Owned", b, x, m)
  <2> DEFINE z == [r EXCEPT !.owned = x]
  <2>1. SendOwned(r, x) = [z EXCEPT !.bodyType = "Owned"]
    BY DEF SendOwned
  <2>2. z = Fields(s, t, h, k, b, x, m)
    BY DEF Fields
  <2> HIDE DEF z
  <2>3. QED BY <2>1, <2>2 DEF Fields
<1>6. QED BY <1>1, <1>2, <1>3, <1>4, <1>5 DEF SendText

\* Status and fields leave the bodies alone.
LEMMA FieldsKeepBody ==
  ASSUME NEW res, IsResponse(res), NEW status, NEW key, NEW val
  PROVE  /\ LET r == SetStatus(res, status)
            IN /\ IsResponse(r) /\ ActiveBody(r) = ActiveBody(res)
               /\ r.mapped = res.mapped /\ r.status = status
         /\ LET r == SetHeader(res, key, val)
            IN /\ IsResponse(r) /\ ActiveBody(r) = ActiveBody(res)
               /\ r.mapped = res.mapped /\ r.status = res.status
<1>1. PICK s, t, h, k, b, o, m : res = Fields(s, t, h, k, b, o, m)
  BY DEF IsResponse, HasFields, Fields
<1>2. SetStatus(res, status) = Fields(status, t, h, k, b, o, m)
  BY <1>1 DEF SetStatus, Fields
<1>3. SetHeader(res, key, val) = Fields(s, t, (key :> val) @@ h, k, b, o, m)
  BY <1>1, Builders
<1>4. QED BY <1>1, <1>2, <1>3 DEF IsResponse, HasFields, Fields, ActiveBody

\* Whichever way a body is given, it is the active one.
LEMMA GivenIsActive ==
  ASSUME NEW res, IsResponse(res), NEW b, Bytes(b), NEW type
  PROVE  /\ LET r == SendView(res, b, type)
            IN IsResponse(r) /\ ActiveBody(r) = b /\ r.mapped = b
         /\ b.at = Heap =>
              /\ LET r == Send(res, b)
                 IN /\ IsResponse(r) /\ ActiveBody(r) = b
                    /\ r.mapped = res.mapped /\ r.status = res.status
              /\ LET r == SendTyped(res, b, type)
                 IN /\ IsResponse(r) /\ ActiveBody(r) = b
                    /\ r.mapped = res.mapped /\ r.status = res.status
              /\ LET r == SendText(res, b)
                 IN /\ IsResponse(r) /\ ActiveBody(r) = b
                    /\ r.mapped = res.mapped /\ r.status = res.status
              /\ LET r == SendOwned(res, b)
                 IN IsResponse(r) /\ ActiveBody(r) = b /\ r.mapped = res.mapped
<1>1. PICK s, t, h, k, d, o, m : res = Fields(s, t, h, k, d, o, m)
  BY DEF IsResponse, HasFields, Fields
<1>2. /\ SendView(res, b, type) = Fields(s, type, h, "Mapped", d, o, b)
      /\ Send(res, b) = Fields(s, t, h, "Dynamic", b, o, m)
      /\ SendTyped(res, b, type) = Fields(s, type, h, "Dynamic", b, o, m)
      /\ SendText(res, b) = Fields(s, "text/plain", h, "Dynamic", b, o, m)
      /\ SendOwned(res, b) = Fields(s, t, h, "Owned", d, b, m)
  BY <1>1, Builders
<1>3. \A z : LET r == Fields(s, z, h, "Mapped", d, o, b)
             IN IsResponse(r) /\ ActiveBody(r) = b /\ r.mapped = b
  BY <1>1 DEF IsResponse, HasFields, Fields, ActiveBody
<1>4. ASSUME b.at = Heap, NEW z
      PROVE  LET r == Fields(s, z, h, "Dynamic", b, o, m)
             IN /\ IsResponse(r) /\ ActiveBody(r) = b
                /\ r.mapped = res.mapped /\ r.status = res.status
  BY <1>1, <1>4 DEF IsResponse, HasFields, Fields, ActiveBody
<1>5. ASSUME b.at = Heap
      PROVE  LET r == Fields(s, t, h, "Owned", d, b, m)
             IN IsResponse(r) /\ ActiveBody(r) = b /\ r.mapped = res.mapped
  BY <1>1, <1>5 DEF IsResponse, HasFields, Fields, ActiveBody
<1>6. QED BY <1>2, <1>3, <1>4, <1>5

\* The states between the calls of a hook: Run's local function exists.
LEMMA RunInSteps ==
  ASSUME NEW e, NEW calls, Len(calls) \in Nat, NEW v
  PROVE  \E after :
           /\ after = [n \in 0 .. Len(calls) |->
                         IF n = 0 THEN e ELSE CallNext(after[n - 1], calls[n], v)]
           /\ Run(e, calls, v) = after[Len(calls)]
<1> DEFINE Goes(g, k) ==
             g = [n \in 0 .. k |->
                    IF n = 0 THEN e ELSE CallNext(g[n - 1], calls[n], v)]
           S == {k \in Nat : \E g : Goes(g, k)}
<1>1. 0 \in S
  <2>1. Goes([n \in 0 .. 0 |-> e], 0)
    OBVIOUS
  <2>2. QED BY <2>1
<1>2. ASSUME NEW k \in Nat, k \in S PROVE k + 1 \in S
  <2>1. PICK g : Goes(g, k)
    BY <1>2
  <2> DEFINE h == [n \in 0 .. k + 1 |->
                     IF n = k + 1 THEN CallNext(g[k], calls[n], v) ELSE g[n]]
  <2>2. Goes(h, k + 1)
    <3> SUFFICES ASSUME NEW n \in 0 .. k + 1
                 PROVE  h[n] = IF n = 0 THEN e ELSE CallNext(h[n - 1], calls[n], v)
      OBVIOUS
    <3>1. CASE n = k + 1
      BY <3>1
    <3>2. CASE n # k + 1
      <4>1. n \in 0 .. k
        BY <3>2
      <4>2. g[n] = IF n = 0 THEN e ELSE CallNext(g[n - 1], calls[n], v)
        BY <2>1, <4>1
      <4>3. n # 0 => n - 1 \in 0 .. k + 1 /\ n - 1 # k + 1
        BY <4>1
      <4>4. QED BY <3>2, <4>2, <4>3
    <3>3. QED BY <3>1, <3>2
  <2>3. QED
    <3> HIDE DEF h, Goes
    <3> QED BY <2>2
<1>3. Nat \subseteq S
  <2> HIDE DEF S
  <2> QED BY <1>1, <1>2, AllNumbers
<1>4. \E g : Goes(g, Len(calls))
  BY <1>3
<1>5. QED BY <1>4 DEF Run

\* What a hook has done so far: the response is one, its active body is the one
\* given last, and its mapped body is the one it had, m, or the file's view, v.
Built(e, m, v) ==
  /\ e = [res |-> e.res, given |-> e.given, threw |-> e.threw]
  /\ e.threw \in BOOLEAN
  /\ IsResponse(e.res) /\ Bytes(e.given) /\ ActiveBody(e.res) = e.given
  /\ e.res.mapped \in {m, v}

\* The calls that give a view of the route's file as the body.
ViewCalls == {"GetHtml", "ServeFile"}

\* Giving a body to a response that has it.
LEMMA GivenIsBuilt ==
  ASSUME NEW e, NEW m, NEW v, Built(e, m, v), NEW b, Bytes(b), NEW r,
         IsResponse(r), ActiveBody(r) = b, r.mapped \in {m, v}
  PROVE  Built(Give(e, b, r), m, v) /\ Give(e, b, r).res = r
<1>1. PICK x, y, z : e = [res |-> x, given |-> y, threw |-> z]
  BY DEF Built
<1> DEFINE w == [e EXCEPT !.res = r]
<1>2. Give(e, b, r) = [w EXCEPT !.given = b]
  BY DEF Give
<1>3. w = [res |-> r, given |-> y, threw |-> z]
  BY <1>1
<1> HIDE DEF w
<1>4. Give(e, b, r) = [res |-> r, given |-> b, threw |-> z]
  BY <1>2, <1>3
<1>5. z \in BOOLEAN
  BY <1>1 DEF Built
<1>6. QED BY <1>4, <1>5 DEF Built

\* Every call of a hook keeps that, and only some of them touch the mapped body.
LEMMA CallBuilds ==
  ASSUME NEW e, NEW m, NEW v, Built(e, m, v), Bytes(v),
         NEW call, call.op \in Operations
  PROVE  LET n == Call(e, call, v)
         IN /\ Built(n, m, v)
            /\ call.op \notin ViewCalls => n.res.mapped = e.res.mapped
<1> DEFINE n == Call(e, call, v)
           text == AppText(call.op)
<1> SUFFICES Built(n, m, v) /\ (call.op \notin ViewCalls => n.res.mapped = e.res.mapped)
  OBVIOUS
<1>1. /\ IsResponse(e.res) /\ e.res.mapped \in {m, v} /\ Bytes(e.given)
      /\ ActiveBody(e.res) = e.given
  BY DEF Built
<1>2. Bytes(text) /\ text.at = Heap
  BY TextIsBytes DEF AppText, Texts
<1>3. ASSUME NEW status
      PROVE  /\ IsResponse(SetStatus(e.res, status))
             /\ SetStatus(e.res, status).mapped = e.res.mapped
  BY <1>1, FieldsKeepBody
<1>4. CASE call.op = "throw"
  <2>1. n = [e EXCEPT !.threw = TRUE]
    BY <1>4 DEF Call
  <2>2. PICK x, y, z : e = [res |-> x, given |-> y, threw |-> z]
    BY DEF Built
  <2>3. n = [res |-> x, given |-> y, threw |-> TRUE]
    BY <2>1, <2>2
  <2> HIDE DEF n
  <2>4. QED BY <1>1, <2>2, <2>3 DEF Built
<1>5. ASSUME NEW r, IsResponse(r), r.mapped = e.res.mapped,
             ActiveBody(r) = ActiveBody(e.res), n = [e EXCEPT !.res = r]
      PROVE  Built(n, m, v) /\ n.res.mapped = e.res.mapped
  <2>1. PICK x, y, z : e = [res |-> x, given |-> y, threw |-> z]
    BY DEF Built
  <2> HIDE DEF n
  <2>2. n = [res |-> r, given |-> y, threw |-> z]
    BY <1>5, <2>1
  <2>3. z \in BOOLEAN /\ y = e.given
    BY <2>1 DEF Built
  <2>4. QED BY <1>1, <1>5, <2>2, <2>3 DEF Built
<1>6. CASE call.op = "status"
  <2>1. n = [e EXCEPT !.res = SetStatus(e.res, call.status)]
    BY <1>6 DEF Call
  <2>2. ActiveBody(SetStatus(e.res, call.status)) = ActiveBody(e.res)
    BY <1>1, FieldsKeepBody
  <2> HIDE DEF n
  <2>3. QED BY <1>3, <1>5, <2>1, <2>2
<1>7. CASE call.op = "header"
  <2> DEFINE r == SetHeader(e.res, call.key, call.val)
  <2>1. n = [e EXCEPT !.res = r]
    BY <1>7 DEF Call
  <2>2. /\ IsResponse(r) /\ r.mapped = e.res.mapped
        /\ ActiveBody(r) = ActiveBody(e.res)
    BY <1>1, FieldsKeepBody
  <2> HIDE DEF n, r
  <2>3. QED BY <1>5, <2>1, <2>2
<1>8. ASSUME NEW b, NEW r, Bytes(b), IsResponse(r), ActiveBody(r) = b,
             r.mapped = e.res.mapped, n = Give(e, b, r)
      PROVE  Built(n, m, v) /\ n.res.mapped = e.res.mapped
  <2> HIDE DEF n
  <2>1. QED BY <1>1, <1>8, GivenIsBuilt
<1>9. CASE call.op \in {"text", "send", "owned"}
  <2>1. \E r : /\ n = Give(e, text, r) /\ IsResponse(r) /\ ActiveBody(r) = text
               /\ r.mapped = e.res.mapped
    <3>1. CASE call.op = "text"
      <4>1. n = Give(e, text, SendText(e.res, text))
        BY <3>1 DEF Call
      <4> HIDE DEF n, text
      <4>2. QED BY <1>1, <1>2, <4>1, GivenIsActive
    <3>2. CASE call.op = "send"
      <4>1. n = Give(e, text, Send(e.res, text))
        BY <3>2 DEF Call
      <4> HIDE DEF n, text
      <4>2. QED BY <1>1, <1>2, <4>1, GivenIsActive
    <3>3. CASE call.op = "owned"
      <4>1. n = Give(e, text, SendOwned(e.res, text))
        BY <3>3 DEF Call
      <4> HIDE DEF n, text
      <4>2. QED BY <1>1, <1>2, <4>1, GivenIsActive
    <3>4. QED BY <1>9, <3>1, <3>2, <3>3
  <2> HIDE DEF n, text
  <2>2. QED BY <1>2, <1>8, <2>1
<1>10. ASSUME n = Give(e, v, SendView(SetStatus(e.res, 200), v, "text/html"))
       PROVE  Built(n, m, v)
  <2> HIDE DEF n
  <2> DEFINE r == SendView(SetStatus(e.res, 200), v, "text/html")
  <2>1. IsResponse(r) /\ ActiveBody(r) = v /\ r.mapped = v
    BY <1>3, GivenIsActive
  <2> HIDE DEF r
  <2>2. Built(Give(e, v, r), m, v)
    BY <2>1, GivenIsBuilt
  <2>3. QED BY <1>10, <2>2 DEF r
<1>11. CASE call.op = "GetHtml"
  <2>1. n = GetHtml(e, v)
    BY <1>11 DEF Call
  <2>2. CASE v.len = 0
    <3> DEFINE missing == AppText("index.html not found")
               r == SendText(SetStatus(e.res, 500), missing)
    <3>1. Bytes(missing) /\ missing.at = Heap
      BY TextIsBytes DEF AppText, Texts
    <3>2. n = Give(e, missing, r)
      BY <2>1, <2>2 DEF GetHtml
    <3> HIDE DEF missing, n
    <3>3. IsResponse(r) /\ ActiveBody(r) = missing /\ r.mapped = e.res.mapped
      BY <1>3, <3>1, GivenIsActive
    <3> HIDE DEF r
    <3>4. QED BY <1>8, <1>11, <3>1, <3>2, <3>3 DEF ViewCalls
  <2>3. CASE v.len # 0
    <3>1. n = Give(e, v, SendView(SetStatus(e.res, 200), v, "text/html"))
      BY <2>1, <2>3 DEF GetHtml
    <3> HIDE DEF n
    <3>2. QED BY <1>10, <1>11, <3>1 DEF ViewCalls
  <2>4. QED BY <2>2, <2>3
<1>12. CASE call.op = "GetCss"
  <2> DEFINE css == Key("content-type", "Content-Type")
             copy == Text(v.text, v.len)
             a == SetStatus(e.res, 200)
             b == SetHeader(a, css, Value("text/css"))
             r == Send(b, copy)
  <2>1. n = Give(e, copy, r)
    BY <1>12 DEF Call, GetCss
  <2>2. Bytes(copy) /\ copy.at = Heap
    BY TextIsBytes DEF Bytes
  <2>3. IsResponse(a) /\ a.mapped = e.res.mapped
    BY <1>3
  <2> HIDE DEF a, n, copy
  <2>4. IsResponse(b) /\ b.mapped = e.res.mapped
    BY <2>3, FieldsKeepBody
  <2> HIDE DEF b
  <2>5. IsResponse(r) /\ ActiveBody(r) = copy /\ r.mapped = e.res.mapped
    BY <2>2, <2>4, GivenIsActive
  <2> HIDE DEF r
  <2>6. QED BY <1>8, <2>1, <2>2, <2>5
<1>13. CASE call.op = "GetHello"
  <2> DEFINE json == AppText("hello")
             r == SendTyped(SetStatus(e.res, 200), json, "application/json")
  <2>1. n = Give(e, json, r)
    BY <1>13 DEF Call, GetHello
  <2>2. Bytes(json) /\ json.at = Heap
    BY TextIsBytes DEF AppText, Texts
  <2> HIDE DEF n, json
  <2>3. IsResponse(r) /\ ActiveBody(r) = json /\ r.mapped = e.res.mapped
    BY <1>3, <2>2, GivenIsActive
  <2> HIDE DEF r
  <2>4. QED BY <1>8, <2>1, <2>2, <2>3
<1>14. CASE call.op = "ServeFile"
  <2>1. n = Give(e, v, SendView(SetStatus(e.res, 200), v, "text/html"))
    BY <1>14 DEF Call
  <2> HIDE DEF n
  <2>2. QED BY <1>10, <1>14, <2>1 DEF ViewCalls
<1>15. call.op = "throw" => n.res.mapped = e.res.mapped
  <2> SUFFICES ASSUME call.op = "throw" PROVE n.res.mapped = e.res.mapped
    OBVIOUS
  <2>1. n = [e EXCEPT !.threw = TRUE]
    BY DEF Call
  <2>2. PICK x, y, z : e = [res |-> x, given |-> y, threw |-> z]
    BY DEF Built
  <2> HIDE DEF n
  <2>3. n = [res |-> x, given |-> y, threw |-> TRUE]
    BY <2>1, <2>2
  <2>4. QED BY <2>2, <2>3
<1> HIDE DEF n
<1>16. QED
  BY <1>4, <1>6, <1>7, <1>9, <1>11, <1>12, <1>13, <1>14, <1>15 DEF Operations

\* and so does the whole hook.
LEMMA RunBuilds ==
  ASSUME NEW e, NEW m, NEW v, Built(e, m, v), Bytes(v), NEW calls, IsHook(calls)
  PROVE  LET n == Run(e, calls, v)
         IN /\ Built(n, m, v)
            /\ (\A i \in 1 .. Len(calls) : calls[i].op \notin ViewCalls) =>
                  n.res.mapped = e.res.mapped
<1> DEFINE Viewless == \A i \in 1 .. Len(calls) : calls[i].op \notin ViewCalls
           Good(x) == Built(x, m, v) /\ (Viewless => x.res.mapped = e.res.mapped)
           L == Len(calls)
<1>1. L \in Nat /\ \A i \in 1 .. L : calls[i].op \in Operations
  BY DEF IsHook
<1>2. PICK after :
        /\ after = [n \in 0 .. L |->
                      IF n = 0 THEN e ELSE CallNext(after[n - 1], calls[n], v)]
        /\ Run(e, calls, v) = after[L]
  BY <1>1, RunInSteps
<1>3. /\ after[0] = e
      /\ \A n \in 0 .. L : n # L => after[n + 1] = CallNext(after[n], calls[n + 1], v)
  <2> HIDE DEF L
  <2>1. ASSUME NEW n \in 0 .. L, n # L
        PROVE  after[n + 1] = CallNext(after[n], calls[n + 1], v)
    <3>1. n + 1 \in 0 .. L /\ n + 1 # 0 /\ (n + 1) - 1 = n
      BY <1>1, <2>1
    <3>2. QED BY <1>2, <3>1
  <2>2. QED BY <1>1, <1>2, <2>1
<1> DEFINE S == {n \in 0 .. L : Good(after[n])}
<1>4. 0 \in S
  BY <1>1, <1>3
<1>5. ASSUME NEW n \in 0 .. L, n # L, n \in S PROVE n + 1 \in S
  <2> DEFINE call == calls[n + 1]
             x == after[n]
  <2>1. after[n + 1] = CallNext(x, call, v)
    BY <1>3, <1>5
  <2>2. n + 1 \in 1 .. L /\ n + 1 \in 0 .. L
    BY <1>1, <1>5
  <2>3. Good(x) /\ call.op \in Operations
    BY <1>1, <1>5, <2>2
  <2>4. Built(Call(x, call, v), m, v)
        /\ (call.op \notin ViewCalls => Call(x, call, v).res.mapped = x.res.mapped)
    <3> HIDE DEF x, call
    <3> QED BY <2>3, CallBuilds
  <2>5. Viewless => call.op \notin ViewCalls
    BY <2>2
  <2>6. Good(CallNext(x, call, v))
    <3> HIDE DEF x, call, Viewless
    <3> QED BY <2>3, <2>4, <2>5 DEF CallNext
  <2>7. QED
    <3> HIDE DEF Good
    <3> QED BY <2>1, <2>2, <2>6
<1>6. 0 .. L \subseteq S
  <2> HIDE DEF S, L
  <2> QED BY <1>1, <1>4, <1>5, UpTo
<1>7. Good(after[L])
  <2> HIDE DEF Good
  <2> QED BY <1>1, <1>6
<1>8. QED BY <1>2, <1>7

-----------------------------------------------------------------------------
(* The files.                                                              *)

\* A connection's route is that of a request, or none.
RequestRoutes == {q.route : q \in Requests} \cup {NoRoute}
Routed == route \in [Conns -> RequestRoutes]

LEMMA RoutedAlways == Spec => []Routed
<1>1. Init => Routed
  BY DEF Init, Routed, RequestRoutes
<1>2. Routed /\ [Next]_vars => Routed'
  <2> SUFFICES ASSUME Routed, [Next]_vars PROVE Routed'
    OBVIOUS
  <2>1. ASSUME NEW c \in Conns, Begin(c) PROVE Routed'
    <3>1. PICK q \in Requests : route' = [route EXCEPT ![c] = q.route]
      BY <2>1 DEF Begin
    <3>2. q.route \in RequestRoutes
      BY DEF RequestRoutes
    <3>3. QED BY <3>1, <3>2 DEF Routed
  <2>2. ASSUME NEW c \in Conns, Written(c) PROVE Routed'
    <3>1. NoRoute \in RequestRoutes
      BY DEF RequestRoutes
    <3>2. QED BY <2>2, <3>1 DEF Written, Routed
  <2>3. CASE UNCHANGED route
    BY <2>3 DEF Routed
  <2>4. ASSUME NEW c \in Conns,
               \/ Before(c) \/ Handle(c) \/ After(c) \/ Return(c)
               \/ NotFound(c) \/ Write(c) \/ WriteThrows(c)
        PROVE  UNCHANGED route
    BY <2>4 DEF Before, Handle, After, HookRuns, Return, NotFound, Write,
                WriteThrows, exchange
  <2>5. Housekeeping => UNCHANGED route
    BY DEF Housekeeping, exchange
  <2>6. UNCHANGED vars => UNCHANGED route
    BY DEF vars, exchange
  <2>7. QED
    BY <2>1, <2>2, <2>3, <2>4, <2>5, <2>6 DEF Next, Exchange
<1>3. QED BY <1>1, <1>2, PTL DEF Spec

\* Every step of a request, and of the application, is one of MappedFile's.
LEMMA StepIsFileStep == Routed /\ [Next]_vars => [FileNext]_fs
<1> SUFFICES ASSUME Routed, [Next]_vars PROVE [FileNext]_fs
  OBVIOUS
<1>1. ASSUME NEW o \in Objects, NEW p \in Paths, FileAcquire(o, p)
      PROVE  FileNext
  BY <1>1 DEF FileNext
<1>2. ASSUME NEW c \in Conns PROVE c \in Objects
  BY <1>2, RequestAssumption
<1>3. ASSUME NEW c \in Conns, Begin(c) PROVE [FileNext]_fs
  <2>1. PICK q \in Requests :
          IF q.route.owner = "member" THEN FileAcquire(c, q.route.path)
                                      ELSE UNCHANGED fs
    BY <1>3 DEF Begin
  <2>2. q.route.owner = "member" => q.route.path \in Paths
    BY RequestAssumption
  <2>3. QED BY <1>1, <1>2, <2>1, <2>2
<1>4. ASSUME NEW c \in Conns, Handle(c) PROVE [FileNext]_fs
  <2> DEFINE r == route[c]
  <2>1. r.owner = "shared" => r.file \in Objects /\ r.path \in Paths
    <3>1. r = NoRoute \/ \E q \in Requests : r = q.route
      BY DEF Routed, RequestRoutes
    <3>2. NoRoute.owner # "shared"
      BY DEF NoRoute
    <3>3. QED BY <3>1, <3>2, RequestAssumption
  <2>2. (r.owner = "shared" /\ FileAcquire(r.file, r.path)) \/ UNCHANGED fs
    BY <1>4 DEF Handle
  <2>3. QED BY <1>1, <2>1, <2>2
<1>5. ASSUME NEW c \in Conns, Return(c) PROVE [FileNext]_fs
  BY <1>2, <1>5 DEF Return, FileNext
<1>6. CASE Housekeeping
  BY <1>6 DEF Housekeeping, Files, FileNext
<1>7. ASSUME NEW c \in Conns,
             \/ Before(c) \/ After(c) \/ NotFound(c)
             \/ Write(c) \/ WriteThrows(c) \/ Written(c)
      PROVE  UNCHANGED fs
  BY <1>7 DEF Before, After, NotFound, Write, WriteThrows, Written
<1>8. UNCHANGED vars => UNCHANGED fs
  BY DEF vars
<1>9. QED
  BY <1>3, <1>4, <1>5, <1>6, <1>7, <1>8 DEF Next, Exchange

\* The server's requests and the application together are a program that uses
\* files as MappedFile's interface allows (RouteBase.h:16-25, README.md:247-255).
THEOREM RequestsUseFiles == Spec => FileSpec
<1>1. Init => FileInit
  BY DEF Init
<1>2. QED BY <1>1, RoutedAlways, StepIsFileStep, PTL DEF Spec, FileSpec

\* Whatever routes do, nobody's descriptor or mapping is released by another
\* (src/FileHandle.cpp).
THEOREM RequestsKeepFilesOpen == Spec => []HeldIsOpen
<1>1. QED BY RequestsUseFiles, FilesHeldAreOpen, PTL

\* Whatever hooks throw and instances are destroyed, no request leaks a
\* descriptor or a mapping (src/FileHandle.cpp).
THEOREM RequestsLeakNothing == Spec => []OpenIsHeld
<1>1. QED BY RequestsUseFiles, OpenFilesAreHeld, PTL
-----------------------------------------------------------------------------
(* The responses: the inductive invariant.                                 *)

\* What view() of a route's file returns is bytes, wherever they are.
LEMMA FileViewIsBytes ==
  ASSUME NEW f, Typed(f), NEW c \in Conns, NEW r \in RequestRoutes
  PROVE  Bytes(FileView(f, c, r))
<1> DEFINE o == HolderOf(c, r)
           v == View(f, o)
<1>1. CASE r.owner = "none"
  BY <1>1, TextIsBytes DEF FileView, NoBytes, Texts
<1>2. CASE r.owner # "none"
  <2>1. o \in Objects
    <3>1. r = NoRoute \/ \E q \in Requests : r = q.route
      BY DEF RequestRoutes
    <3>2. NoRoute.owner = "none"
      BY DEF NoRoute
    <3>3. QED BY <1>2, <3>1, <3>2, RequestAssumption DEF HolderOf, Owners
  <2>2. f.obj[o].data \in Regions \cup {NoRegion} /\ f.obj[o].size \in Nat
    BY <2>1 DEF Typed
  <2>3. v.at \in Regions \cup {NoRegion} /\ v.len \in Nat
    BY <2>2 DEF View
  <2> HIDE DEF v
  <2>4. v.at # NoRegion => f.maps[v.at].path \in Texts
    <3>1. v.at # NoRegion => f.maps[v.at].path \in Paths \cup {NoPath}
      BY <2>3 DEF Typed
    <3>2. QED BY <3>1 DEF Texts
  <2> DEFINE text == IF v.at = NoRegion THEN NoText ELSE f.maps[v.at].path
  <2>5. text \in Texts
    BY <2>4 DEF Texts
  <2>6. FileView(f, c, r) = [at |-> v.at, len |-> v.len, text |-> text]
    BY <1>2 DEF FileView, v
  <2> HIDE DEF text
  <2>7. QED BY <2>3, <2>5, <2>6 DEF Bytes
<1>3. QED BY <1>1, <1>2

\* The variables that have a value for each connection.
Tables ==
  /\ stage \in [Conns -> Stages] /\ route \in [Conns -> RequestRoutes]
  /\ head \in [Conns -> BOOLEAN] /\ close \in [Conns -> BOOLEAN]
  /\ threw \in [Conns -> BOOLEAN] /\ crashed \in BOOLEAN
  /\ DOMAIN response = Conns /\ response = [d \in Conns |-> response[d]]
  /\ given = [d \in Conns |-> given[d]]
  /\ wire = [d \in Conns |-> wire[d]]

\* At any time the response of c is one, and its active body is the one given
\* last; once it is complete, an exception has replaced it; while it is written,
\* what is written is what it says.
Sound(c) ==
  /\ IsResponse(response[c]) /\ Bytes(given[c])
  /\ ActiveBody(response[c]) = given[c]
  /\ Bytes(wire[c].payload)
  /\ stage[c] = "idle" => ~threw[c]
  /\ stage[c] \in {"dispatched", "writing"} /\ threw[c] =>
       response[c].status = 500 /\ given[c] = FixedText(500)
  /\ stage[c] = "writing" =>
       wire[c] = [block   |-> SerializeHeaders(response[c], close[c]),
                  payload |-> Payload(response[c], head[c])]

Responses == Tables /\ \A c \in Conns : Sound(c)

\* A step of one connection is none of another.
Untouched(d) ==
  /\ stage'[d] = stage[d] /\ close'[d] = close[d] /\ head'[d] = head[d]
  /\ response'[d] = response[d] /\ given'[d] = given[d] /\ threw'[d] = threw[d]
  /\ wire'[d] = wire[d]

LEMMA UntouchedSound == ASSUME NEW d, Sound(d), Untouched(d) PROVE Sound(d)'
BY DEF Sound, Untouched

\* The hooks of a route are hooks.
LEMMA RouteHooks ==
  ASSUME NEW r \in RequestRoutes
  PROVE  IsHook(r.before) /\ IsHook(r.handle) /\ IsHook(r.after)
<1>1. r = NoRoute \/ \E q \in Requests : r = q.route
  BY DEF RequestRoutes
<1>2. IsHook(<<>>)
  BY DEF IsHook
<1>3. NoRoute.before = <<>> /\ NoRoute.handle = <<>> /\ NoRoute.after = <<>>
  BY DEF NoRoute
<1>4. QED BY <1>1, <1>2, <1>3, RequestAssumption

\* A hook that runs leaves a sound response.
LEMMA HookSound ==
  ASSUME Responses, Typed(fs'), NEW c \in Conns, NEW calls, IsHook(calls),
         NEW next \in {"handle", "after", "return"}, HookRuns(c, calls, next)
  PROVE  Responses'
<1> DEFINE e == [res |-> response[c], given |-> given[c], threw |-> FALSE]
           v == FileView(fs', c, route[c])
           n == Run(e, calls, v)
<1>1. Bytes(v) /\ Built(e, response[c].mapped, v)
  <2>1. route[c] \in RequestRoutes /\ Sound(c)
    BY DEF Responses, Tables
  <2>2. QED BY <2>1, FileViewIsBytes DEF Built, Sound
<1>2. Built(n, response[c].mapped, v)
  <2> HIDE DEF e, v
  <2> QED BY <1>1, RunBuilds
<1>3. /\ response' = [response EXCEPT ![c] = n.res]
      /\ given' = [given EXCEPT ![c] = n.given]
      /\ threw' = [threw EXCEPT ![c] = n.threw]
      /\ stage' = [stage EXCEPT ![c] = IF n.threw THEN "return" ELSE next]
      /\ UNCHANGED <<route, head, close, wire, crashed>>
  BY DEF HookRuns
<1> HIDE DEF n, e, v
<1>4. Tables'
  <2>1. n.threw \in BOOLEAN
    BY <1>2 DEF Built
  <2>2. (IF n.threw THEN "return" ELSE next) \in Stages
    BY DEF Stages
  <2>3. stage' \in [Conns -> Stages] /\ threw' \in [Conns -> BOOLEAN]
    BY <1>3, <2>1, <2>2 DEF Responses, Tables
  <2>4. QED BY <1>3, <2>3 DEF Responses, Tables
<1>5. Sound(c)'
  <2>1. /\ response'[c] = n.res /\ given'[c] = n.given /\ wire'[c] = wire[c]
        /\ stage'[c] \in {"handle", "after", "return"}
    BY <1>3 DEF Responses, Tables
  <2>2. QED BY <1>2, <2>1 DEF Sound, Built, Responses
<1>6. ASSUME NEW d \in Conns, d # c PROVE Sound(d)'
  <2>1. Untouched(d)
    BY <1>3, <1>6 DEF Untouched, Responses, Tables
  <2>2. QED BY <2>1, UntouchedSound DEF Responses
<1>7. QED BY <1>4, <1>5, <1>6 DEF Responses

LEMMA NewIsResponse ==
  /\ IsResponse(NewResponse) /\ ActiveBody(NewResponse) = NoBytes
  /\ Bytes(NoBytes) /\ NewResponse.mapped = NoBytes
<1>1. Bytes(NoBytes) /\ NoBytes.at = Heap
  BY TextIsBytes DEF NoBytes, Texts
<1>2. QED BY <1>1 DEF NewResponse, IsResponse, HasFields, ActiveBody

\* The last response of a connection is marked in its fields only.
LEMMA MarkedKeepsBody ==
  ASSUME NEW res, IsResponse(res), NEW k
  PROVE  /\ IsResponse(Marked(res, k)) /\ ActiveBody(Marked(res, k)) = ActiveBody(res)
         /\ Marked(res, k).mapped = res.mapped /\ Marked(res, k).status = res.status
<1> DEFINE key == Key("connection", "Connection")
           val == Value("close")
<1>1. CASE k
  <2>1. Marked(res, k) = SetHeader(res, key, val)
    BY <1>1 DEF Marked
  <2> HIDE DEF key, val
  <2>2. QED BY <2>1, FieldsKeepBody
<1>2. CASE ~k
  BY <1>2 DEF Marked
<1>3. QED BY <1>1, <1>2

\* A fixed text with a status is a response.
LEMMA FixedIsBody ==
  ASSUME NEW res, IsResponse(res), NEW status, NEW code,
         NEW r, r = SendText(SetStatus(res, status), FixedText(code))
  PROVE  /\ IsResponse(r) /\ ActiveBody(r) = FixedText(code)
         /\ r.mapped = res.mapped /\ r.status = status /\ Bytes(FixedText(code))
<1> DEFINE a == SetStatus(res, status)
           b == FixedText(code)
<1>1. IsResponse(a) /\ a.mapped = res.mapped /\ a.status = status
  BY FieldsKeepBody
<1>2. Bytes(b) /\ b.at = Heap
  <2> DEFINE t == IF code = 404 THEN "Not Found" ELSE "Internal Server Error"
  <2>1. t \in Texts /\ b = Text(t, 1)
    BY DEF FixedText, Texts
  <2> HIDE DEF t, b
  <2>2. QED BY <2>1, TextIsBytes
<1> HIDE DEF a, b
<1>3. LET sent == SendText(a, b)
      IN /\ IsResponse(sent) /\ ActiveBody(sent) = b
         /\ sent.mapped = a.mapped /\ sent.status = a.status
  BY <1>1, <1>2, GivenIsActive
<1>4. QED BY <1>1, <1>2, <1>3 DEF a, b

\* What the connection is given to write is bytes.
LEMMA PayloadIsBytes ==
  ASSUME NEW res, IsResponse(res), NEW h
  PROVE  /\ Bytes(Payload(res, h))
         /\ Payload(res, h).at # Heap => Payload(res, h) = res.mapped
<1>1. Bytes(NoBytes) /\ NoBytes.at = Heap
  BY TextIsBytes DEF NoBytes, Texts
<1>2. QED BY <1>1 DEF Payload, IsResponse

\* The response of c is complete: res, but for its mark, with the body b.
Completes(c, res, b, k, h) ==
  /\ IsResponse(res) /\ ActiveBody(res) = b /\ Bytes(b)
  /\ threw[c] => res.status = 500 /\ b = FixedText(500)
  /\ response' = [response EXCEPT ![c] = Marked(res, k)]
  /\ given' = [given EXCEPT ![c] = b]
  /\ stage' = [stage EXCEPT ![c] = "dispatched"]
  /\ head' = [head EXCEPT ![c] = h] /\ close' = [close EXCEPT ![c] = k]
  /\ UNCHANGED <<route, threw, wire, crashed>>

LEMMA ResponsesStep ==
  Responses /\ FileTypeOK' /\ [Next]_vars => Responses'
<1> SUFFICES ASSUME Responses, FileTypeOK', [Next]_vars PROVE Responses'
  OBVIOUS
<1>0. Tables /\ Typed(fs')
  BY DEF Responses, FileTypeOK
<1>1. ASSUME NEW c \in Conns, Tables', Sound(c)',
             \A d \in Conns \ {c} : Untouched(d)
      PROVE  Responses'
  BY <1>1, UntouchedSound DEF Responses
<1>2. ASSUME NEW c \in Conns, Begin(c) PROVE Responses'
  <2>1. PICK q \in Requests :
          /\ route' = [route EXCEPT ![c] = q.route]
          /\ head' = [head EXCEPT ![c] = q.head]
          /\ close' = [close EXCEPT ![c] = q.close]
    BY <1>2 DEF Begin
  <2>2. /\ stage' = [stage EXCEPT ![c] = FirstHook(route'[c])]
        /\ UNCHANGED <<response, given, threw, wire, crashed>>
    BY <1>2 DEF Begin
  <2>3. q.route \in RequestRoutes /\ q.head \in BOOLEAN /\ q.close \in BOOLEAN
    BY RequestAssumption DEF RequestRoutes
  <2>4. \A r : FirstHook(r) \in {"before", "handle"}
    BY DEF FirstHook
  <2>5. stage'[c] \in {"before", "handle"}
    BY <1>0, <2>2, <2>4 DEF Tables
  <2>6. Tables'
    <3>1. stage' \in [Conns -> Stages]
      BY <1>0, <2>2, <2>4 DEF Tables, Stages
    <3>2. QED BY <1>0, <2>1, <2>2, <2>3, <3>1 DEF Tables
  <2>7. Sound(c)'
    BY <2>2, <2>5 DEF Sound, Responses
  <2>8. \A d \in Conns \ {c} : Untouched(d)
    BY <1>0, <2>1, <2>2 DEF Untouched, Tables
  <2>9. QED BY <1>1, <2>6, <2>7, <2>8
<1>3. ASSUME NEW c \in Conns, Before(c) \/ Handle(c) \/ After(c) PROVE Responses'
  <2>1. route[c] \in RequestRoutes
    BY <1>0 DEF Tables
  <2>2. IsHook(route[c].before) /\ IsHook(route[c].handle) /\ IsHook(route[c].after)
    BY <2>1, RouteHooks
  <2>3. \A r : LastHook(r) \in {"after", "return"}
    BY DEF LastHook
  <2>4. \/ HookRuns(c, route[c].before, "handle")
        \/ HookRuns(c, route[c].handle, LastHook(route[c]))
        \/ HookRuns(c, route[c].after, "return")
    BY <1>3 DEF Before, Handle, After
  <2>5. QED BY <1>0, <2>2, <2>3, <2>4, HookSound
<1>4. ASSUME NEW c \in Conns, NEW res, NEW b, NEW k \in BOOLEAN, NEW h \in BOOLEAN,
             Completes(c, res, b, k, h)
      PROVE  Responses'
  <2>1. Tables'
    <3>1. stage' \in [Conns -> Stages]
      BY <1>0, <1>4 DEF Tables, Stages, Completes
    <3>2. QED BY <1>0, <1>4, <3>1 DEF Tables, Completes
  <2>2. /\ response'[c] = Marked(res, k) /\ given'[c] = b /\ wire'[c] = wire[c]
        /\ stage'[c] = "dispatched" /\ threw'[c] = threw[c]
    BY <1>0, <1>4 DEF Tables, Completes
  <2> DEFINE n == Marked(res, k)
  <2>3. /\ IsResponse(n) /\ ActiveBody(n) = b /\ Bytes(b)
        /\ threw[c] => n.status = 500 /\ b = FixedText(500)
    BY <1>4, MarkedKeepsBody DEF Completes
  <2> HIDE DEF n
  <2>6. response'[c] = n
    BY <2>2 DEF n
  <2>7. Bytes(wire[c].payload)
    BY DEF Responses, Sound
  <2>8. /\ IsResponse(response'[c]) /\ Bytes(given'[c])
        /\ ActiveBody(response'[c]) = given'[c] /\ Bytes(wire'[c].payload)
        /\ threw'[c] => response'[c].status = 500 /\ given'[c] = FixedText(500)
        /\ stage'[c] \notin {"idle", "writing"}
    BY <2>2, <2>3, <2>6, <2>7
  <2>9. Sound(c)'
    BY <2>8 DEF Sound
  <2>4. \A d \in Conns \ {c} : Untouched(d)
    BY <1>0, <1>4 DEF Untouched, Tables, Completes
  <2>5. QED BY <1>1, <2>1, <2>9, <2>4
<1>5. ASSUME NEW c \in Conns, Return(c) PROVE Responses'
  <2> DEFINE res == IF threw[c] THEN Caught(response[c]) ELSE response[c]
             b == IF threw[c] THEN FixedText(500) ELSE given[c]
  <2>1. Sound(c) /\ close[c] \in BOOLEAN /\ head[c] \in BOOLEAN
    BY <1>0 DEF Responses, Tables
  <2>2. /\ IsResponse(res) /\ ActiveBody(res) = b /\ Bytes(b)
        /\ threw[c] => res.status = 500 /\ b = FixedText(500)
    <3>1. IsResponse(response[c]) /\ ActiveBody(response[c]) = given[c] /\ Bytes(given[c])
      BY <2>1 DEF Sound
    <3>2. CASE threw[c]
      <4>1. res = SendText(SetStatus(response[c], 500), FixedText(500)) /\ b = FixedText(500)
        BY <3>2 DEF Caught
      <4> HIDE DEF res, b
      <4>2. QED BY <3>1, <4>1, FixedIsBody
    <3>3. CASE ~threw[c]
      BY <3>1, <3>3
    <3>4. QED BY <3>2, <3>3
  <2>3. /\ response' = [response EXCEPT ![c] = Marked(res, close[c])]
        /\ given' = [given EXCEPT ![c] = b]
        /\ stage' = [stage EXCEPT ![c] = "dispatched"]
        /\ UNCHANGED <<route, head, close, threw, wire, crashed>>
    BY <1>5 DEF Return
  <2>4. head' = [head EXCEPT ![c] = head[c]] /\ close' = [close EXCEPT ![c] = close[c]]
    BY <1>0, <2>3 DEF Tables
  <2> HIDE DEF res, b
  <2>5. Completes(c, res, b, close[c], head[c])
    BY <2>2, <2>3, <2>4 DEF Completes
  <2>6. QED BY <1>4, <2>1, <2>5
<1>6. ASSUME NEW c \in Conns, NotFound(c) PROVE Responses'
  <2> DEFINE res == SendText(SetStatus(response[c], 404), FixedText(404))
             b == FixedText(404)
  <2>0. \E q \in Requests :
          /\ q.route = NoRoute
          /\ head' = [head EXCEPT ![c] = q.head]
          /\ close' = [close EXCEPT ![c] = q.close]
          /\ response' = [response EXCEPT ![c] =
               Marked(SendText(SetStatus(@, 404), FixedText(404)), q.close)]
    BY <1>6, ZenonT(30) DEF NotFound
  <2>1. PICK q \in Requests :
          /\ head' = [head EXCEPT ![c] = q.head]
          /\ close' = [close EXCEPT ![c] = q.close]
          /\ response' = [response EXCEPT ![c] = Marked(res, q.close)]
    BY <2>0, ZenonT(30)
  <2>2. q.head \in BOOLEAN /\ q.close \in BOOLEAN /\ ~threw[c]
    <3>1. q.head \in BOOLEAN /\ q.close \in BOOLEAN
      BY RequestAssumption
    <3>2. stage[c] = "idle" /\ Sound(c)
      BY <1>6 DEF NotFound, Responses
    <3>3. QED BY <3>1, <3>2 DEF Sound
  <2>3. IsResponse(res) /\ ActiveBody(res) = b /\ Bytes(b)
    <3>1. IsResponse(response[c])
      BY DEF Responses, Sound
    <3>2. QED BY <3>1, FixedIsBody
  <2>4. /\ given' = [given EXCEPT ![c] = b]
        /\ stage' = [stage EXCEPT ![c] = "dispatched"]
        /\ UNCHANGED <<route, threw, wire, crashed>>
    BY <1>6 DEF NotFound
  <2> HIDE DEF res, b
  <2>5. Completes(c, res, b, q.close, q.head)
    BY <2>1, <2>2, <2>3, <2>4 DEF Completes
  <2>6. QED BY <1>4, <2>2, <2>5
<1>7. ASSUME NEW c \in Conns, Write(c) PROVE Responses'
  <2> DEFINE w == [block   |-> SerializeHeaders(response[c], close[c]),
                   payload |-> Payload(response[c], head[c])]
  <2>1. /\ wire' = [wire EXCEPT ![c] = w] /\ stage' = [stage EXCEPT ![c] = "writing"]
        /\ UNCHANGED <<route, head, close, response, given, threw, crashed>>
    BY <1>7 DEF Write
  <2>2. stage[c] = "dispatched"
    BY <1>7 DEF Write
  <2>3. Bytes(w.payload)
    BY PayloadIsBytes DEF Responses, Sound
  <2> HIDE DEF w
  <2>4. Tables'
    <3>1. stage' \in [Conns -> Stages]
      BY <1>0, <2>1 DEF Tables, Stages
    <3>2. QED BY <1>0, <2>1, <3>1 DEF Tables
  <2>5. wire'[c] = w /\ stage'[c] = "writing"
    BY <1>0, <2>1 DEF Tables
  <2>6. Sound(c)'
    <3>1. Sound(c)
      BY DEF Responses
    <3>2. QED BY <2>1, <2>2, <2>3, <2>5, <3>1 DEF Sound, w
  <2>7. \A d \in Conns \ {c} : Untouched(d)
    BY <1>0, <2>1 DEF Untouched, Tables
  <2>8. QED BY <1>1, <2>4, <2>6, <2>7
<1>8. ASSUME NEW c \in Conns, Written(c) PROVE Responses'
  <2>1. /\ stage' = [stage EXCEPT ![c] = "idle"]
        /\ route' = [route EXCEPT ![c] = NoRoute]
        /\ head' = [head EXCEPT ![c] = FALSE]
        /\ close' = [close EXCEPT ![c] = FALSE]
        /\ response' = [response EXCEPT ![c] = NewResponse]
        /\ given' = [given EXCEPT ![c] = NoBytes]
        /\ threw' = [threw EXCEPT ![c] = FALSE]
        /\ wire' = [wire EXCEPT ![c] = NoWire]
        /\ UNCHANGED crashed
    BY <1>8 DEF Written
  <2>2. Tables'
    <3>1. stage' \in [Conns -> Stages]
      BY <1>0, <2>1 DEF Tables, Stages
    <3>2. NoRoute \in RequestRoutes
      BY DEF RequestRoutes
    <3>3. QED BY <1>0, <2>1, <3>1, <3>2 DEF Tables
  <2>3. /\ stage'[c] = "idle" /\ response'[c] = NewResponse /\ given'[c] = NoBytes
        /\ threw'[c] = FALSE /\ wire'[c].payload = NoBytes
    BY <1>0, <2>1 DEF Tables, NoWire
  <2>4. Sound(c)'
    BY <2>3, NewIsResponse DEF Sound
  <2>5. \A d \in Conns \ {c} : Untouched(d)
    BY <1>0, <2>1 DEF Untouched, Tables
  <2>6. QED BY <1>1, <2>2, <2>4, <2>5
<1>9. ASSUME UNCHANGED exchange, crashed' \in BOOLEAN PROVE Responses'
  BY <1>9 DEF exchange, Responses, Tables, Sound
<1>10. ASSUME NEW c \in Conns, WriteThrows(c) PROVE Responses'
  BY <1>9, <1>10 DEF WriteThrows
<1>11. Housekeeping \/ UNCHANGED vars => Responses'
  BY <1>0, <1>9 DEF Housekeeping, vars, Tables
<1>12. QED
  BY <1>2, <1>3, <1>5, <1>6, <1>7, <1>8, <1>10, <1>11 DEF Next, Exchange

LEMMA ResponsesInit == Init => Responses
<1> SUFFICES ASSUME Init PROVE Responses
  OBVIOUS
<1>1. Tables
  <2>1. NoRoute \in RequestRoutes
    BY DEF RequestRoutes
  <2>2. QED BY <2>1 DEF Init, Tables, Stages
<1>2. ASSUME NEW c \in Conns PROVE Sound(c)
  <2>1. /\ stage[c] = "idle" /\ response[c] = NewResponse /\ given[c] = NoBytes
        /\ threw[c] = FALSE /\ wire[c].payload = NoBytes
    BY DEF Init, NoWire
  <2>2. QED BY <2>1, NewIsResponse DEF Sound
<1>3. QED BY <1>1, <1>2 DEF Responses

LEMMA ResponsesAlways == Spec => []Responses
<1>1. Spec => []FileTypeOK
  BY RequestsUseFiles, FilesTyped, PTL
<1>2. QED BY <1>1, ResponsesInit, ResponsesStep, PTL DEF Spec

\* What connections hold has the shape of its C++ type, whatever the hooks do
\* (include/HttpResponse.h, include/transport/TcpConnection.h).
THEOREM RequestsTyped == Spec => []TypeOK
<1>1. Responses /\ FileTypeOK => TypeOK
  BY DEF Responses, Tables, Sound, IsResponse, TypeOK, RequestRoutes
<1>2. Spec => []FileTypeOK
  BY RequestsUseFiles, FilesTyped, PTL
<1>3. QED BY <1>1, <1>2, ResponsesAlways, PTL

\* The three bodies and their selector never disagree: whatever sequence of
\* calls the hooks make and wherever one throws, a complete response has the
\* body given last, and the fixed text after an exception
\* (include/HttpResponse.h, include/core/RequestDispatcher.h).
THEOREM BodyAlwaysLastGiven == Spec => []BodyIsLastGiven
<1>1. Responses => BodyIsLastGiven
  BY DEF Responses, Sound, BodyIsLastGiven
<1>2. QED BY <1>1, ResponsesAlways, PTL

\* Whatever fields of one line hooks set, in whatever spelling and whichever
\* hooks throw, a response on the wire has one Connection field, which is true,
\* and one Content-Length, which is right.  The library does not see to it that
\* fields have one line (include/HttpResponse.h:108-111, 166-171).
THEOREM FramingAlwaysTransports == Spec => []FramingIsTransports
<1>1. ASSUME NEW res, OneLineFields(res), NEW k
      PROVE  Framed(SerializeHeaders(res, k), k, res.status, ActiveBody(res).len)
  <2> DEFINE T == {"connection", "content-length", "transfer-encoding"}
             A == Line("connection", Framework, IF k THEN "close" ELSE "keep-alive", 0)
             B == Line("content-type", Framework, res.type, 0)
             C == Line("content-length", Framework, NoText, ActiveBody(res).len)
             keys == {h \in DOMAIN res.headers :
                        \A name \in TransportFields : ~Says(h, name)}
             D == UNION {FieldLines(key, res.headers[key]) : key \in keys}
  <2>1. A.name = "connection" /\ B.name = "content-type" /\ C.name = "content-length"
    BY DEF Line
  <2>2. \A line \in D : line.name \notin T
    <3> SUFFICES ASSUME NEW key \in keys, NEW line \in FieldLines(key, res.headers[key])
                 PROVE  line.name \notin T
      OBVIOUS
    <3>1. key.lines = {} /\ res.headers[key].lines = {}
      BY <1>1 DEF OneLineFields
    <3>2. line = Line(key.name, key.as, res.headers[key].text, 0)
      BY <3>1 DEF FieldLines
    <3>3. key.name \notin T
      BY <3>1 DEF Says, TransportFields
    <3>4. QED BY <3>2, <3>3 DEF Line
  <2>3. SerializeHeaders(res, k) =
          {A} \cup (IF CustomType(res) THEN {} ELSE {B})
              \cup (IF Bodiless(res.status) THEN {} ELSE {C}) \cup D
    BY DEF SerializeHeaders
  <2> HIDE DEF A, B, C, D
  <2>4. {line \in SerializeHeaders(res, k) : line.name \in T} =
          {A} \cup (IF Bodiless(res.status) THEN {} ELSE {C})
    BY <2>1, <2>2, <2>3
  <2>5. QED BY <2>4 DEF Framed, Bodiless, A, C
<1>2. Responses => FramingIsTransports
  <2> SUFFICES ASSUME Responses, NEW c \in Conns, stage[c] = "writing",
                      OneLineFields(response[c])
               PROVE  Framed(wire[c].block, close[c], response[c].status, given[c].len)
    BY DEF FramingIsTransports
  <2>1. Sound(c)
    BY DEF Responses
  <2>2. wire[c].block = SerializeHeaders(response[c], close[c])
    BY <2>1 DEF Sound
  <2>3. ActiveBody(response[c]) = given[c]
    BY <2>1 DEF Sound
  <2>4. QED BY <1>1, <2>2, <2>3
<1>3. QED BY <1>2, ResponsesAlways, PTL

\* Tests, which read what serialize() returns, see the bytes a client would get
\* (include/HttpResponse.h, include/transport/TcpConnection.h:138-151).
THEOREM TestsAlwaysSeeTheWire == Spec => []TestsSeeTheWire
<1>1. ASSUME NEW res, IsResponse(res), ~Bodiless(res.status), NEW k, NEW h
      PROVE  Serialize(res, k, h) = [block   |-> SerializeHeaders(res, k),
                                     payload |-> Payload(res, h)]
  BY <1>1 DEF Serialize, Payload, ActiveBody, IsResponse
<1>2. Responses => TestsSeeTheWire
  BY <1>1 DEF Responses, Sound, TestsSeeTheWire
<1>3. QED BY <1>2, ResponsesAlways, PTL

-----------------------------------------------------------------------------
(* Bodies that are views of mapped files.                                  *)

Viewless(calls) == \A i \in 1 .. Len(calls) : calls[i].op \notin ViewCalls

\* The discipline of the example (examples/01_hello_world/main.cpp), which the
\* route of README.md:247-255 does not follow: a route that opens its file with
\* the instance does not give a view of it as the body.
LentByApplication ==
  \A q \in Requests : q.route.owner = "member" =>
    Viewless(q.route.before) /\ Viewless(q.route.handle) /\ Viewless(q.route.after)

\* A region is a file of the application's, or lost for good.
InUse(f, r) == r \in f.lostMaps \/ \E o \in Files : f.obj[o].data = r

\* A mapped body is what is mapped where it points, and stays mapped until the
\* application releases it.
Viewed(f, b) ==
  /\ b.at = NoRegion => b.len = 0
  /\ b.at \in Regions =>
       /\ b.len > 0 /\ f.maps[b.at] = [path |-> b.text, len |-> b.len]
       /\ InUse(f, b.at)

BodiesViewed == \A c \in Conns : Viewed(fs, response[c].mapped)

\* Opening, constructing and acquiring leave every view.
LEMMA ForgetsNoView ==
  ASSUME NEW f, NEW g, NEW o \in Objects, OnlyForgets(f, g, o),
         NEW b, Bytes(b), Viewed(f, b)
  PROVE  Viewed(g, b)
<1> SUFFICES ASSUME b.at \in Regions
             PROVE  /\ b.len > 0 /\ g.maps[b.at] = [path |-> b.text, len |-> b.len]
                    /\ InUse(g, b.at)
  BY DEF Viewed
<1>1. /\ b.len > 0 /\ f.maps[b.at] = [path |-> b.text, len |-> b.len]
      /\ InUse(f, b.at)
  BY DEF Viewed
<1>2. f.maps[b.at] # Unmapped
  <2>1. f.maps[b.at].len > 0 /\ Unmapped.len = 0
    BY <1>1 DEF Unmapped
  <2>2. QED BY <2>1
<1>3. g.maps[b.at] = f.maps[b.at]
  BY <1>2 DEF OnlyForgets
<1>4. InUse(g, b.at)
  <2>1. CASE b.at \in f.lostMaps
    BY <2>1 DEF OnlyForgets, InUse
  <2>2. ASSUME NEW q \in Files, f.obj[q].data = b.at PROVE InUse(g, b.at)
    <3>1. CASE q = o
      BY <2>2, <3>1, FileAssumption DEF OnlyForgets, InUse
    <3>2. CASE q # o
      BY <2>2, <3>2 DEF OnlyForgets, InUse, Files
    <3>3. QED BY <3>1, <3>2
  <2>3. QED BY <1>1, <2>1, <2>2 DEF InUse
<1>5. QED BY <1>1, <1>3, <1>4

\* A move of the application's files leaves the views of what it does not release.
LEMMA MoveKeepsViews ==
  ASSUME NEW f, NEW g, NEW o \in Files, NEW from \in Files, o # from,
         Moves(f, g, o, from),
         NEW b, Bytes(b), Viewed(f, b), b.at \in Regions => f.obj[o].data # b.at
  PROVE  Viewed(g, b)
<1> SUFFICES ASSUME b.at \in Regions
             PROVE  g.maps[b.at] = f.maps[b.at] /\ InUse(g, b.at)
  BY DEF Viewed
<1>1. g.maps[b.at] = f.maps[b.at]
  BY DEF Moves
<1>2. InUse(g, b.at)
  <2>1. CASE b.at \in f.lostMaps
    BY <2>1 DEF Moves, InUse
  <2>2. ASSUME NEW q \in Files, f.obj[q].data = b.at PROVE InUse(g, b.at)
    <3>1. CASE q = from
      BY <2>2, <3>1 DEF Moves, InUse
    <3>2. CASE q # from
      <4>1. q # o /\ q \in Objects
        BY <2>2 DEF Files
      <4>2. QED BY <2>2, <3>2, <4>1 DEF Moves, InUse
    <3>3. QED BY <3>1, <3>2
  <2>3. QED BY <2>1, <2>2 DEF Viewed, InUse
<1>3. QED BY <1>1, <1>2

\* So does the destruction of an object whose mapping nobody views.
LEMMA DestroyKeepsViews ==
  ASSUME NEW f, Consistent(f), NEW o \in Objects,
         NEW b, Bytes(b), Viewed(f, b), b.at \in Regions => f.obj[o].data # b.at
  PROVE  Viewed(Destroy(f, o), b)
<1> DEFINE g == Destroy(f, o)
<1>1. /\ g.obj = [f.obj EXCEPT ![o] = Dead] /\ g.maps = FreedMaps(f, o)
      /\ g.lostMaps = f.lostMaps
  BY DestroyKeeps
<1> HIDE DEF g
<1> SUFFICES ASSUME b.at \in Regions
             PROVE  g.maps[b.at] = f.maps[b.at] /\ InUse(g, b.at)
  BY DEF Viewed, g
<1>2. g.maps[b.at] = f.maps[b.at]
  BY <1>1 DEF FreedMaps, Consistent, Typed
<1>3. \A q \in Objects \ {o} : g.obj[q] = f.obj[q]
  BY <1>1 DEF Consistent, Typed
<1>4. InUse(g, b.at)
  BY <1>1, <1>3 DEF Viewed, InUse, Files
<1>5. QED BY <1>2, <1>4

\* What a member file maps is nobody's view: the application's files hold other
\* regions, and what is lost is no object's.
LEMMA MemberIsNotViewed ==
  ASSUME NEW f, Consistent(f), NEW c \in Conns, NEW b, Viewed(f, b), b.at \in Regions
  PROVE  f.obj[c].data # b.at
<1>1. c \in Objects
  BY RequestAssumption
<1>2. OwnMapping(f, c) /\ b.at # NoRegion
  BY <1>1, FileAssumption DEF Consistent, Held
<1>3. InUse(f, b.at)
  BY DEF Viewed
<1>4. QED BY <1>2, <1>3 DEF OwnMapping, InUse, Files

\* The view of a file of the application is what is mapped.
LEMMA FileViewIsViewed ==
  ASSUME NEW f, Consistent(f), NEW c \in Conns, NEW r \in RequestRoutes,
         r.owner # "member"
  PROVE  Viewed(f, FileView(f, c, r))
<1> DEFINE v == View(f, r.file)
           w == FileView(f, c, r)
<1> SUFFICES Viewed(f, w)
  OBVIOUS
<1>1. CASE r.owner = "none"
  <2>1. FileView(f, c, r) = NoBytes /\ NoBytes.at = Heap
    BY <1>1 DEF FileView, NoBytes, Text
  <2>2. QED BY <2>1, RequestAssumption DEF Viewed
<1>2. CASE r.owner # "none"
  <2>1. r.owner = "shared" /\ r.file \in Files
    <3>1. r = NoRoute \/ \E q \in Requests : r = q.route
      BY DEF RequestRoutes
    <3>2. NoRoute.owner = "none"
      BY DEF NoRoute
    <3>3. QED BY <1>2, <3>1, <3>2, RequestAssumption DEF Owners, Files
  <2> DEFINE text == IF v.at = NoRegion THEN NoText ELSE f.maps[v.at].path
  <2>2. w = [at |-> v.at, len |-> v.len, text |-> text]
    BY <2>1 DEF FileView, HolderOf
  <2>3. w.at = v.at /\ w.len = v.len /\ w.text = text
    <3> HIDE DEF w, text, v
    <3> QED BY <2>2
  <2>4. CASE f.obj[r.file].data = NoRegion \/ f.obj[r.file].size = 0
    <3>1. v.at = NoRegion /\ v.len = 0
      BY <2>4 DEF View
    <3> HIDE DEF w, v
    <3>2. QED BY <2>3, <3>1, FileAssumption DEF Viewed
  <2>5. CASE f.obj[r.file].data # NoRegion /\ f.obj[r.file].size # 0
    <3>1. v.at = f.obj[r.file].data /\ v.len = f.obj[r.file].size
      BY <2>5 DEF View
    <3>2. OwnMapping(f, r.file) /\ f.obj[r.file].data \in Regions \cup {NoRegion}
      BY <2>1 DEF Consistent, Held, Typed, Files
    <3>3. /\ v.at \in Regions /\ f.maps[v.at].len = v.len /\ v.len > 0
          /\ InUse(f, v.at)
      BY <2>1, <2>5, <3>1, <3>2 DEF OwnMapping, InUse
    <3>4. f.maps[v.at] = [path |-> text, len |-> v.len]
      <4>1. f.maps[v.at] \in [path : Paths \cup {NoPath}, len : Nat]
        BY <3>3 DEF Consistent, Typed
      <4>2. v.at # NoRegion
        BY <2>5, <3>1
      <4> HIDE DEF v
      <4>3. QED BY <3>3, <4>1, <4>2
    <3> HIDE DEF w, v, text
    <3>5. QED BY <2>3, <3>3, <3>4, FileAssumption DEF Viewed
  <2>6. QED BY <2>4, <2>5
<1>3. QED BY <1>1, <1>2

\* No use of the files takes a view from a response.
LEMMA FilesKeepViews ==
  ASSUME Consistent(fs), Responses, BodiesViewed, [Next]_vars
  PROVE  \A d \in Conns : Viewed(fs', response[d].mapped)
<1> SUFFICES ASSUME NEW d \in Conns PROVE Viewed(fs', response[d].mapped)
  OBVIOUS
<1> DEFINE b == response[d].mapped
<1> SUFFICES Viewed(fs', b)
  OBVIOUS
<1>1. Bytes(b) /\ Viewed(fs, b)
  BY DEF Responses, Sound, IsResponse, BodiesViewed
<1> HIDE DEF b
<1>2. ASSUME NEW o \in Objects, NEW p \in Paths, FileAcquire(o, p)
      PROVE  Viewed(fs', b)
  <2> DEFINE g == Construct(fs, o)
  <2>1. Consistent(g) /\ g.obj[o].alive /\ OnlyForgets(fs, g, o)
    BY <1>2, ConstructKeeps DEF FileAcquire, Alive
  <2>2. fs' \in Open(g, o, p)
    BY <1>2 DEF FileAcquire
  <2> HIDE DEF g
  <2>3. OnlyForgets(g, fs', o)
    BY <2>1, <2>2, OpenKeeps
  <2>4. Viewed(g, b)
    BY <1>1, <2>1, ForgetsNoView
  <2>5. QED BY <1>1, <2>3, <2>4, ForgetsNoView
<1>3. CASE UNCHANGED fs
  BY <1>1, <1>3
<1>4. ASSUME NEW c \in Conns, Begin(c) PROVE Viewed(fs', b)
  <2>1. PICK q \in Requests :
          IF q.route.owner = "member" THEN FileAcquire(c, q.route.path)
                                      ELSE UNCHANGED fs
    BY <1>4 DEF Begin
  <2>2. q.route.owner = "member" => q.route.path \in Paths
    BY RequestAssumption
  <2>3. c \in Objects
    BY RequestAssumption
  <2>4. QED BY <1>2, <1>3, <2>1, <2>2, <2>3
<1>5. ASSUME NEW c \in Conns, Handle(c) PROVE Viewed(fs', b)
  <2> DEFINE r == route[c]
  <2>1. r.owner = "shared" => r.file \in Objects /\ r.path \in Paths
    <3>1. r = NoRoute \/ \E q \in Requests : r = q.route
      BY DEF Responses, Tables, RequestRoutes
    <3>2. NoRoute.owner # "shared"
      BY DEF NoRoute
    <3>3. QED BY <3>1, <3>2, RequestAssumption
  <2>2. (r.owner = "shared" /\ FileAcquire(r.file, r.path)) \/ UNCHANGED fs
    BY <1>5 DEF Handle
  <2>3. QED BY <1>2, <1>3, <2>1, <2>2
<1>6. ASSUME NEW c \in Conns, Return(c) PROVE Viewed(fs', b)
  <2>1. CASE fs' = Destroy(fs, c)
    <3>1. c \in Objects
      BY RequestAssumption
    <3>2. b.at \in Regions => fs.obj[c].data # b.at
      BY <1>1, MemberIsNotViewed
    <3>3. QED BY <1>1, <2>1, <3>1, <3>2, DestroyKeepsViews
  <2>2. QED BY <1>3, <1>6, <2>1 DEF Return, FileDestroy
<1>7. CASE Housekeeping
  <2>1. PICK o \in Files :
          \/ FileConstruct(o) \/ FileOpen(o)
          \/ Unviewed(o) /\ FileDestroy(o)
          \/ \E from \in Files :
               \/ FileMoveConstruct(o, from)
               \/ (o = from \/ Unviewed(o)) /\ FileMoveAssign(o, from)
    BY <1>7 DEF Housekeeping
  <2>2. o \in Objects
    BY DEF Files
  <2>3. Unviewed(o) => (b.at \in Regions => fs.obj[o].data # b.at)
    BY FileAssumption DEF Unviewed, b
  <2>4. CASE FileConstruct(o)
    BY <1>1, <2>2, <2>4, ConstructKeeps, ForgetsNoView DEF FileConstruct, Alive
  <2>5. CASE FileOpen(o)
    <3>1. PICK p \in Paths : fs' \in Open(fs, o, p)
      BY <2>5 DEF FileOpen
    <3>2. OnlyForgets(fs, fs', o)
      BY <2>2, <2>5, <3>1, OpenKeeps DEF FileOpen, Alive
    <3>3. QED BY <1>1, <2>2, <3>2, ForgetsNoView
  <2>6. CASE Unviewed(o) /\ FileDestroy(o)
    BY <1>1, <2>2, <2>3, <2>6, DestroyKeepsViews DEF FileDestroy
  <2>7. ASSUME NEW from \in Files, FileMoveConstruct(o, from) PROVE Viewed(fs', b)
    <3>1. from \in Objects /\ ~fs.obj[o].alive /\ fs.obj[from].alive
      BY <2>7 DEF FileMoveConstruct, Alive, Files
    <3>2. Moves(fs, fs', o, from)
      BY <2>2, <2>7, <3>1, MoveConstructKeeps DEF FileMoveConstruct
    <3>3. b.at \in Regions => fs.obj[o].data # b.at
      <4>1. OwnMapping(fs, o)
        BY <2>2 DEF Consistent, Held
      <4>2. QED BY <3>1, <4>1, FileAssumption DEF OwnMapping
    <3>4. o # from
      BY <3>1
    <3>5. QED BY <1>1, <3>2, <3>3, <3>4, MoveKeepsViews
  <2>8. ASSUME NEW from \in Files, o = from \/ Unviewed(o), FileMoveAssign(o, from)
        PROVE  Viewed(fs', b)
    <3>1. CASE o = from
      BY <1>3, <2>8, <3>1 DEF FileMoveAssign, MoveAssign
    <3>2. CASE o # from
      <4>1. from \in Objects
        BY DEF Files
      <4>2. Moves(fs, fs', o, from)
        BY <2>2, <2>8, <3>2, <4>1, MoveAssignKeeps DEF FileMoveAssign
      <4>3. QED BY <1>1, <2>3, <2>8, <3>2, <4>2, MoveKeepsViews
    <3>3. QED BY <3>1, <3>2
  <2>9. QED BY <2>1, <2>4, <2>5, <2>6, <2>7, <2>8
<1>8. ASSUME NEW c \in Conns,
             \/ Before(c) \/ After(c) \/ NotFound(c)
             \/ Write(c) \/ WriteThrows(c) \/ Written(c)
      PROVE  UNCHANGED fs
  BY <1>8 DEF Before, After, NotFound, Write, WriteThrows, Written
<1>9. UNCHANGED vars => UNCHANGED fs
  BY DEF vars
<1>10. QED
  BY <1>3, <1>4, <1>5, <1>6, <1>7, <1>8, <1>9 DEF Next, Exchange

\* A hook keeps the mapped body it finds, or gives a view that is mapped.
LEMMA HookViews ==
  ASSUME LentByApplication, Responses, Consistent(fs'), NEW c \in Conns,
         NEW calls, calls \in {route[c].before, route[c].handle, route[c].after},
         NEW next, HookRuns(c, calls, next),
         \A d \in Conns : Viewed(fs', response[d].mapped)
  PROVE  BodiesViewed'
<1> DEFINE r == route[c]
           e == [res |-> response[c], given |-> given[c], threw |-> FALSE]
           v == FileView(fs', c, r)
           n == Run(e, calls, v)
<1>1. r \in RequestRoutes /\ Typed(fs')
  BY DEF Responses, Tables, Consistent
<1>2. IsHook(calls)
  BY <1>1, RouteHooks
<1>3. Bytes(v) /\ Built(e, response[c].mapped, v)
  <2>1. Sound(c)
    BY DEF Responses
  <2>2. QED BY <1>1, <2>1, FileViewIsBytes DEF Built, Sound
<1>4. /\ Built(n, response[c].mapped, v)
      /\ Viewless(calls) => n.res.mapped = e.res.mapped
  <2> HIDE DEF e, v
  <2> QED BY <1>2, <1>3, RunBuilds DEF Viewless
<1>5. r.owner = "member" => Viewless(calls)
  <2>1. r = NoRoute \/ \E q \in Requests : r = q.route
    BY <1>1 DEF RequestRoutes
  <2>2. NoRoute.owner # "member"
    BY DEF NoRoute
  <2>3. QED BY <2>1, <2>2 DEF LentByApplication
<1>6. n.res.mapped = response[c].mapped \/ (n.res.mapped = v /\ r.owner # "member")
  <2>1. e.res.mapped = response[c].mapped
    OBVIOUS
  <2> HIDE DEF n, e, v, r
  <2>2. QED BY <1>4, <1>5, <2>1 DEF Built
<1>7. Viewed(fs', n.res.mapped)
  <2>1. r.owner # "member" => Viewed(fs', v)
    BY <1>1, FileViewIsViewed
  <2> HIDE DEF n, v, r
  <2>2. QED BY <1>6, <2>1
<1>8. response' = [response EXCEPT ![c] = n.res]
  BY DEF HookRuns
<1>9. QED
  <2> HIDE DEF n
  <2> QED BY <1>7, <1>8 DEF BodiesViewed, Responses, Tables

LEMMA ViewsStep ==
  LentByApplication /\ Consistent(fs) /\ Consistent(fs)' /\ Responses
    /\ BodiesViewed /\ [Next]_vars => BodiesViewed'
<1> SUFFICES ASSUME LentByApplication, Consistent(fs), Consistent(fs'), Responses,
                    BodiesViewed, [Next]_vars
             PROVE  BodiesViewed'
  OBVIOUS
<1>1. \A d \in Conns : Viewed(fs', response[d].mapped)
  BY FilesKeepViews
<1>2. ASSUME NEW c \in Conns, Before(c) \/ Handle(c) \/ After(c) PROVE BodiesViewed'
  <2>1. \/ HookRuns(c, route[c].before, "handle")
        \/ HookRuns(c, route[c].handle, LastHook(route[c]))
        \/ HookRuns(c, route[c].after, "return")
    BY <1>2 DEF Before, Handle, After
  <2>2. QED BY <1>1, <2>1, HookViews
<1>3. ASSUME NEW c \in Conns, NEW res,
             res.mapped = response[c].mapped \/ res.mapped = NoBytes,
             response' = [response EXCEPT ![c] = res]
      PROVE  BodiesViewed'
  <2>1. Viewed(fs', NoBytes)
    BY RequestAssumption DEF Viewed, NoBytes, Text
  <2>2. QED BY <1>1, <1>3, <2>1 DEF BodiesViewed, Responses, Tables
<1>4. ASSUME NEW c \in Conns, Return(c) PROVE BodiesViewed'
  <2> DEFINE a == IF threw[c] THEN Caught(response[c]) ELSE response[c]
             res == Marked(a, close[c])
  <2>1. IsResponse(response[c])
    BY DEF Responses, Sound
  <2>2. IsResponse(a) /\ a.mapped = response[c].mapped
    BY <2>1, FixedIsBody DEF Caught
  <2>3. response' = [response EXCEPT ![c] = res]
    BY <1>4 DEF Return
  <2> HIDE DEF a
  <2>4. res.mapped = response[c].mapped
    BY <2>2, MarkedKeepsBody
  <2> HIDE DEF res
  <2>5. QED BY <1>3, <2>3, <2>4
<1>5. ASSUME NEW c \in Conns, NotFound(c) PROVE BodiesViewed'
  <2> DEFINE a == SendText(SetStatus(response[c], 404), FixedText(404))
  <2>1. IsResponse(a) /\ a.mapped = response[c].mapped
    <3>1. IsResponse(response[c])
      BY DEF Responses, Sound
    <3>2. QED BY <3>1, FixedIsBody
  <2>2. PICK q \in Requests :
          /\ q.route = NoRoute
          /\ head' = [head EXCEPT ![c] = q.head]
          /\ close' = [close EXCEPT ![c] = q.close]
          /\ response' = [response EXCEPT ![c] = Marked(a, q.close)]
    BY <1>5 DEF NotFound
  <2> HIDE DEF a
  <2>3. Marked(a, q.close).mapped = response[c].mapped
    BY <2>1, MarkedKeepsBody
  <2>4. QED BY <1>3, <2>2, <2>3
<1>6. ASSUME NEW c \in Conns, Written(c) PROVE BodiesViewed'
  BY <1>3, <1>6, NewIsResponse DEF Written
<1>7. ASSUME UNCHANGED response PROVE BodiesViewed'
  BY <1>1, <1>7 DEF BodiesViewed
<1>8. ASSUME NEW c \in Conns, Begin(c) \/ Write(c) \/ WriteThrows(c)
      PROVE  UNCHANGED response
  BY <1>8 DEF Begin, Write, WriteThrows, exchange
<1>9. Housekeeping \/ UNCHANGED vars => UNCHANGED response
  BY DEF Housekeeping, vars, exchange
<1>10. QED
  BY <1>2, <1>4, <1>5, <1>6, <1>7, <1>8, <1>9 DEF Next, Exchange

\* Zero-copy responses are safe as the example writes them: as long as routes
\* view files of the application only, and the application keeps what is viewed
\* mapped, the bytes on the wire are those of the file the handler chose, for
\* any number of connections, files and regions that the kernel reuses
\* (README.md:247-255, src/FileHandle.cpp, include/transport/TcpConnection.h).
THEOREM MappedBodiesAlive == LentByApplication /\ Spec => []MappedBodyAlive
<1> SUFFICES ASSUME LentByApplication PROVE Spec => []MappedBodyAlive
  OBVIOUS
<1>1. Init => BodiesViewed
  <2> SUFFICES ASSUME Init PROVE BodiesViewed
    OBVIOUS
  <2>1. Viewed(fs, NoBytes)
    BY RequestAssumption DEF Viewed, NoBytes, Text
  <2>2. QED BY <2>1, NewIsResponse DEF Init, BodiesViewed
<1>2. Responses /\ BodiesViewed => MappedBodyAlive
  <2> SUFFICES ASSUME Responses, BodiesViewed, NEW c \in Conns, stage[c] = "writing",
                      wire[c].payload.at # Heap, wire[c].payload.len > 0
               PROVE  LET payload == wire[c].payload
                      IN /\ payload.at \in Regions
                         /\ fs.maps[payload.at] =
                              [path |-> payload.text, len |-> payload.len]
    BY DEF MappedBodyAlive
  <2>1. Sound(c)
    BY DEF Responses
  <2>2. wire[c].payload = Payload(response[c], head[c])
    BY <2>1 DEF Sound
  <2>3. wire[c].payload = response[c].mapped
    BY <2>1, <2>2, PayloadIsBytes DEF Sound
  <2>4. Bytes(response[c].mapped) /\ Viewed(fs, response[c].mapped)
    BY <2>1 DEF Sound, IsResponse, BodiesViewed
  <2>5. QED BY <2>3, <2>4 DEF Bytes, Viewed
<1>3. Spec => []Consistent(fs)
  BY RequestsUseFiles, ConsistentAlways, PTL
<1>4. Consistent(fs) /\ Consistent(fs)' /\ Responses /\ BodiesViewed /\ [Next]_vars
        => BodiesViewed'
  BY ViewsStep
<1>5. QED BY <1>1, <1>2, <1>3, <1>4, ResponsesAlways, PTL DEF Spec

=============================================================================
