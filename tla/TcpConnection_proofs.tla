------------------------- MODULE TcpConnection_proofs -----------------------
(***************************************************************************)
(* Theorems about one connection, for every choice of limits, buffer       *)
(* sizes, client streams and application replies: which operations it has  *)
(* outstanding, that it follows ConnectionLifecycle, what the operations   *)
(* on its input buffer keep, and what it does with the bytes of the        *)
(* client's stream, however they are fragmented.                           *)
(***************************************************************************)
EXTENDS TcpConnection, Numbers_proofs

(* What a callback does to the operations, whatever it does to the data.   *)

\* The next operation is started: a read or the write of a response, or the
\* process is gone.
Starts(p) ==
  \/ /\ crashed' = crashed /\ reads' = reads + 1 /\ writes' = writes
     /\ phase' \in {p, "body"} /\ phase' \in {"headers", "body"}
  \/ /\ crashed' = crashed /\ reads' = reads /\ writes' = writes + 1
     /\ phase' = "writing"
  \/ /\ crashed' = TRUE /\ reads' = reads /\ writes' = writes
     /\ phase' = "body"

\* process_input() ends in one of the three ways, whatever is in the buffer.
LEMMA ProcessInputStarts ==
  ASSUME NEW b, NEW p \in {"headers", "body"}, NEW h, NEW r,
         ProcessInput(b, p, h, r)
  PROVE  Starts(p)
<1>1. ASSUME NEW b1, NEW h1, NEW r1, Serve(b1, h1, r1)
      PROVE  Starts(p)
  BY <1>1, Zenon DEF Serve, Write, Starts
<1>2. ASSUME NEW b1, NEW status, Fail(b1, status)
      PROVE  Starts(p)
  BY <1>2 DEF Fail, Write, Starts
<1>3. ASSUME NEW b1, NEW h1, NEW r1, AwaitBody(b1, h1, r1)
      PROVE  Starts(p)
  BY <1>3, <1>1 DEF AwaitBody, ReadMore, Starts
<1>4. CASE p = "headers" /\ EndLengths(b) = {}
  BY <1>4, <1>2 DEF ProcessInput, ReadMore, Starts
<1>5. CASE p = "headers" /\ EndLengths(b) # {}
  BY <1>5, <1>2, <1>3 DEF ProcessInput
<1>6. CASE p = "body"
  BY <1>6, <1>3 DEF ProcessInput
<1>7. QED BY <1>4, <1>5, <1>6

-----------------------------------------------------------------------------
(* Operations.  The inductive invariant is the conjunction of the two      *)
(* invariants with the types of the variables they read.                   *)

ControlTypes ==
  /\ phase \in Phases /\ draining \in BOOLEAN /\ crashed \in BOOLEAN
  /\ reads \in Nat /\ writes \in Nat
  /\ result.kind \in {"none", "read", "write"}

Control == ControlTypes /\ OneOperation /\ ClosesOnce

\* The callbacks of an open connection leave the control invariant true: the
\* one operation is used up and one is started, or the connection closes.
LEMMA StartsKeepsControl ==
  ASSUME Control, ~crashed, phase # "closed",
         result.kind \in {"read", "write"}, result'.kind = "none",
         NEW p \in {"headers", "body"}, Starts(p),
         draining' = draining, closes' = closes
  PROVE  Control'
<1> USE DEF Control, ControlTypes, Phases, OneOperation, ClosesOnce, Reading, Writing
<1>1. reads = 0 /\ writes = 0
  OBVIOUS
<1>2. CASE /\ crashed' = crashed /\ reads' = reads + 1 /\ writes' = writes
           /\ phase' \in {"headers", "body"}
  BY <1>1, <1>2
<1>3. CASE /\ crashed' = crashed /\ reads' = reads /\ writes' = writes + 1
           /\ phase' = "writing"
  BY <1>1, <1>3
<1>4. CASE /\ crashed' = TRUE /\ reads' = reads /\ writes' = writes
           /\ phase' = "body"
  BY <1>1, <1>4
<1>5. QED BY <1>2, <1>3, <1>4 DEF Starts

LEMMA CloseKeepsControl ==
  ASSUME Control, ~crashed, Close, crashed' = crashed,
         draining' \in BOOLEAN, reads' = reads, writes' = writes,
         result' = result \/ result'.kind = "none"
  PROVE  Control'
BY DEF Control, ControlTypes, Phases, OneOperation, ClosesOnce, Reading, Writing, Close

LEMMA ControlStep == Control /\ [Next]_vars => Control'
<1> SUFFICES ASSUME Control, [Next]_vars PROVE Control'
  OBVIOUS
<1>1. CASE OnClosed
  BY <1>1 DEF OnClosed, Callback, NoResult, Control, ControlTypes, Phases,
              OneOperation, ClosesOnce, Reading, Writing
<1>2. CASE OnReadFailed
  BY <1>2, CloseKeepsControl DEF OnReadFailed, Callback, NoResult, Control, ControlTypes
<1>3. CASE OnRead
  <2>1. phase \in {"headers", "body"}
    BY <1>3 DEF OnRead, Callback, Control, ControlTypes, Phases, OneOperation, Reading, Writing
  <2>2. Starts(phase)
    BY <1>3, <2>1, ProcessInputStarts DEF OnRead
  <2>3. QED
    BY <1>3, <2>1, <2>2, StartsKeepsControl DEF OnRead, Callback, NoResult
<1>4. CASE OnLastWrite
  BY <1>4, CloseKeepsControl DEF OnLastWrite, Callback, NoResult, Control, ControlTypes
<1>5. CASE OnWrite
  <2>1. Starts("headers")
    BY <1>5, ProcessInputStarts DEF OnWrite, ReadMore, Starts
  <2>2. QED
    BY <1>5, <2>1, StartsKeepsControl DEF OnWrite, Callback, NoResult
<1>6. ASSUME NEW force \in BOOLEAN, Stop(force)
      PROVE  Control'
  <2>1. CASE Close
    BY <1>6, <2>1, CloseKeepsControl DEF Stop, asio
  <2>2. CASE UNCHANGED <<phase, closes>>
    BY <1>6, <2>2 DEF Stop, asio, Control, ControlTypes, Phases, OneOperation,
                      ClosesOnce, Reading, Writing
  <2>3. QED BY <1>6, <2>1, <2>2 DEF Stop
<1>7. CASE ReceiveSome
  BY <1>7 DEF ReceiveSome, Receive, Completes, Control, ControlTypes, Phases,
              OneOperation, ClosesOnce, Reading, Writing
<1>8. CASE ReadFails
  BY <1>8 DEF ReadFails, Completes, conn, Control, ControlTypes, Phases,
              OneOperation, ClosesOnce, Reading, Writing
<1>9. CASE Sent
  BY <1>9 DEF Sent, Completes, conn, Control, ControlTypes, Phases,
              OneOperation, ClosesOnce, Reading, Writing
<1>10. CASE WriteFails
  BY <1>10 DEF WriteFails, Completes, conn, Control, ControlTypes, Phases,
               OneOperation, ClosesOnce, Reading, Writing
<1>11. CASE UNCHANGED vars
  BY <1>11 DEF vars, conn, asio, Control, ControlTypes, Phases,
               OneOperation, ClosesOnce, Reading, Writing
<1>12. QED
  BY <1>1, <1>2, <1>3, <1>4, <1>5, <1>6, <1>7, <1>8, <1>9, <1>10, <1>11
  DEF Next, Callbacks

LEMMA ControlInit == Init => Control
<1> SUFFICES ASSUME Init PROVE Control
  OBVIOUS
<1>1. /\ phase = "headers" /\ draining = FALSE /\ crashed = FALSE
      /\ reads = 1 /\ writes = 0 /\ result.kind = "none" /\ closes = 0
  BY DEF Init, NoResult
<1>2. ControlTypes
  BY <1>1 DEF ControlTypes, Phases
<1>3. OneOperation
  BY <1>1 DEF OneOperation, Reading, Writing
<1>4. ClosesOnce
  BY <1>1 DEF ClosesOnce
<1>5. QED BY <1>2, <1>3, <1>4 DEF Control

LEMMA ControlInvariant == Spec => []Control
BY ControlInit, ControlStep, PTL DEF Spec

\* A connection that is not closed waits for exactly one operation, a write in
\* the writing phase and a read otherwise: it is never stuck and never overlaps
\* operations, whatever the client sends, the application answers and the
\* server stops.
THEOREM AlwaysOneOperation == Spec => []OneOperation
BY ControlInvariant, PTL DEF Control

\* on_close_ is called when the connection closes and only then.
THEOREM AlwaysClosesOnce == Spec => []ClosesOnce
BY ControlInvariant, PTL DEF Control

\* A closed connection stays closed, sends nothing and leaves its buffer alone.
THEOREM ClosedStaysClosed == Spec => ClosedIsFinal
<1>1. ASSUME Control, Next, phase = "closed"
      PROVE  phase' = "closed" /\ UNCHANGED <<responses, buf>>
  <2> USE <1>1
  <2>1. ~Close /\ \A force \in BOOLEAN : ~Stop(force)
    BY DEF Control, ClosesOnce, Close, Stop
  <2>2. CASE Callbacks
    BY <2>1, <2>2 DEF Callbacks, OnClosed, OnReadFailed, OnRead, OnLastWrite, OnWrite
  <2>3. CASE ReceiveSome \/ Sent
    BY <2>3 DEF ReceiveSome, Receive, Sent
  <2>4. CASE ReadFails \/ WriteFails
    BY <2>4 DEF ReadFails, WriteFails, conn
  <2>5. QED BY <2>1, <2>2, <2>3, <2>4 DEF Next
<1>2. Control /\ [Next]_vars =>
        [phase = "closed" => phase' = "closed" /\ UNCHANGED <<responses, buf>>]_vars
  BY <1>1
<1>3. QED BY <1>2, ControlInvariant, PTL DEF Spec, ClosedIsFinal

-----------------------------------------------------------------------------
(* The connection implements ConnectionLifecycle.                          *)

\* Starting the next operation is Continue, or the process dies.
LEMMA StartsIsContinue ==
  ASSUME Control, Control', ~crashed, phase # "closed",
         result.kind \in {"read", "write"}, result'.kind = "none",
         NEW p \in {"headers", "body"}, Starts(p), phase = "body" => p = "body",
         draining' = draining, closes' = closes,
         phase = "writing" => ~draining
  PROVE  Lifecycle!Continue \/ Lifecycle!Die
<1>1. CASE crashed' = TRUE
  BY <1>1 DEF Control, ControlTypes, Phases, Lifecycle!Die, Lifecycle!Phases
<1>2. CASE ~crashed'
  <2>1. phase' \in Lifecycle!After(phase)
    BY <1>2 DEF Starts, Lifecycle!After, Control, ControlTypes, Phases
  <2>2. reads \in Nat /\ writes \in Nat
    BY DEF Control, ControlTypes
  <2>3. \/ reads' = reads + 1 /\ writes' = writes
        \/ reads' = reads /\ writes' = writes + 1
    BY <1>2, Zenon DEF Starts
  <2>4. reads' + writes' > 0
    BY <2>2, <2>3
  <2>5. crashed' = crashed
    BY <1>2 DEF Starts
  <2>6. QED
    BY <2>1, <2>4, <2>5 DEF Lifecycle!Continue
<1>3. QED BY <1>1, <1>2

LEMMA LifecycleStep ==
  Control /\ Control' /\ [Next]_vars => [Lifecycle!Next]_(Lifecycle!vars)
<1> SUFFICES ASSUME Control, Control', [Next]_vars
             PROVE  Lifecycle!Next \/ UNCHANGED Lifecycle!vars
  OBVIOUS
<1> USE DEF Lifecycle!Next
<1>1. CASE OnClosed
  <2>1. reads = 0 /\ writes = 0 /\ ~crashed
    BY <1>1 DEF OnClosed, Callback, Control, ControlTypes, OneOperation, Reading, Writing
  <2>2. Lifecycle!Return
    BY <1>1, <2>1 DEF OnClosed, Callback, NoResult, Lifecycle!Return
  <2>3. QED BY <2>2
<1>2. CASE OnReadFailed \/ OnLastWrite
  <2>1. reads = 0 /\ writes = 0 /\ ~crashed /\ phase # "closed"
    BY <1>2 DEF OnReadFailed, OnLastWrite, Close, Callback,
                Control, ControlTypes, Phases, OneOperation, Reading, Writing
  <2>2. closes' # 0
    BY <1>2, <2>1 DEF OnReadFailed, OnLastWrite, Close, Control, ClosesOnce
  <2>3. Lifecycle!Close
    BY <1>2, <2>1, <2>2 DEF OnReadFailed, OnLastWrite, Close, Callback, NoResult,
                            Lifecycle!Close
  <2>4. QED BY <2>3
<1>3. CASE OnRead
  <2>1. phase \in {"headers", "body"}
    BY <1>3 DEF OnRead, Callback, Control, ControlTypes, Phases, OneOperation, Reading, Writing
  <2>2. Starts(phase)
    BY <1>3, <2>1, ProcessInputStarts DEF OnRead
  <2>3. QED
    BY <1>3, <2>1, <2>2, StartsIsContinue DEF OnRead, Callback, NoResult
<1>4. CASE OnWrite
  <2>1. Starts("headers")
    BY <1>4, ProcessInputStarts DEF OnWrite, ReadMore, Starts
  <2>2. phase = "writing" /\ ~draining
    BY <1>4 DEF OnWrite, Ends, Callback, Control, ControlTypes, Phases, OneOperation,
                Reading, Writing
  <2>3. QED
    BY <1>4, <2>1, <2>2, StartsIsContinue DEF OnWrite, Callback, NoResult
<1>5. ASSUME NEW force \in BOOLEAN, Stop(force)
      PROVE  Lifecycle!Stop(force)
  BY <1>5 DEF Stop, Close, asio, Control, ControlTypes, ClosesOnce, Lifecycle!Stop
<1>6. CASE ReceiveSome \/ ReadFails \/ Sent \/ WriteFails
  <2>1. reads + writes > 0 /\ result.kind = "none" /\ result'.kind # "none" /\ ~crashed
    BY <1>6 DEF ReceiveSome, Receive, ReadFails, Sent, WriteFails, Completes,
                Control, ControlTypes
  <2>2. UNCHANGED <<phase, draining, closes, crashed>>
    BY <1>6 DEF ReceiveSome, Receive, ReadFails, Sent, WriteFails, conn
  <2>3. Lifecycle!Complete
    BY <2>1, <2>2 DEF Lifecycle!Complete
  <2>4. QED BY <2>3
<1>7. CASE UNCHANGED vars
  BY <1>7 DEF vars, conn, asio, Lifecycle!vars
<1>8. QED
  BY <1>1, <1>2, <1>3, <1>4, <1>5, <1>6, <1>7 DEF Next, Callbacks

\* Every behaviour of a connection is one of its lifecycle: callbacks start one
\* operation or close, closing is final and reported once, and stop() closes
\* what it is told to close.
THEOREM ConnectionImplementsLifecycle == Spec => ImplementsLifecycle
<1>1. Init => Lifecycle!Init
  BY DEF Init, NoResult, Lifecycle!Init
<1>2. QED
  BY <1>1, LifecycleStep, ControlInvariant, PTL
  DEF Spec, ImplementsLifecycle, Lifecycle!Spec

-----------------------------------------------------------------------------
(* The input buffer: what its operations keep.  The indices stay in order   *)
(* and inside the storage, and the unconsumed bytes stay the same bytes,   *)
(* wherever they are moved.                                                *)

LEMMA NewBufferIsBuffer == IsBuffer(NewBuffer) /\ Unconsumed(NewBuffer) = 0
BY BufferAssumption DEF IsBuffer, NewBuffer, Blank, Unconsumed

\* Compaction moves the unconsumed bytes to the front of the same storage.
LEMMA CompactKeeps ==
  ASSUME NEW b, IsBuffer(b)
  PROVE  LET c == Compact(b)
         IN /\ IsBuffer(c)
            /\ Unconsumed(c) = Unconsumed(b)
            /\ \A k \in 0 .. Unconsumed(b) - 1 : ByteAt(c, k) = ByteAt(b, k)
            /\ c.size = b.size /\ c.gen = b.gen
            /\ c.read = 0 \/ c.size - c.write >= LowWater
<1>1. CASE b.read > 0 /\ b.size - b.write < LowWater
  <2> DEFINE c == Compact(b)
  <2>1. /\ c.size = b.size /\ c.gen = b.gen /\ c.read = 0 /\ c.write = b.write - b.read
        /\ c.cells = [a \in 0 .. b.size - 1 |->
                        IF a < Unconsumed(b) THEN b.cells[b.read + a] ELSE b.cells[a]]
        /\ c = [cells |-> c.cells, size |-> c.size, read |-> c.read,
                write |-> c.write, gen |-> c.gen]
    BY <1>1 DEF Compact, Unconsumed, IsBuffer
  <2>2. \A k \in 0 .. Unconsumed(b) - 1 : ByteAt(c, k) = ByteAt(b, k)
    BY <2>1 DEF IsBuffer, Unconsumed, ByteAt
  <2>3. c.cells \in [0 .. c.size - 1 -> Int]
    BY <2>1 DEF IsBuffer, Unconsumed
  <2>4. IsBuffer(c)
    <3> HIDE DEF c
    <3> QED BY <2>1, <2>3 DEF IsBuffer
  <2>5. QED
    <3> HIDE DEF c
    <3>1. Unconsumed(c) = Unconsumed(b)
      BY <2>1 DEF IsBuffer, Unconsumed
    <3>2. QED
      BY <2>1, <2>2, <2>4, <3>1 DEF c
<1>2. CASE ~(b.read > 0 /\ b.size - b.write < LowWater)
  <2>1. Compact(b) = b
    BY <1>2 DEF Compact
  <2>2. b.read = 0 \/ b.size - b.write >= LowWater
    BY <1>2, BufferAssumption DEF IsBuffer
  <2>3. QED BY <2>1, <2>2
<1>3. QED BY <1>1, <1>2

\* Growth doubles the storage and keeps every byte where it was.
LEMMA GrowKeeps ==
  ASSUME NEW b, IsBuffer(b), b.size > 0
  PROVE  LET g == Grow(b)
         IN /\ IsBuffer(g)
            /\ Unconsumed(g) = Unconsumed(b)
            /\ \A k \in 0 .. Unconsumed(b) - 1 : ByteAt(g, k) = ByteAt(b, k)
            /\ g.write < g.size
            /\ IF b.size = b.write THEN g.size = 2 * b.size ELSE g.size = b.size
<1>1. CASE b.size = b.write
  <2> DEFINE g == Grow(b)
  <2>1. /\ g.size = 2 * b.size /\ g.gen = b.gen + 1 /\ g.read = b.read /\ g.write = b.write
        /\ g.cells = [a \in 0 .. 2 * b.size - 1 |-> IF a < b.size THEN b.cells[a] ELSE Blank]
        /\ g = [cells |-> g.cells, size |-> g.size, read |-> g.read,
                write |-> g.write, gen |-> g.gen]
    BY <1>1 DEF Grow, IsBuffer
  <2>2. \A k \in 0 .. Unconsumed(b) - 1 : ByteAt(g, k) = ByteAt(b, k)
    BY <2>1, <1>1 DEF IsBuffer, Unconsumed, ByteAt
  <2>3. g.cells \in [0 .. g.size - 1 -> Int]
    BY <2>1 DEF IsBuffer, Blank
  <2>4. IsBuffer(g)
    <3> HIDE DEF g
    <3> QED BY <2>1, <2>3 DEF IsBuffer
  <2>5. QED
    <3> HIDE DEF g
    <3>1. Unconsumed(g) = Unconsumed(b) /\ g.write < g.size
      BY <1>1, <2>1 DEF IsBuffer, Unconsumed
    <3>2. QED
      BY <1>1, <2>1, <2>2, <2>4, <3>1 DEF g
<1>2. CASE b.size # b.write
  BY <1>2 DEF Grow, IsBuffer
<1>3. QED BY <1>1, <1>2

\* read_more() leaves room for at least one byte, never disturbs the unconsumed
\* bytes, and resizes only when they fill the whole buffer.
LEMMA MakeRoomKeeps ==
  ASSUME NEW b, IsBuffer(b), b.size > 0
  PROVE  LET m == MakeRoom(b)
         IN /\ IsBuffer(m)
            /\ Unconsumed(m) = Unconsumed(b)
            /\ \A k \in 0 .. Unconsumed(b) - 1 : ByteAt(m, k) = ByteAt(b, k)
            /\ m.write < m.size
            /\ \/ m.size = b.size
               \/ m.size = 2 * Unconsumed(b)
<1> DEFINE c == Compact(b)
<1>1. /\ IsBuffer(c)
      /\ Unconsumed(c) = Unconsumed(b)
      /\ \A k \in 0 .. Unconsumed(b) - 1 : ByteAt(c, k) = ByteAt(b, k)
      /\ c.size = b.size
      /\ c.read = 0 \/ c.size - c.write >= LowWater
  BY CompactKeeps
<1>2. /\ IsBuffer(Grow(c))
      /\ Unconsumed(Grow(c)) = Unconsumed(c)
      /\ \A k \in 0 .. Unconsumed(c) - 1 : ByteAt(Grow(c), k) = ByteAt(c, k)
      /\ Grow(c).write < Grow(c).size
      /\ IF c.size = c.write THEN Grow(c).size = 2 * c.size ELSE Grow(c).size = c.size
  <2> HIDE DEF c
  <2> QED BY <1>1, GrowKeeps
<1> HIDE DEF c
<1>3. c.size = c.write => c.size = Unconsumed(c)
  BY <1>1, BufferAssumption DEF IsBuffer, Unconsumed
<1>4. QED
  BY <1>1, <1>2, <1>3 DEF MakeRoom, c

\* read_more() never shrinks the buffer, and has nothing to do for one whose
\* unconsumed bytes start at the front and leave room behind them.
LEMMA MakeRoomNeverShrinks ==
  ASSUME NEW b, IsBuffer(b), b.size > 0
  PROVE  MakeRoom(b).size >= b.size
<1> DEFINE c == Compact(b)
<1>1. IsBuffer(c) /\ c.size = b.size /\ b.size \in Nat
  BY CompactKeeps DEF IsBuffer
<1> HIDE DEF c
<1>2. IF c.size = c.write THEN Grow(c).size = 2 * c.size ELSE Grow(c).size = c.size
  BY <1>1, GrowKeeps
<1>3. QED BY <1>1, <1>2 DEF MakeRoom, c

LEMMA MakeRoomAtOrigin ==
  ASSUME NEW b, b.read = 0, b.size # b.write
  PROVE  MakeRoom(b) = b
BY DEF MakeRoom, Compact, Grow

\* Storing bytes behind the write index disturbs no unconsumed byte.
LEMMA StoreKeeps ==
  ASSUME NEW b, IsBuffer(b), NEW n \in Nat, NEW first \in Nat, b.write + n <= b.size
  PROVE  LET s == Store(b, b.write, n, first)
         IN /\ IsBuffer(s)
            /\ s.size = b.size /\ s.gen = b.gen /\ s.read = b.read /\ s.write = b.write
            /\ \A k \in 0 .. Unconsumed(b) - 1 : ByteAt(s, k) = ByteAt(b, k)
            /\ \A k \in Unconsumed(b) .. Unconsumed(b) + n - 1 :
                 ByteAt(s, k) = first + (k - Unconsumed(b))
<1> DEFINE s == Store(b, b.write, n, first)
<1>1. /\ s.size = b.size /\ s.gen = b.gen /\ s.read = b.read /\ s.write = b.write
      /\ s.cells = [a \in 0 .. b.size - 1 |->
                      IF a >= b.write /\ a < b.write + n THEN first + (a - b.write)
                                                         ELSE b.cells[a]]
      /\ s = [cells |-> s.cells, size |-> s.size, read |-> s.read,
              write |-> s.write, gen |-> s.gen]
  <2> DEFINE f == [a \in 0 .. b.size - 1 |->
                    IF a >= b.write /\ a < b.write + n THEN first + (a - b.write)
                                                       ELSE b.cells[a]]
  <2>1. s = [b EXCEPT !.cells = f]
    BY DEF Store
  <2> HIDE DEF s, f
  <2>2. /\ s.size = b.size /\ s.gen = b.gen /\ s.read = b.read /\ s.write = b.write
        /\ s.cells = f
        /\ s = [cells |-> s.cells, size |-> s.size, read |-> s.read,
                write |-> s.write, gen |-> s.gen]
    BY <2>1 DEF IsBuffer
  <2>3. QED BY <2>2 DEF f
<1>2. s.cells \in [0 .. s.size - 1 -> Int]
  BY <1>1 DEF IsBuffer
<1> HIDE DEF s
<1>3. IsBuffer(s)
  BY <1>1, <1>2 DEF IsBuffer
<1>4. \A k \in 0 .. Unconsumed(b) - 1 : ByteAt(s, k) = ByteAt(b, k)
  BY <1>1 DEF IsBuffer, Unconsumed, ByteAt
<1>5. \A k \in Unconsumed(b) .. Unconsumed(b) + n - 1 :
        ByteAt(s, k) = first + (k - Unconsumed(b))
  <2> SUFFICES ASSUME NEW k \in Unconsumed(b) .. Unconsumed(b) + n - 1
               PROVE  ByteAt(s, k) = first + (k - Unconsumed(b))
    OBVIOUS
  <2>1. /\ b.read + k \in 0 .. b.size - 1
        /\ b.read + k >= b.write /\ b.read + k < b.write + n
        /\ (b.read + k) - b.write = k - Unconsumed(b)
    BY DEF IsBuffer, Unconsumed
  <2>2. s.cells[b.read + k] = first + ((b.read + k) - b.write)
    BY <1>1, <2>1
  <2>3. QED BY <1>1, <2>1, <2>2 DEF ByteAt
<1>6. QED BY <1>1, <1>3, <1>4, <1>5 DEF s

\* Consuming n bytes leaves the others in order.
LEMMA ConsumeKeeps ==
  ASSUME NEW b, IsBuffer(b), NEW n \in Nat, n <= Unconsumed(b)
  PROVE  LET c == Consume(b, n)
         IN /\ IsBuffer(c)
            /\ c.size = b.size /\ c.gen = b.gen
            /\ Unconsumed(c) = Unconsumed(b) - n
            /\ \A k \in 0 .. Unconsumed(c) - 1 : ByteAt(c, k) = ByteAt(b, n + k)
<1> DEFINE c == Consume(b, n)
<1>1. CASE b.read + n = b.write
  <2>1. /\ c.size = b.size /\ c.gen = b.gen /\ c.cells = b.cells
        /\ c.read = 0 /\ c.write = 0
        /\ c = [cells |-> c.cells, size |-> c.size, read |-> c.read,
                write |-> c.write, gen |-> c.gen]
    BY <1>1 DEF Consume, IsBuffer
  <2> HIDE DEF c
  <2>2. IsBuffer(c)
    BY <1>1, <2>1 DEF IsBuffer
  <2>3. Unconsumed(c) = Unconsumed(b) - n
    BY <1>1, <2>1 DEF IsBuffer, Unconsumed
  <2>4. ASSUME NEW k \in 0 .. Unconsumed(c) - 1
        PROVE  ByteAt(c, k) = ByteAt(b, n + k)
    <3>1. k \in Int /\ b.read \in Int
      BY <2>1 DEF IsBuffer, Unconsumed
    <3>2. c.read + k = b.read + (n + k)
      BY <1>1, <2>1, <2>3, <3>1 DEF IsBuffer, Unconsumed
    <3>3. QED BY <2>1, <3>2 DEF ByteAt
  <2>5. QED BY <2>1, <2>2, <2>3, <2>4 DEF c
<1>2. CASE b.read + n # b.write
  <2>1. /\ c.size = b.size /\ c.gen = b.gen /\ c.cells = b.cells
        /\ c.read = b.read + n /\ c.write = b.write
        /\ c = [cells |-> c.cells, size |-> c.size, read |-> c.read,
                write |-> c.write, gen |-> c.gen]
    BY <1>2 DEF Consume, IsBuffer
  <2> HIDE DEF c
  <2>2. IsBuffer(c)
    BY <1>2, <2>1 DEF IsBuffer, Unconsumed
  <2>3. Unconsumed(c) = Unconsumed(b) - n
    BY <1>2, <2>1 DEF IsBuffer, Unconsumed
  <2>4. ASSUME NEW k \in 0 .. Unconsumed(c) - 1
        PROVE  ByteAt(c, k) = ByteAt(b, n + k)
    <3>1. k \in Int /\ b.read \in Int
      BY <2>1 DEF IsBuffer, Unconsumed
    <3>2. c.read + k = b.read + (n + k)
      BY <1>2, <2>1, <2>3, <3>1 DEF IsBuffer, Unconsumed
    <3>3. QED BY <2>1, <3>2 DEF ByteAt
  <2>5. QED BY <2>1, <2>2, <2>3, <2>4 DEF c
<1>3. QED BY <1>1, <1>2

\* A callback that adds the n bytes that arrived to the unconsumed ones.
LEMMA AdvanceKeeps ==
  ASSUME NEW b, IsBuffer(b), NEW n \in Nat, b.write + n <= b.size
  PROVE  LET a == [b EXCEPT !.write = b.write + n]
         IN /\ IsBuffer(a)
            /\ a.size = b.size /\ a.gen = b.gen
            /\ Unconsumed(a) = Unconsumed(b) + n
            /\ \A k \in 0 .. Unconsumed(a) - 1 : ByteAt(a, k) = ByteAt(b, k)
<1> DEFINE a == [b EXCEPT !.write = b.write + n]
<1>1. /\ a.size = b.size /\ a.gen = b.gen /\ a.cells = b.cells
      /\ a.read = b.read /\ a.write = b.write + n
      /\ a = [cells |-> a.cells, size |-> a.size, read |-> a.read,
              write |-> a.write, gen |-> a.gen]
  BY DEF IsBuffer
<1> HIDE DEF a
<1>2. QED BY <1>1 DEF IsBuffer, Unconsumed, ByteAt, a

-----------------------------------------------------------------------------
(* Numbers.                                                                *)

\* validate() keeps header size plus Content-Length inside std::size_t.
LEMMA SizesAdd ==
  ASSUME NEW h \in Nat, NEW n \in Nat, h <= MaxHeaderBytes, n <= MaxBodyBytes
  PROVE  SizeSum(h, n) = h + n
<1>1. SizeMax \in Nat /\ h + n \in 0 .. SizeMax
  BY LimitsAssumption DEF Validated
<1>2. \A d \in Nat : \A x \in 0 .. d : x % (d + 1) = x
  OBVIOUS
<1>3. QED BY <1>1, <1>2 DEF SizeSum

-----------------------------------------------------------------------------
(* Header blocks.                                                          *)

\* find() returns the first header end of the unconsumed bytes.
LEMMA FoundHeaderIsFirst ==
  ASSUME NEW b, EndLengths(b) # {}
  PROVE  /\ FoundHeader(b) \in EndLengths(b)
         /\ \A j \in EndLengths(b) : FoundHeader(b) <= j
<1>1. EndLengths(b) \subseteq Nat
  BY DEF EndLengths
<1>2. \E k \in EndLengths(b) : \A j \in EndLengths(b) : k <= j
  BY <1>1, LeastElement
<1>3. QED BY <1>2 DEF FoundHeader

\* and the byte found there ends the header block of some request.
LEMMA HeaderOfFound ==
  ASSUME NEW x, x \in HeaderEnds
  PROVE  /\ HeaderOf(x) \in 1 .. Len(stream.reqs)
         /\ stream.start[HeaderOf(x)] + stream.reqs[HeaderOf(x)].hdr - 1 = x
<1>1. \E i \in 1 .. Len(stream.reqs) : stream.start[i] + stream.reqs[i].hdr - 1 = x
  BY DEF HeaderEnds
<1>2. QED BY <1>1 DEF HeaderOf

\* The requests of a stream, as the assumption on Streams describes them.
LEMMA StreamFacts ==
  ASSUME stream \in Streams
  PROVE  /\ Len(stream.reqs) \in Nat
         /\ Len(stream.start) = Len(stream.reqs) + 1
         /\ \A i \in 1 .. Len(stream.reqs) :
              /\ stream.reqs[i] \in Requests
              /\ stream.reqs[i].hdr \in Nat /\ stream.reqs[i].hdr >= 4
              /\ stream.reqs[i].body \in Nat
              /\ stream.start[i + 1] = stream.start[i] + stream.reqs[i].hdr + stream.reqs[i].body
              /\ \A j \in i + 1 .. Len(stream.start) : stream.start[i + 1] <= stream.start[j]
         /\ \A i \in 1 .. Len(stream.reqs) + 1 : stream.start[i] \in Nat
         /\ stream.start[1] = 0
<1>1. StreamShape(stream)
  BY StreamAssumption
<1>2. Len(stream.reqs) \in Nat /\ Len(stream.start) = Len(stream.reqs) + 1
  BY <1>1 DEF StreamShape
<1>3. \A i \in 1 .. Len(stream.reqs) : stream.reqs[i] \in Requests
  BY <1>1 DEF StreamShape
<1>4. \A i \in 1 .. Len(stream.reqs) + 1 : stream.start[i] \in Nat
  BY <1>1, <1>2 DEF StreamShape
<1>5. QED
  BY <1>1, <1>2, <1>3, <1>4 DEF StreamShape, Requests

-----------------------------------------------------------------------------
(* The input buffer.  Input is what every callback may rely on and leaves   *)
(* behind; BodyOK is what is known of a request that waits for its body.    *)

Window(b, last) ==
  \A k \in 0 .. Unconsumed(b) - 1 : ByteAt(b, k) = last - Unconsumed(b) + k

Bounded(b) ==
  \/ b.size = BufferSize
  \/ b.size < 2 * (MaxHeaderBytes + MaxBodyBytes)

Input(b, last) ==
  IsBuffer(b) /\ b.size > 0 /\ Bounded(b) /\ Window(b, last)

BodyOK(r, h) ==
  /\ r.idx \in 1 .. Len(stream.reqs)
  /\ h \in 1 .. MaxHeaderBytes
  /\ stream.reqs[r.idx].body <= MaxBodyBytes

\* A started read fills the free space of the buffer, which is not empty.
ReadStarted ==
  /\ target' = [gen |-> buf'.gen, at |-> buf'.write, len |-> buf'.size - buf'.write]
  /\ buf'.write < buf'.size

LEMMA LimitTypes == MaxHeaderBytes \in Nat /\ MaxBodyBytes \in Nat /\ SizeMax \in Nat
BY LimitsAssumption DEF Validated

LEMMA ReadMoreInput ==
  ASSUME NEW b, NEW last \in Nat, Input(b, last), ReadMore(b),
         Unconsumed(b) < MaxHeaderBytes + MaxBodyBytes
  PROVE  Input(buf', last) /\ ReadStarted
<1> DEFINE m == MakeRoom(b)
<1>1. /\ IsBuffer(m)
      /\ Unconsumed(m) = Unconsumed(b)
      /\ \A k \in 0 .. Unconsumed(b) - 1 : ByteAt(m, k) = ByteAt(b, k)
      /\ m.write < m.size
      /\ m.size = b.size \/ m.size = 2 * Unconsumed(b)
  BY MakeRoomKeeps DEF Input
<1>2. /\ buf' = m
      /\ target' = [gen |-> m.gen, at |-> m.write, len |-> m.size - m.write]
  BY DEF ReadMore
<1> HIDE DEF m
<1>3. Unconsumed(b) \in Nat /\ m.size \in Nat /\ m.write \in Nat
  BY <1>1 DEF Input, IsBuffer, Unconsumed
<1>4. Bounded(m)
  BY <1>1, <1>3, LimitTypes DEF Input, Bounded
<1>5. Window(m, last)
  BY <1>1 DEF Input, Window
<1>6. m.size > 0
  BY <1>1, <1>3
<1>7. QED
  BY <1>1, <1>2, <1>4, <1>5, <1>6 DEF Input, ReadStarted

LEMMA ServeInput ==
  ASSUME NEW b, NEW last \in Nat, Input(b, last), stream \in Streams,
         NEW r, NEW h, BodyOK(r, h),
         Unconsumed(b) >= SizeSum(h, stream.reqs[r.idx].body), Serve(b, h, r)
  PROVE  Input(buf', last)
<1> DEFINE n == SizeSum(h, stream.reqs[r.idx].body)
           c == Consume(b, n)
<1>1. n \in Nat /\ n <= Unconsumed(b)
  <2>1. /\ h \in Nat /\ h <= MaxHeaderBytes
        /\ stream.reqs[r.idx].body \in Nat /\ stream.reqs[r.idx].body <= MaxBodyBytes
    BY StreamFacts, LimitTypes DEF BodyOK
  <2>2. n = h + stream.reqs[r.idx].body
    BY <2>1, SizesAdd
  <2>3. Unconsumed(b) \in Int
    BY DEF Input, IsBuffer, Unconsumed
  <2>4. QED BY <2>1, <2>2, <2>3
<1>2. buf' = c
  BY Zenon DEF Serve
<1> HIDE DEF n
<1>3. /\ IsBuffer(c) /\ c.size = b.size /\ Unconsumed(c) = Unconsumed(b) - n
      /\ \A k \in 0 .. Unconsumed(c) - 1 : ByteAt(c, k) = ByteAt(b, n + k)
  BY <1>1, ConsumeKeeps DEF Input
<1> HIDE DEF c
<1>4. Unconsumed(b) \in Nat
  BY DEF Input, IsBuffer, Unconsumed
<1>5. Window(c, last)
  <2> SUFFICES ASSUME NEW k \in 0 .. Unconsumed(c) - 1
               PROVE  ByteAt(c, k) = last - Unconsumed(c) + k
    BY DEF Window
  <2>1. n + k \in 0 .. Unconsumed(b) - 1
    BY <1>1, <1>3, <1>4
  <2>2. ByteAt(b, n + k) = last - Unconsumed(b) + (n + k)
    BY <2>1 DEF Input, Window
  <2>3. QED BY <1>1, <1>3, <1>4, <2>2
<1>6. QED
  BY <1>2, <1>3, <1>5 DEF Input, Bounded

\* A request that parse_headers accepts is within the limits.
LEMMA ParsedIsOK ==
  ASSUME NEW b, stream \in Streams, EndLengths(b) # {},
         ParseStatus(HeaderOf(ByteAt(b, FoundHeader(b) - 1)), FoundHeader(b)) = 0
  PROVE  /\ BodyOK(Parsed(b, FoundHeader(b)), FoundHeader(b))
         /\ FoundHeader(b) \in 1 .. Unconsumed(b)
<1> DEFINE end == FoundHeader(b)
           i   == HeaderOf(ByteAt(b, end - 1))
<1>1. end \in 1 .. Unconsumed(b) /\ ByteAt(b, end - 1) \in HeaderEnds
  BY FoundHeaderIsFirst DEF EndLengths
<1>2. i \in 1 .. Len(stream.reqs)
  BY <1>1, HeaderOfFound
<1>3. ~(end > MaxHeaderBytes) /\ ~(stream.reqs[i].body > MaxBodyBytes)
  <2> HIDE DEF end, i
  <2>1. ParseStatus(i, end) = 0
    BY DEF end, i
  <2>2. QED BY <2>1 DEF ParseStatus
<1>4. Parsed(b, end).idx = i
  BY DEF Parsed
<1>5. QED
  <2> HIDE DEF end, i
  <2>1. BodyOK(Parsed(b, end), end)
    BY <1>1, <1>2, <1>3, <1>4, StreamFacts, LimitTypes DEF BodyOK
  <2>2. QED BY <1>1, <2>1 DEF end

\* AwaitBody and ProcessInput: the buffer stays good, a started read fills its
\* free space, and a request that waits for its body is within the limits.
Good(last) ==
  /\ Input(buf', last)
  /\ \/ reads' = reads /\ target' = target
     \/ ReadStarted
  /\ (phase' = "body" /\ ~crashed') => BodyOK(request, headerSize)'

LEMMA AwaitBodyGood ==
  ASSUME NEW b, NEW last \in Nat, Input(b, last), stream \in Streams, stream' = stream,
         NEW r, NEW h, BodyOK(r, h), AwaitBody(b, h, r)
  PROVE  Good(last)
<1>1. BodyOK(request, headerSize)'
  BY DEF AwaitBody, BodyOK
<1>2. /\ r.idx # 0
      /\ SizeSum(h, stream.reqs[r.idx].body) = h + stream.reqs[r.idx].body
      /\ h + stream.reqs[r.idx].body <= MaxHeaderBytes + MaxBodyBytes
      /\ h + stream.reqs[r.idx].body \in Nat
  <2>1. /\ h \in Nat /\ h <= MaxHeaderBytes /\ r.idx # 0
        /\ stream.reqs[r.idx].body \in Nat /\ stream.reqs[r.idx].body <= MaxBodyBytes
    BY StreamFacts, LimitTypes DEF BodyOK
  <2>2. QED BY <2>1, SizesAdd, LimitTypes
<1>3. Unconsumed(b) \in Nat
  BY DEF Input, IsBuffer, Unconsumed
<1>4. CASE Unconsumed(b) < SizeSum(h, ContentLength(r)) /\ ReadMore(b)
  <2>1. Unconsumed(b) < MaxHeaderBytes + MaxBodyBytes
    BY <1>2, <1>3, <1>4, LimitTypes DEF ContentLength
  <2>2. QED BY <1>1, <1>4, <2>1, ReadMoreInput DEF Good
<1>5. CASE Unconsumed(b) >= SizeSum(h, ContentLength(r)) /\ Serve(b, h, r)
  <2>1. Input(buf', last)
    BY <1>2, <1>5, ServeInput DEF ContentLength
  <2>2. reads' = reads /\ target' = target
    BY <1>5, Zenon DEF Serve, Write
  <2>3. QED BY <1>1, <2>1, <2>2 DEF Good
<1>6. QED BY <1>4, <1>5 DEF AwaitBody

LEMMA ProcessInputGood ==
  ASSUME NEW b, NEW last \in Nat, Input(b, last), stream \in Streams, stream' = stream,
         NEW p \in {"headers", "body"}, NEW h, NEW r, p = "body" => BodyOK(r, h),
         ProcessInput(b, p, h, r)
  PROVE  Good(last)
<1>1. ASSUME NEW status, Fail(b, status)
      PROVE  Good(last)
  BY <1>1 DEF Fail, Write, Good
<1>2. CASE p = "headers" /\ EndLengths(b) = {}
  <2>1. CASE Fail(b, 431)
    BY <1>1, <2>1
  <2>2. CASE Unconsumed(b) < MaxHeaderBytes /\ phase' = "headers" /\ ReadMore(b)
    <3>1. Unconsumed(b) < MaxHeaderBytes + MaxBodyBytes
      BY <2>2, LimitTypes DEF Input, IsBuffer, Unconsumed
    <3>2. QED BY <2>2, <3>1, ReadMoreInput DEF Good
  <2>3. QED BY <1>2, <2>1, <2>2 DEF ProcessInput
<1>3. CASE p = "headers" /\ EndLengths(b) # {}
  <2> DEFINE end == FoundHeader(b)
             status == ParseStatus(HeaderOf(ByteAt(b, end - 1)), end)
  <2>1. CASE Fail(b, status)
    BY <1>1, <2>1
  <2>2. CASE status = 0 /\ AwaitBody(b, end, Parsed(b, end))
    BY <1>3, <2>2, ParsedIsOK, AwaitBodyGood
  <2>3. QED BY <1>3, <2>1, <2>2 DEF ProcessInput
<1>4. CASE p = "body"
  BY <1>4, AwaitBodyGood DEF ProcessInput
<1>5. QED BY <1>2, <1>3, <1>4

-----------------------------------------------------------------------------
(* The inductive invariant.  The three invariants about the buffer hold    *)
(* together: a read stores the right bytes because it points at the free   *)
(* space, there is free space because of what MakeRoom leaves, and the     *)
(* buffer stays bounded because a waiting request is within the limits.    *)

Data ==
  /\ Control
  /\ stream \in Streams /\ received \in Nat
  /\ IsBuffer(buf) /\ buf.size > 0 /\ BufferBound
  /\ result.bytes \in Nat
  /\ ReadTargetsFreeSpace
  /\ phase # "closed" => buf.write + Arrived <= buf.size
  /\ WindowIsStream
  /\ (phase = "body" /\ ~crashed) => BodyOK(request, headerSize)

LEMMA GoodKeepsData ==
  ASSUME Data, Control', Good(received), reads = 0,
         stream' = stream, received' = received, result' = NoResult
  PROVE  Data'
<1>1. Arrived' = 0 /\ result'.bytes \in Nat
  BY DEF Arrived, NoResult
<1>2. IsBuffer(buf') /\ buf'.size > 0 /\ Bounded(buf') /\ Window(buf', received)
  BY DEF Good, Input
<1>3. Unconsumed(buf') \in Nat /\ buf'.write <= buf'.size /\ buf'.write \in Nat
      /\ buf'.size \in Nat
  BY <1>2 DEF IsBuffer, Unconsumed
<1>4. WindowIsStream'
  BY <1>1, <1>2, <1>3 DEF WindowIsStream, Window
<1>5. BufferBound'
  BY <1>2 DEF Bounded, BufferBound
<1>6. ReadTargetsFreeSpace'
  <2>1. CASE ReadStarted
    BY <1>3, <2>1 DEF ReadStarted, ReadTargetsFreeSpace
  <2>2. CASE reads' = reads
    BY <2>2 DEF ReadTargetsFreeSpace
  <2>3. QED BY <2>1, <2>2 DEF Good
<1>7. IsBuffer(buf)'
  BY <1>2
<1>8. ((phase = "body" /\ ~crashed) => BodyOK(request, headerSize))'
  BY DEF Good
<1>9. (phase # "closed" => buf.write + Arrived <= buf.size)'
  BY <1>1, <1>3
<1>10. stream' \in Streams /\ received' \in Nat
  BY DEF Data
<1>11. QED
  BY <1>1, <1>2, <1>4, <1>5, <1>6, <1>7, <1>8, <1>9, <1>10 DEF Data

\* A step that leaves the data alone and closes the connection or keeps its
\* phase preserves the invariant.
LEMMA IdleKeepsData ==
  ASSUME Data, Control', UNCHANGED <<buf, headerSize, request, target, stream, received>>,
         phase' = phase \/ phase' = "closed",
         crashed' = crashed,
         reads' \in Nat, reads' <= reads,
         result'.bytes \in Nat,
         phase' # "closed" => Arrived' = Arrived
  PROVE  Data'
<1>1. IsBuffer(buf)' /\ buf'.size > 0 /\ BufferBound'
  BY DEF Data, BufferBound
<1>2. ReadTargetsFreeSpace'
  BY DEF Data, ReadTargetsFreeSpace, Control, ControlTypes
<1>3. (phase # "closed" => buf.write + Arrived <= buf.size)'
  BY DEF Data
<1>4. WindowIsStream'
  BY DEF Data, WindowIsStream, Unconsumed, ByteAt
<1>5. ((phase = "body" /\ ~crashed) => BodyOK(request, headerSize))'
  BY DEF Data, BodyOK
<1>6. stream' \in Streams /\ received' \in Nat
  BY DEF Data
<1>7. QED
  BY <1>1, <1>2, <1>3, <1>4, <1>5, <1>6 DEF Data

\* The kernel stores bytes behind the write index.
LEMMA ReceiveKeepsData ==
  ASSUME Data, Control', ReceiveSome
  PROVE  Data'
<1>1. PICK n \in 1 .. target.len : Receive(n)
  BY DEF ReceiveSome
<1>2. /\ phase # "closed" /\ reads > 0 /\ ~crashed
      /\ result.kind = "none"
      /\ result' = [kind |-> "read", bytes |-> n, failed |-> FALSE]
      /\ received' = received + n
      /\ UNCHANGED <<phase, headerSize, request, crashed, stream>>
      /\ reads' = reads - 1
  BY <1>1 DEF Receive, Completes
<1>3. /\ target = [gen |-> buf.gen, at |-> buf.write, len |-> buf.size - buf.write]
      /\ IsBuffer(buf)
  BY <1>2 DEF Data, ReadTargetsFreeSpace
<1>4. n \in Nat /\ buf.write + n <= buf.size /\ received \in Nat
  BY <1>3 DEF Data, IsBuffer
<1>5. buf' = Store(buf, buf.write, n, received)
  BY <1>1, <1>3 DEF Receive
<1>6. /\ IsBuffer(buf')
      /\ buf'.size = buf.size /\ buf'.gen = buf.gen
      /\ buf'.read = buf.read /\ buf'.write = buf.write
      /\ \A k \in 0 .. Unconsumed(buf) - 1 : ByteAt(buf', k) = ByteAt(buf, k)
      /\ \A k \in Unconsumed(buf) .. Unconsumed(buf) + n - 1 :
           ByteAt(buf', k) = received + (k - Unconsumed(buf))
  BY <1>3, <1>4, <1>5, StoreKeeps
<1>7. Arrived = 0 /\ Arrived' = n
  BY <1>2 DEF Arrived
<1>8. Unconsumed(buf') = Unconsumed(buf) /\ Unconsumed(buf) \in Nat
  BY <1>3, <1>6 DEF Unconsumed, IsBuffer
<1>9. WindowIsStream'
  <2> SUFFICES ASSUME NEW k \in 0 .. Unconsumed(buf) + n - 1
               PROVE  ByteAt(buf', k) = (received + n) - (Unconsumed(buf) + n) + k
    BY <1>2, <1>7, <1>8 DEF WindowIsStream
  <2>1. CASE k < Unconsumed(buf)
    <3>1. ByteAt(buf, k) = received - Unconsumed(buf) + k
      BY <1>2, <1>4, <1>7, <1>8, <2>1 DEF Data, WindowIsStream
    <3>2. QED BY <1>4, <1>6, <1>8, <2>1, <3>1
  <2>2. CASE k >= Unconsumed(buf)
    BY <1>4, <1>6, <1>8, <2>2
  <2>3. QED BY <1>4, <1>8, <2>1, <2>2
<1>10. reads' = 0
  BY <1>2 DEF Data, Control, ControlTypes, Phases, OneOperation, Reading, Writing
<1>11. ReadTargetsFreeSpace' /\ BufferBound' /\ buf'.size > 0
  BY <1>6, <1>10 DEF ReadTargetsFreeSpace, Data, BufferBound
<1>12. ((phase = "body" /\ ~crashed) => BodyOK(request, headerSize))'
  BY <1>2 DEF Data, BodyOK
<1>13. (phase # "closed" => buf.write + Arrived <= buf.size)'
  BY <1>4, <1>6, <1>7
<1>14. stream' \in Streams /\ received' \in Nat /\ result'.bytes \in Nat
  BY <1>2, <1>4 DEF Data
<1>15. QED
  BY <1>6, <1>9, <1>11, <1>12, <1>13, <1>14 DEF Data

\* The unconsumed bytes of an open connection, alone and with what a completed
\* read has added to them, are good input.
LEMMA OpenInput ==
  ASSUME Data, phase # "closed", Arrived = 0
  PROVE  Input(buf, received) /\ received \in Nat /\ stream \in Streams
<1>1. Unconsumed(buf) \in Nat
  BY DEF Data, IsBuffer, Unconsumed
<1>2. QED
  BY <1>1 DEF Data, Input, Bounded, BufferBound, Window, WindowIsStream

LEMMA ArrivedInput ==
  ASSUME Data, phase # "closed", result.kind = "read",
         NEW b, b = [buf EXCEPT !.write = buf.write + result.bytes]
  PROVE  /\ Input(b, received) /\ received \in Nat /\ stream \in Streams
         /\ Unconsumed(b) = Unconsumed(buf) + Arrived
<1>1. Arrived = result.bytes /\ Arrived \in Nat
  BY DEF Arrived, Data
<1>2. buf.write + result.bytes <= buf.size /\ IsBuffer(buf) /\ result.bytes \in Nat
  BY <1>1 DEF Data
<1>3. /\ IsBuffer(b) /\ b.size = buf.size
      /\ Unconsumed(b) = Unconsumed(buf) + result.bytes
      /\ \A k \in 0 .. Unconsumed(b) - 1 : ByteAt(b, k) = ByteAt(buf, k)
  BY <1>2, AdvanceKeeps
<1>4. Window(b, received)
  <2>1. /\ Unconsumed(b) = Unconsumed(buf) + Arrived /\ Unconsumed(b) \in Int
        /\ Unconsumed(buf) \in Int /\ Arrived \in Int
    BY <1>1, <1>2, <1>3 DEF IsBuffer, Unconsumed
  <2> SUFFICES ASSUME NEW k \in Int, k >= 0, k <= Unconsumed(b) - 1
               PROVE  ByteAt(b, k) = received - Unconsumed(b) + k
    BY <2>1 DEF Window
  <2>2. k \in 0 .. Unconsumed(buf) + Arrived - 1
    BY <2>1
  <2>3. ByteAt(buf, k) = received - (Unconsumed(buf) + Arrived) + k
    BY <2>2 DEF Data, WindowIsStream
  <2>4. QED BY <1>1, <1>3, <2>1, <2>2, <2>3
<1>5. Bounded(b) /\ b.size > 0
  BY <1>3 DEF Data, Bounded, BufferBound
<1>6. QED BY <1>1, <1>3, <1>4, <1>5 DEF Input, Data

LEMMA DataStep == Data /\ [Next]_vars => Data'
<1> SUFFICES ASSUME Data, [Next]_vars PROVE Data'
  OBVIOUS
<1>0. Control /\ Control'
  BY ControlStep DEF Data
<1>1. CASE OnClosed
  BY <1>0, <1>1, IdleKeepsData
  DEF OnClosed, Callback, NoResult, Control, ControlTypes
<1>2. CASE OnReadFailed \/ OnLastWrite
  BY <1>0, <1>2, IdleKeepsData
  DEF OnReadFailed, OnLastWrite, Close, Callback, NoResult, Control, ControlTypes
<1>3. CASE OnRead
  <2> DEFINE b == [buf EXCEPT !.write = buf.write + result.bytes]
  <2>1. /\ phase \in {"headers", "body"} /\ reads = 0 /\ ~crashed
        /\ result.kind = "read"
    BY <1>0, <1>3 DEF OnRead, Callback, Control, ControlTypes, Phases,
                      OneOperation, Reading, Writing
  <2>5. Input(b, received)
    BY <2>1, ArrivedInput
  <2> HIDE DEF b
  <2>6. Good(received)
    <3>1. ProcessInput(b, phase, headerSize, request) /\ stream' = stream
      BY <1>3 DEF OnRead, Callback, b
    <3>2. received \in Nat /\ stream \in Streams
      BY DEF Data
    <3>3. phase = "body" => BodyOK(request, headerSize)
      BY <2>1 DEF Data
    <3>4. QED BY <2>1, <2>5, <3>1, <3>2, <3>3, ProcessInputGood
  <2>7. QED
    BY <1>0, <1>3, <2>1, <2>6, GoodKeepsData DEF OnRead, Callback
<1>4. CASE OnWrite
  <2>1. reads = 0 /\ ~crashed /\ phase # "closed" /\ Arrived = 0
    BY <1>0, <1>4 DEF OnWrite, Callback, Control, ControlTypes, Phases,
                      OneOperation, Reading, Writing, Arrived
  <2>2. Unconsumed(buf) \in Nat
    BY DEF Data, IsBuffer, Unconsumed
  <2>3. Input(buf, received)
    BY <2>1, OpenInput
  <2>4. received \in Nat /\ stream \in Streams /\ stream' = stream
    BY <1>4 DEF Data, OnWrite, Callback
  <2>5. ASSUME ProcessInput(buf, "headers", 0, NoRequest)
        PROVE  Good(received)
    <3>1. "headers" \in {"headers", "body"} /\ ("headers" = "body" => BodyOK(NoRequest, 0))
      OBVIOUS
    <3>2. QED BY <2>3, <2>4, <2>5, <3>1, ProcessInputGood
  <2>6. ASSUME ~Leftover(buf), phase' = "headers", ReadMore(buf)
        PROVE  Good(received)
    <3>1. Unconsumed(buf) < MaxHeaderBytes + MaxBodyBytes
      BY <2>2, <2>6, LimitsAssumption DEF Validated, Leftover, Unconsumed, Data, IsBuffer
    <3>2. Input(buf', received) /\ ReadStarted
      BY <2>3, <2>4, <2>6, <3>1, ReadMoreInput
    <3>3. phase' # "body"
      BY <2>6
    <3>4. QED BY <3>2, <3>3 DEF Good
  <2>7. Good(received)
    <3>1. \/ ProcessInput(buf, "headers", 0, NoRequest)
          \/ ~Leftover(buf) /\ phase' = "headers" /\ ReadMore(buf)
      BY <1>4, Zenon DEF OnWrite
    <3>2. QED BY <2>5, <2>6, <3>1
  <2>8. QED
    BY <1>0, <1>4, <2>1, <2>7, GoodKeepsData DEF OnWrite, Callback
<1>5. ASSUME NEW force \in BOOLEAN, Stop(force)
      PROVE  Data'
  BY <1>0, <1>5, IdleKeepsData
  DEF Stop, Close, asio, Data, Control, ControlTypes, Arrived
<1>6. CASE ReceiveSome
  BY <1>0, <1>6, ReceiveKeepsData
<1>7. CASE ReadFails \/ Sent \/ WriteFails
  BY <1>0, <1>7, IdleKeepsData
  DEF ReadFails, Sent, WriteFails, Completes, conn, Control, ControlTypes, Arrived
<1>8. CASE UNCHANGED vars
  BY <1>0, <1>8, IdleKeepsData
  DEF vars, conn, asio, Data, Control, ControlTypes, Arrived
<1>9. QED
  BY <1>1, <1>2, <1>3, <1>4, <1>5, <1>6, <1>7, <1>8 DEF Next, Callbacks

LEMMA DataInit == Init => Data
<1> SUFFICES ASSUME Init PROVE Data
  OBVIOUS
<1>1. Control
  BY ControlInit
<1>2. /\ buf = NewBuffer /\ result = NoResult /\ phase = "headers"
      /\ target = [gen |-> 0, at |-> 0, len |-> BufferSize]
      /\ stream \in Streams /\ received = 0
  BY DEF Init
<1>3. /\ IsBuffer(buf) /\ Unconsumed(buf) = 0
      /\ buf.size = BufferSize /\ buf.write = 0 /\ buf.gen = 0
  BY <1>2, NewBufferIsBuffer DEF NewBuffer
<1>4. Arrived = 0 /\ result.bytes \in Nat
  BY <1>2 DEF NoResult, Arrived
<1>5. WindowIsStream
  BY <1>3, <1>4 DEF WindowIsStream
<1>6. ReadTargetsFreeSpace
  BY <1>2, <1>3, BufferAssumption DEF ReadTargetsFreeSpace
<1>7. QED
  BY <1>1, <1>2, <1>3, <1>4, <1>5, <1>6, BufferAssumption DEF Data, BufferBound

LEMMA DataInvariant == Spec => []Data
BY DataInit, DataStep, PTL DEF Spec

\* However the client fragments its stream, and through compaction, growth and
\* consumption, the unconsumed bytes of an open connection are consecutive
\* bytes of the stream and end at the last one received.
THEOREM WindowIsAlwaysStream == Spec => []WindowIsStream
BY DataInvariant, PTL DEF Data

\* A read in flight on an open connection never points into moved or freed
\* storage, never overlaps unconsumed bytes and is never empty.
THEOREM ReadsAlwaysTargetFreeSpace == Spec => []ReadTargetsFreeSpace
BY DataInvariant, PTL DEF Data

\* The buffer never doubles past twice what one request within the limits can
\* occupy.
THEOREM BufferAlwaysBounded == Spec => []BufferBound
BY DataInvariant, PTL DEF Data
=============================================================================
