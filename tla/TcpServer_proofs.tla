-------------------------- MODULE TcpServer_proofs --------------------------
(***************************************************************************)
(* The server, for any number of workers, connections and calls of         *)
(* listen() and stop().  The argument is about one slot at a time: a step  *)
(* leaves a connection alone or takes it through one transition of its     *)
(* life (SlotStep), and the loop of its worker runs while it has one left. *)
(***************************************************************************)
EXTENDS TcpServer, FiniteSetTheorems, FunctionTheorems, TLAPS

ServerTypes ==
  /\ main \in {"idle", "serving", "unwinding"} /\ listens \in Nat /\ stops \in Nat
  /\ running \in [Workers -> BOOLEAN]
  /\ acceptor \in [Workers -> {"open", "closed"}]
  /\ accept \in [Workers -> {"none", "pending", "accepted", "failed"}]
  /\ stopping \in [Workers -> BOOLEAN]
  /\ stopTasks \in [Workers -> Nat]
  /\ signal \in {"unarmed", "armed", "raised"}
  /\ signalRuns \in BOOLEAN /\ signalOff \in BOOLEAN
  /\ crashed \in BOOLEAN

ConnTypes == conns \in [Workers -> [Slots -> Connections]]

-----------------------------------------------------------------------------
(* Types.                                                                  *)

LEMMA ServerTypesKept == ServerTypes /\ [Next]_vars => ServerTypes'
<1> SUFFICES ASSUME ServerTypes, [Next]_vars PROVE ServerTypes'
  OBVIOUS
<1> USE DEF ServerTypes, sigs, ports, calls
<1>1. ASSUME Listen PROVE ServerTypes'
  BY <1>1 DEF Listen, Armed
<1>2. ASSUME ListenFails PROVE ServerTypes'
  BY <1>2 DEF ListenFails
<1>3. ASSUME ThreadsFail PROVE ServerTypes'
  BY <1>3 DEF ThreadsFail, Armed
<1>4. ASSUME ListenReturns PROVE ServerTypes'
  BY <1>4 DEF ListenReturns
<1>5. ASSUME PostStop PROVE stopTasks' \in [Workers -> Nat] /\ signalOff' \in BOOLEAN
  BY <1>5 DEF PostStop
<1>6. ASSUME CallStop PROVE ServerTypes'
  BY <1>5, <1>6 DEF CallStop
<1>7. ASSUME RaiseSignal \/ SignalLoopEnds PROVE ServerTypes'
  BY <1>7 DEF RaiseSignal, SignalLoopEnds
<1>8. ASSUME OnSignal PROVE ServerTypes'
  BY <1>5, <1>8 DEF OnSignal
<1>9. ASSUME NEW w \in Workers, Arrives(w) \/ AcceptFails(w) \/ OnAccept(w)
      PROVE  ServerTypes'
  <2>1. accept' \in [Workers -> {"none", "pending", "accepted", "failed"}]
    BY <1>9 DEF Arrives, AcceptFails, OnAccept
  <2>2. QED BY <1>9, <2>1 DEF Arrives, AcceptFails, OnAccept
<1>10. ASSUME NEW w \in Workers, StopTask(w) PROVE ServerTypes'
  <2>1. stopTasks' \in [Workers -> Nat]
    BY <1>10 DEF StopTask, TakeStopTask
  <2>2. acceptor' \in [Workers -> {"open", "closed"}] /\ stopping' \in [Workers -> BOOLEAN]
    BY <1>10 DEF StopTask
  <2>3. accept' \in [Workers -> {"none", "pending", "accepted", "failed"}]
    BY <1>10 DEF StopTask
  <2>4. crashed' \in BOOLEAN
    BY <1>10 DEF StopTask
  <2>5. QED BY <1>10, <2>1, <2>2, <2>3, <2>4 DEF StopTask
<1>11. ASSUME NEW w \in Workers, LoopEnds(w) PROVE ServerTypes'
  BY <1>11 DEF LoopEnds
<1>12. ASSUME NEW w \in Workers, NEW s \in Slots,
              Completes(w, s) \/ Callback(w, s) \/ CallbackThrows(w, s)
       PROVE  ServerTypes'
  BY <1>12 DEF Completes, Callback, CallbackThrows
<1>13. CASE UNCHANGED vars
  BY <1>13 DEF vars
<1>14. QED
  BY <1>1, <1>2, <1>3, <1>4, <1>6, <1>7, <1>8, <1>9, <1>10, <1>11, <1>12, <1>13
     DEF Next

-----------------------------------------------------------------------------
(* The connections, one slot at a time.                                    *)

Transitions(c) ==
  {c, [c EXCEPT !.born = TRUE]}
      \cup (IF c.born /\ c.op = "pending" THEN {[c EXCEPT !.op = "ready"]} ELSE {})
      \cup (IF c.born /\ c.op = "ready" THEN Outcomes(c) ELSE {})
      \cup (IF c.born /\ c.known THEN {[Closed(c) EXCEPT !.draining = TRUE]} ELSE {})

\* The slot of the connection that an accept callback creates.
Admitted(w) == CHOOSE s \in Slots \ Born(w) : \A t \in Slots \ Born(w) : s <= t
Admits(w) == OnAccept(w) /\ accept[w] = "accepted" /\ HasRoom(w)

\* What a step may do to a slot, and when.
SlotStep(w, s) ==
  /\ conns'[w][s] \in Transitions(conns[w][s])
  /\ conns'[w][s] # conns[w][s] => running[w] /\ ~crashed
  /\ (conns'[w][s].born /\ ~conns[w][s].born) => s = Admitted(w) /\ Admits(w)

LEMMA TransitionTypes ==
  ASSUME NEW c \in Connections, NEW d \in Transitions(c)
  PROVE  d \in Connections
<1>1. c \in Connections /\ Closed(c) \in Connections
  BY DEF Closed, Connections
<1>2. CASE d = [c EXCEPT !.born = TRUE] \/ d = [c EXCEPT !.op = "ready"]
  BY <1>1, <1>2 DEF Connections
<1>3. CASE d = [Closed(c) EXCEPT !.draining = TRUE]
  <2> DEFINE k == Closed(c)
  <2> HIDE DEF k
  <2>1. k \in Connections /\ d = [k EXCEPT !.draining = TRUE]
    BY <1>1, <1>3 DEF k
  <2>2. QED BY <2>1 DEF Connections
<1>4. CASE d \in Outcomes(c)
  <2> DEFINE k == Closed(c)
  <2> HIDE DEF k
  <2>1. \/ d = [c EXCEPT !.op = "none"]
        \/ d = [k EXCEPT !.op = "none"]
        \/ \E p \in {"headers", "body", "writing"} :
             d = [c EXCEPT !.phase = p, !.op = "pending"]
    BY <1>4 DEF Outcomes, k
  <2>2. k \in Connections
    BY <1>1 DEF k
  <2>3. QED BY <1>1, <2>1, <2>2 DEF Connections
<1>5. QED BY <1>1, <1>2, <1>3, <1>4 DEF Transitions

LEMMA SlotSteps ==
  ASSUME ConnTypes, [Next]_vars, NEW w \in Workers, NEW s \in Slots
  PROVE  SlotStep(w, s)
<1> DEFINE c == conns[w][s]
<1>1. CASE conns' = conns
  BY <1>1 DEF SlotStep, Transitions
<1>2. ASSUME NEW v \in Workers, OnAccept(v) PROVE SlotStep(w, s)
  <2> DEFINE n == Admitted(v)
             x == [conns[v][n] EXCEPT !.born = TRUE]
  <2>1. conns' = conns \/ (Admits(v) /\ conns' = [conns EXCEPT ![v][n] = x])
    BY <1>2 DEF OnAccept, Admits, Admitted
  <2>2. running[v] /\ ~crashed
    BY <1>2 DEF OnAccept
  <2>3. CASE Admits(v) /\ conns' = [conns EXCEPT ![v][n] = x]
    <3>1. conns'[w][s] = IF w = v /\ s = n THEN x ELSE c
      <4> HIDE DEF x
      <4> QED BY <2>3 DEF ConnTypes
    <3>2. CASE w = v /\ s = n
      <4>1. x = [c EXCEPT !.born = TRUE]
        BY <3>2
      <4>2. QED BY <2>2, <2>3, <3>1, <3>2, <4>1 DEF SlotStep, Transitions
    <3>3. CASE ~(w = v /\ s = n)
      BY <3>1, <3>3 DEF SlotStep, Transitions
    <3>4. QED BY <3>2, <3>3
  <2>4. QED BY <1>1, <2>1, <2>3
<1>3. ASSUME NEW v \in Workers, NEW t \in Slots, Completes(v, t) PROVE SlotStep(w, s)
  <2> DEFINE x == [conns[v][t] EXCEPT !.op = "ready"]
  <2>1. conns' = [conns EXCEPT ![v][t] = x]
    BY <1>3 DEF Completes
  <2>2. conns'[w][s] = IF w = v /\ s = t THEN x ELSE c
    <3> HIDE DEF x
    <3> QED BY <2>1 DEF ConnTypes
  <2>3. QED BY <1>3, <2>2 DEF Completes, SlotStep, Transitions
<1>4. ASSUME NEW v \in Workers, NEW t \in Slots, Callback(v, t) PROVE SlotStep(w, s)
  <2>1. PICK x \in Outcomes(conns[v][t]) : conns' = [conns EXCEPT ![v][t] = x]
    BY <1>4 DEF Callback
  <2>2. conns'[w][s] = IF w = v /\ s = t THEN x ELSE c
    BY <2>1 DEF ConnTypes
  <2>3. QED BY <1>4, <2>1, <2>2 DEF Callback, SlotStep, Transitions
<1>5. ASSUME NEW v \in Workers, StopTask(v) PROVE SlotStep(w, s)
  <2>1. CASE conns' = conns
    BY <1>1, <2>1
  <2>2. ASSUME NEW reached \in Reached(v),
               conns' = [conns EXCEPT ![v] =
                 [t \in Slots |-> IF t \in reached
                                 THEN [Closed(conns[v][t]) EXCEPT !.draining = TRUE]
                                 ELSE conns[v][t]]]
        PROVE  SlotStep(w, s)
    <3> DEFINE x == [Closed(c) EXCEPT !.draining = TRUE]
    <3>1. reached \subseteq Known(v)
      BY DEF Reached
    <3>2. w = v /\ s \in reached => c.born /\ c.known
      BY <3>1 DEF Known, Born
    <3>3. conns'[w][s] = IF w = v /\ s \in reached THEN x ELSE c
      <4> DEFINE row == [t \in Slots |-> IF t \in reached
                          THEN [Closed(conns[v][t]) EXCEPT !.draining = TRUE]
                          ELSE conns[v][t]]
      <4>1. w = v => row[s] = IF s \in reached THEN x ELSE c
        OBVIOUS
      <4> HIDE DEF row, x
      <4>2. conns' = [conns EXCEPT ![v] = row]
        BY <2>2 DEF row
      <4>3. conns'[w] = IF w = v THEN row ELSE conns[w]
        BY <4>2 DEF ConnTypes
      <4>4. QED BY <4>1, <4>3
    <3>4. running[v] /\ ~crashed
      BY <1>5 DEF StopTask
    <3> HIDE DEF x
    <3>5. QED BY <3>2, <3>3, <3>4 DEF SlotStep, Transitions, x
  <2>3. QED BY <1>5, <2>1, <2>2 DEF StopTask
<1>6. ASSUME \/ Listen \/ ListenFails \/ ThreadsFail \/ ListenReturns
             \/ CallStop \/ RaiseSignal \/ OnSignal \/ SignalLoopEnds
      PROVE  conns' = conns
  BY <1>6 DEF Listen, ListenFails, ThreadsFail, ListenReturns, CallStop,
              RaiseSignal, OnSignal, SignalLoopEnds
<1>7. ASSUME NEW v \in Workers,
             \/ Arrives(v) \/ AcceptFails(v) \/ LoopEnds(v)
             \/ \E t \in Slots : CallbackThrows(v, t)
      PROVE  conns' = conns
  BY <1>7 DEF Arrives, AcceptFails, LoopEnds, CallbackThrows
<1>8. UNCHANGED vars => conns' = conns
  BY DEF vars
<1>9. QED
  BY <1>1, <1>2, <1>3, <1>4, <1>5, <1>6, <1>7, <1>8 DEF Next

LEMMA ConnTypesKept == ConnTypes /\ [Next]_vars => ConnTypes'
<1> SUFFICES ASSUME ConnTypes, [Next]_vars PROVE ConnTypes'
  OBVIOUS
<1>1. \A w \in Workers, s \in Slots : conns'[w][s] \in Connections
  BY SlotSteps, TransitionTypes DEF SlotStep, ConnTypes
<1>2. ASSUME NEW v \in Workers, NEW row, row = [s \in Slots |-> row[s]],
             conns' = [conns EXCEPT ![v] = row]
      PROVE  ConnTypes'
  <2>1. \A s \in Slots : row[s] \in Connections
    BY <1>1, <1>2 DEF ConnTypes
  <2>2. row \in [Slots -> Connections]
    BY <1>2, <2>1
  <2>3. QED BY <1>2, <2>2 DEF ConnTypes
<1>3. ASSUME NEW v \in Workers, NEW t, NEW x, conns' = [conns EXCEPT ![v][t] = x]
      PROVE  ConnTypes'
  <2> DEFINE row == [conns[v] EXCEPT ![t] = x]
  <2>1. row = [s \in Slots |-> row[s]]
    BY DEF ConnTypes
  <2>2. conns' = [conns EXCEPT ![v] = row]
    BY <1>3
  <2>3. QED BY <1>2, <2>1, <2>2
<1>4. CASE conns' = conns
  BY <1>4 DEF ConnTypes
<1>5. ASSUME NEW v \in Workers, OnAccept(v) PROVE ConnTypes'
  <2> DEFINE n == CHOOSE n \in Slots \ Born(v) : \A t \in Slots \ Born(v) : n <= t
             x == [conns[v][n] EXCEPT !.born = TRUE]
  <2>1. conns' = conns \/ conns' = [conns EXCEPT ![v][n] = x]
    BY <1>5 DEF OnAccept
  <2> HIDE DEF n, x
  <2>2. QED BY <1>3, <1>4, <2>1
<1>6. ASSUME NEW v \in Workers, NEW t \in Slots, Completes(v, t) PROVE ConnTypes'
  <2> DEFINE x == [conns[v][t] EXCEPT !.op = "ready"]
  <2>1. conns' = [conns EXCEPT ![v][t] = x]
    BY <1>6 DEF Completes
  <2> HIDE DEF x
  <2>2. QED BY <1>3, <2>1
<1>7. ASSUME NEW v \in Workers, NEW t \in Slots, Callback(v, t) PROVE ConnTypes'
  <2>1. PICK x \in Outcomes(conns[v][t]) : conns' = [conns EXCEPT ![v][t] = x]
    BY <1>7 DEF Callback
  <2>2. QED BY <1>3, <2>1
<1>8. ASSUME NEW v \in Workers, StopTask(v) PROVE ConnTypes'
  <2>1. ASSUME NEW reached,
               conns' = [conns EXCEPT ![v] =
                 [t \in Slots |-> IF t \in reached
                                 THEN [Closed(conns[v][t]) EXCEPT !.draining = TRUE]
                                 ELSE conns[v][t]]]
        PROVE  ConnTypes'
    <3> DEFINE row == [t \in Slots |-> IF t \in reached
                        THEN [Closed(conns[v][t]) EXCEPT !.draining = TRUE]
                        ELSE conns[v][t]]
    <3>1. row = [t \in Slots |-> row[t]] /\ conns' = [conns EXCEPT ![v] = row]
      BY <2>1
    <3> HIDE DEF row
    <3>2. QED BY <1>2, <3>1
  <2>2. QED BY <1>4, <1>8, <2>1 DEF StopTask
<1>9. ASSUME \/ Listen \/ ListenFails \/ ThreadsFail \/ ListenReturns
             \/ CallStop \/ RaiseSignal \/ OnSignal \/ SignalLoopEnds
             \/ \E v \in Workers : \/ Arrives(v) \/ AcceptFails(v) \/ LoopEnds(v)
                                  \/ \E t \in Slots : CallbackThrows(v, t)
             \/ UNCHANGED vars
      PROVE  conns' = conns
  BY <1>9 DEF Listen, ListenFails, ThreadsFail, ListenReturns, CallStop,
              RaiseSignal, OnSignal, SignalLoopEnds, Arrives, AcceptFails,
              LoopEnds, CallbackThrows, vars
<1>10. QED
  BY <1>4, <1>5, <1>6, <1>7, <1>8, <1>9 DEF Next

LEMMA TransitionBorn ==
  ASSUME NEW c \in Connections, c.born, NEW d \in Transitions(c)
  PROVE  d.born
<1> DEFINE k == Closed(c)
<1>1. k \in Connections /\ k.born
  BY DEF Closed, Connections
<1>2. CASE d = [k EXCEPT !.draining = TRUE]
  <2> HIDE DEF k
  <2> QED BY <1>1, <1>2 DEF Connections
<1>3. CASE d \in Outcomes(c)
  <2>1. \/ d = [c EXCEPT !.op = "none"]
        \/ d = [k EXCEPT !.op = "none"]
        \/ \E p \in {"headers", "body", "writing"} :
             d = [c EXCEPT !.phase = p, !.op = "pending"]
    BY <1>3 DEF Outcomes
  <2> HIDE DEF k
  <2>2. QED BY <1>1, <2>1 DEF Connections
<1>4. CASE d \in {c, [c EXCEPT !.born = TRUE], [c EXCEPT !.op = "ready"]}
  BY <1>4 DEF Connections
<1>5. QED BY <1>2, <1>3, <1>4 DEF Transitions

\* A connection is known exactly while it is open, and then has an operation
\* outstanding.
Sound(c) == (c.known <=> c.phase # "closed") /\ (c.known => c.op # "none")

LEMMA TransitionSound ==
  ASSUME NEW c \in Connections, Sound(c), NEW d \in Transitions(c)
  PROVE  Sound(d)
<1> DEFINE k == Closed(c)
<1>1. k \in Connections /\ ~k.known /\ k.phase = "closed"
  BY DEF Closed, Connections
<1>2. CASE d = [k EXCEPT !.draining = TRUE]
  <2> HIDE DEF k
  <2> QED BY <1>1, <1>2 DEF Connections, Sound
<1>3. CASE d \in Outcomes(c)
  <2>1. \/ c.phase = "closed" /\ d = [c EXCEPT !.op = "none"]
        \/ d = [k EXCEPT !.op = "none"]
        \/ /\ c.phase # "closed"
           /\ \E p \in {"headers", "body", "writing"} :
                d = [c EXCEPT !.phase = p, !.op = "pending"]
    BY <1>3 DEF Outcomes
  <2>2. CASE d = [k EXCEPT !.op = "none"]
    <3> HIDE DEF k
    <3> QED BY <1>1, <2>2 DEF Connections, Sound
  <2>3. CASE c.phase = "closed" /\ d = [c EXCEPT !.op = "none"]
    BY <2>3 DEF Connections, Sound
  <2>4. ASSUME c.phase # "closed", NEW p \in {"headers", "body", "writing"},
               d = [c EXCEPT !.phase = p, !.op = "pending"]
        PROVE  Sound(d)
    BY <2>4 DEF Connections, Sound
  <2>5. QED BY <2>1, <2>2, <2>3, <2>4
<1>4. CASE d \in {c, [c EXCEPT !.born = TRUE], [c EXCEPT !.op = "ready"]}
  BY <1>4 DEF Connections, Sound
<1>5. QED BY <1>2, <1>3, <1>4 DEF Transitions

-----------------------------------------------------------------------------
(* The invariant.                                                          *)

AllSound == \A w \in Workers, s \in Slots : Sound(conns[w][s])

\* A loop that does not run has nothing left, and none runs when listen() does
\* not.
Rested ==
  /\ main = "idle" => \A w \in Workers : ~running[w]
  /\ \A w \in Workers : ~running[w] => Busy(w) = {}

\* A stopping worker waits for no connection.
Quiet == \A w \in Workers : stopping[w] => accept[w] # "pending"

ServerInv ==
  ServerTypes /\ ConnTypes /\ AllSound /\ Rested /\ KeepsAccepting /\ Quiet

LEMMA InitInv == Init => ServerInv
<1> SUFFICES ASSUME Init PROVE ServerInv
  OBVIOUS
<1>1. ServerTypes
  BY DEF Init, ServerTypes
<1>2. Unborn \in Connections /\ ~Unborn.born /\ Sound(Unborn)
  BY DEF Unborn, Connections, Sound
<1>3. ConnTypes /\ \A w \in Workers, s \in Slots : conns[w][s] = Unborn
  BY <1>2 DEF Init, ConnTypes
<1>4. AllSound
  BY <1>2, <1>3 DEF AllSound
<1>5. Rested
  BY <1>2, <1>3 DEF Init, Rested, Busy, Born
<1>6. KeepsAccepting /\ Quiet
  BY DEF Init, KeepsAccepting, Quiet
<1>7. QED BY <1>1, <1>3, <1>4, <1>5, <1>6 DEF ServerInv

LEMMA AllSoundKept == ConnTypes /\ AllSound /\ [Next]_vars => AllSound'
BY SlotSteps, TransitionSound DEF SlotStep, AllSound, ConnTypes

\* A step changes the slots of running workers only.
LEMMA RestedKept == ServerInv /\ [Next]_vars => Rested'
<1> SUFFICES ASSUME ServerInv, [Next]_vars PROVE Rested'
  OBVIOUS
<1> USE DEF ServerInv, ServerTypes
<1>1. ASSUME NEW w \in Workers, ~running[w] PROVE Busy(w)' = {}
  <2>1. Busy(w) = {}
    BY <1>1 DEF Rested
  <2>2. \A s \in Slots : conns'[w][s] = conns[w][s]
    BY <1>1, SlotSteps DEF SlotStep
  <2>3. QED BY <2>1, <2>2 DEF Busy, Born
<1>2. ASSUME NEW w \in Workers, LoopEnds(w) PROVE Rested'
  <2>1. Busy(w)' = {} /\ main' = main /\ running' = [running EXCEPT ![w] = FALSE]
    BY <1>2 DEF LoopEnds, Busy, Born, calls
  <2>2. QED BY <1>1, <2>1 DEF Rested
<1>3. CASE ListenFails \/ ThreadsFail
  <2>1. \A w \in Workers : ~running[w]
    BY <1>3 DEF Rested, ListenFails, ThreadsFail
  <2>2. main' = "idle" => \A w \in Workers : ~running'[w]
    BY <1>3 DEF ListenFails, ThreadsFail
  <2>3. QED BY <1>1, <2>1, <2>2 DEF Rested
<1>4. CASE Listen
  BY <1>4 DEF Rested, Listen
<1>5. CASE ListenReturns
  BY <1>1, <1>5 DEF Rested, ListenReturns, AllLoopsEnded, ports
<1>6. CASE UNCHANGED <<main, running>>
  BY <1>1, <1>6 DEF Rested
<1>7. ASSUME \/ CallStop \/ RaiseSignal \/ OnSignal \/ SignalLoopEnds
             \/ \E w \in Workers : \/ Arrives(w) \/ AcceptFails(w) \/ OnAccept(w) \/ StopTask(w)
                                  \/ \E s \in Slots : \/ Completes(w, s) \/ Callback(w, s)
                                                     \/ CallbackThrows(w, s)
             \/ UNCHANGED vars
      PROVE  UNCHANGED <<main, running>>
  BY <1>7 DEF CallStop, RaiseSignal, OnSignal, SignalLoopEnds, Arrives,
              AcceptFails, OnAccept, StopTask, Completes, Callback,
              CallbackThrows, vars, calls, ports
<1>8. QED
  BY <1>2, <1>3, <1>4, <1>5, <1>6, <1>7 DEF Next

LEMMA AcceptingKept == ServerInv /\ [Next]_vars => KeepsAccepting' /\ Quiet'
<1> SUFFICES ASSUME ServerInv, [Next]_vars PROVE KeepsAccepting' /\ Quiet'
  OBVIOUS
<1> USE DEF ServerInv, ServerTypes, KeepsAccepting, Quiet, calls, ports, sigs
<1>1. CASE Listen
  BY <1>1 DEF Listen
<1>2. CASE ListenFails
  BY <1>2 DEF ListenFails
<1>3. CASE ThreadsFail
  BY <1>3 DEF ThreadsFail
<1>4. CASE ListenReturns
  BY <1>4 DEF ListenReturns
<1>5. CASE CallStop \/ RaiseSignal \/ OnSignal \/ SignalLoopEnds
  BY <1>5 DEF CallStop, RaiseSignal, OnSignal, SignalLoopEnds
<1>6. ASSUME NEW w \in Workers, LoopEnds(w) PROVE KeepsAccepting' /\ Quiet'
  BY <1>6 DEF LoopEnds
<1>7. ASSUME NEW w \in Workers, Arrives(w) \/ AcceptFails(w)
      PROVE  KeepsAccepting' /\ Quiet'
  BY <1>7 DEF Arrives, AcceptFails
<1>8. ASSUME NEW w \in Workers, OnAccept(w) PROVE KeepsAccepting' /\ Quiet'
  BY <1>8 DEF OnAccept, Rearms
<1>9. ASSUME NEW w \in Workers, StopTask(w) PROVE KeepsAccepting' /\ Quiet'
  <2>1. CASE stopping[w]
    BY <1>9, <2>1 DEF StopTask, TakeStopTask
  <2>2. CASE ~stopping[w]
    BY <1>9, <2>2 DEF StopTask, TakeStopTask
  <2>3. QED BY <2>1, <2>2
<1>10. ASSUME NEW w \in Workers, NEW s \in Slots,
              Completes(w, s) \/ Callback(w, s) \/ CallbackThrows(w, s)
       PROVE  KeepsAccepting' /\ Quiet'
  BY <1>10 DEF Completes, Callback, CallbackThrows
<1>11. CASE UNCHANGED vars
  BY <1>11 DEF vars
<1>12. QED
  BY <1>1, <1>2, <1>3, <1>4, <1>5, <1>6, <1>7, <1>8, <1>9, <1>10, <1>11 DEF Next

LEMMA InvAlways == Spec => []ServerInv
<1>1. ServerInv /\ [Next]_vars => ServerInv'
  BY ServerTypesKept, ConnTypesKept, AllSoundKept, RestedKept, AcceptingKept
     DEF ServerInv
<1>2. QED BY InitInv, <1>1, PTL DEF Spec

-----------------------------------------------------------------------------
(* What holds of every server.                                             *)

\* Every variable keeps its type, for any number of workers and connections.
THEOREM ServerTyped == Spec => []TypeOK
<1>1. ServerInv => TypeOK
  BY DEF ServerInv, ServerTypes, ConnTypes, TypeOK
<1>2. QED BY <1>1, InvAlways, PTL

\* The map of a worker holds exactly its open connections, and each of them has
\* a callback coming, whatever threads and stops interleave (TcpServer.h:118-127).
THEOREM MapAgrees == Spec => []MapHoldsOpen
<1>1. ServerInv => MapHoldsOpen
  BY DEF ServerInv, AllSound, Sound, MapHoldsOpen, Born
<1>2. QED BY <1>1, InvAlways, PTL

\* No failure to accept, full map or failed thread ends the admission of a
\* worker that was not told to stop (TcpServer.h:112-134).
THEOREM AlwaysAccepting == Spec => []KeepsAccepting
<1>1. ServerInv => KeepsAccepting
  BY DEF ServerInv
<1>2. QED BY <1>1, InvAlways, PTL

\* listen() leaves no loop, connection or callback behind, however often it is
\* called and whichever way it ends (TcpServer.h:54-109).
THEOREM LeavesNothing == Spec => []ReturnsClean
<1>1. ServerInv => ReturnsClean
  <2> SUFFICES ASSUME ServerInv, main = "idle", NEW w \in Workers
               PROVE  ~running[w] /\ Known(w) = {} /\ Busy(w) = {}
    BY DEF ReturnsClean
  <2>1. ~running[w] /\ Busy(w) = {}
    BY DEF ServerInv, Rested
  <2>2. Known(w) \subseteq Busy(w)
    BY DEF ServerInv, AllSound, Sound, Known, Busy, Born
  <2>3. QED BY <2>1, <2>2
<1>2. QED BY <1>1, InvAlways, PTL

LEMMA LimitIsNatural == WorkerLimit \in Nat
<1>1. Cardinality(Workers) \in Nat /\ Cardinality(Workers) # 0
  BY ServerAssumption, FS_CardinalityType, FS_EmptySet
<1>2. MaxConnections \div Cardinality(Workers) \in Nat
  BY <1>1, ServerAssumption
<1>3. QED BY <1>2, ServerAssumption DEF WorkerLimit

LEMMA KnownFinite == \A w \in Workers : IsFiniteSet(Known(w))
<1> TAKE w \in Workers
<1>1. IsFiniteSet(Slots)
  BY ServerAssumption, FS_Interval DEF Slots
<1>2. Known(w) \subseteq Slots
  BY DEF Known, Born
<1>3. QED BY <1>1, <1>2, FS_Subset

\* What was unknown, or not yet a connection, becomes known by an accept only.
LEMMA KnownGrows ==
  ASSUME ServerInv, [Next]_vars, NEW w \in Workers
  PROVE  \/ Known(w)' \subseteq Known(w)
         \/ Admits(w) /\ Known(w)' \subseteq Known(w) \cup {Admitted(w)}
<1>1. ASSUME NEW c \in Connections, NEW d \in Transitions(c), d.born, d.known
      PROVE  (c.born /\ c.known) \/ ~c.born
  <2> SUFFICES ASSUME c.born, ~c.known PROVE FALSE
    OBVIOUS
  <2>1. CASE d \in {c, [c EXCEPT !.born = TRUE], [c EXCEPT !.op = "ready"]}
    BY <1>1, <2>1 DEF Connections
  <2>2. CASE d \in Outcomes(c)
    <3> DEFINE k == Closed(c)
    <3>1. k \in Connections /\ ~k.known
      BY DEF Closed, Connections
    <3>2. \/ d = [c EXCEPT !.op = "none"]
          \/ d = [k EXCEPT !.op = "none"]
          \/ \E p \in {"headers", "body", "writing"} :
               d = [c EXCEPT !.phase = p, !.op = "pending"]
      BY <2>2 DEF Outcomes
    <3> HIDE DEF k
    <3>3. QED BY <1>1, <3>1, <3>2 DEF Connections
  <2>3. QED BY <2>1, <2>2 DEF Transitions
<1>2. ASSUME NEW s \in Known(w)'
      PROVE  s \in Known(w) \/ (s = Admitted(w) /\ Admits(w))
  <2>1. s \in Slots /\ conns'[w][s].born /\ conns'[w][s].known
    BY DEF Known, Born
  <2>2. conns[w][s] \in Connections
    BY <2>1 DEF ServerInv, ConnTypes
  <2>3. SlotStep(w, s)
    BY <2>1, SlotSteps DEF ServerInv
  <2>4. CASE conns[w][s].born /\ conns[w][s].known
    BY <2>1, <2>4 DEF Known, Born
  <2>5. CASE ~conns[w][s].born
    BY <2>1, <2>3, <2>5 DEF SlotStep
  <2>6. QED BY <1>1, <2>1, <2>2, <2>3, <2>4, <2>5 DEF SlotStep
<1>3. QED BY <1>2

WorkerCapacity == \A w \in Workers : Cardinality(Known(w)) <= WorkerLimit

\* However accepts, closes and stops interleave, no worker holds more than
\* worker_limit() connections.
LEMMA WorkerCapacityHolds == Spec => []WorkerCapacity
<1>1. Init => WorkerCapacity
  <2> SUFFICES ASSUME Init, NEW w \in Workers
               PROVE  Cardinality(Known(w)) <= WorkerLimit
    BY DEF WorkerCapacity
  <2>1. Known(w) = {}
    BY DEF Init, Known, Born, Unborn
  <2>2. QED BY <2>1, LimitIsNatural, FS_EmptySet
<1>2. ServerInv /\ WorkerCapacity /\ [Next]_vars => WorkerCapacity'
  <2> SUFFICES ASSUME ServerInv, WorkerCapacity, [Next]_vars, NEW w \in Workers
               PROVE  Cardinality(Known(w)') <= WorkerLimit
    BY DEF WorkerCapacity, WorkerLimit
  <2>1. IsFiniteSet(Known(w)) /\ Cardinality(Known(w)) \in Nat
    BY KnownFinite, FS_CardinalityType
  <2>2. CASE Known(w)' \subseteq Known(w)
    <3>1. Cardinality(Known(w)') <= Cardinality(Known(w)) /\ Cardinality(Known(w)') \in Nat
      BY <2>1, <2>2, FS_Subset, FS_CardinalityType
    <3>2. QED BY <2>1, <3>1, LimitIsNatural DEF WorkerCapacity
  <2>3. CASE Admits(w) /\ Known(w)' \subseteq Known(w) \cup {Admitted(w)}
    <3> DEFINE more == Known(w) \cup {Admitted(w)}
    <3>1. /\ IsFiniteSet(more)
          /\ Cardinality(more) <= Cardinality(Known(w)) + 1
      <4> DEFINE K == Known(w)
                 a == Admitted(w)
      <4> HIDE DEF K, a
      <4>1. IsFiniteSet(K) /\ Cardinality(K) \in Nat
        BY <2>1 DEF K
      <4>2. /\ IsFiniteSet(K \cup {a})
            /\ \/ Cardinality(K \cup {a}) = Cardinality(K)
               \/ Cardinality(K \cup {a}) = Cardinality(K) + 1
        BY <4>1, FS_AddElement, Zenon
      <4>3. Cardinality(K \cup {a}) <= Cardinality(K) + 1
        BY <4>1, <4>2
      <4>4. QED BY <4>2, <4>3 DEF K, a
    <3>2. Cardinality(Known(w)') <= Cardinality(more) /\ Cardinality(Known(w)') \in Nat
      BY <2>3, <3>1, FS_Subset, FS_CardinalityType
    <3>3. Cardinality(more) \in Nat
      BY <3>1, FS_CardinalityType
    <3> HIDE DEF more
    <3>4. QED BY <2>1, <2>3, <3>1, <3>2, <3>3, LimitIsNatural DEF Admits, HasRoom
  <2>4. QED BY <2>2, <2>3, KnownGrows
<1>3. QED BY <1>1, <1>2, InvAlways, PTL DEF Spec

\* The shares of all workers together are at most max_connections.
LEMMA SharesFit ==
  ASSUME NEW m \in Nat, NEW n \in Nat \ {0}, NEW floor \in Nat,
         NEW limit, limit = IF m \div n > floor THEN m \div n ELSE floor
  PROVE  n * limit <= IF m > floor * n THEN m ELSE floor * n
<1> DEFINE q == m \div n
<1>1. q \in Nat /\ n * q <= m
  OBVIOUS
<1> HIDE DEF q
<1>2. CASE q > floor
  <2>1. limit = q /\ n * q > floor * n
    BY <1>1, <1>2 DEF q
  <2>2. QED BY <1>1, <2>1
<1>3. CASE ~(q > floor)
  <2>1. limit = floor
    BY <1>3 DEF q
  <2>2. n * floor = floor * n /\ floor * n \in Nat
    OBVIOUS
  <2>3. QED BY <2>1, <2>2
<1>4. QED BY <1>2, <1>3

\* Each worker numbers its own connections from 1 to its limit at most, so that
\* a worker and a number are enough to tell the connections of all apart.
LEMMA AllKnownBounded ==
  ASSUME WorkerCapacity
  PROVE  /\ Cardinality(AllKnown) \in Nat
         /\ Cardinality(AllKnown) <= Cardinality(Workers) * WorkerLimit
<1> DEFINE Numbers == 1 .. WorkerLimit
           Numbering(w) == {f \in [Known(w) -> Numbers] :
                              \A s, t \in Known(w) : f[s] = f[t] => s = t}
           number == [w \in Workers |-> CHOOSE f \in Numbering(w) : TRUE]
           label == [c \in AllKnown |-> <<c[1], number[c[1]][c[2]]>>]
<1>1. ASSUME NEW w \in Workers PROVE Numbering(w) # {}
  <2> DEFINE n == Cardinality(Known(w))
  <2>1. n \in Nat /\ n <= WorkerLimit /\ ExistsBijection(1 .. n, Known(w))
    BY <1>1, KnownFinite, FS_CardinalityType DEF WorkerCapacity
  <2> HIDE DEF n
  <2>2. ExistsBijection(Known(w), 1 .. n)
    BY <2>1, Fun_ExistsBijSymmetric
  <2>3. PICK f \in [Known(w) -> 1 .. n] : \A s, t \in Known(w) : f[s] = f[t] => s = t
    BY <2>2 DEF ExistsBijection, Bijection, Injection, IsInjective
  <2>4. 1 .. n \subseteq Numbers
    BY <2>1, LimitIsNatural
  <2>5. f \in Numbering(w)
    BY <2>3, <2>4
  <2>6. QED BY <2>5
<1>2. \A w \in Workers : number[w] \in Numbering(w)
  BY <1>1
<1> HIDE DEF number
<1>3. ASSUME NEW c \in AllKnown
      PROVE  /\ c[1] \in Workers /\ c[2] \in Known(c[1]) /\ c = <<c[1], c[2]>>
             /\ label[c] = <<c[1], number[c[1]][c[2]]>> /\ label[c] \in Workers \X Numbers
  <2>1. c \in Workers \X Slots /\ c[2] \in Known(c[1])
    BY DEF AllKnown
  <2>2. c[1] \in Workers /\ c = <<c[1], c[2]>>
    BY <2>1
  <2>3. number[c[1]] \in [Known(c[1]) -> Numbers]
    BY <1>2, <2>2
  <2>4. QED BY <2>1, <2>2, <2>3
<1>4. ASSUME NEW c \in AllKnown, NEW d \in AllKnown, label[c] = label[d]
      PROVE  c = d
  <2>1. c[1] = d[1] /\ number[c[1]][c[2]] = number[c[1]][d[2]]
    BY <1>3, <1>4
  <2>2. c[2] = d[2]
    BY <1>2, <1>3, <2>1
  <2>3. QED BY <1>3, <2>1, <2>2
<1>5. label \in Injection(AllKnown, Workers \X Numbers)
  <2>1. label \in [AllKnown -> Workers \X Numbers]
    BY <1>3
  <2>2. DOMAIN label = AllKnown
    OBVIOUS
  <2> HIDE DEF label
  <2>3. QED BY <1>4, <2>1, <2>2 DEF Injection, IsInjective
<1>6. /\ IsFiniteSet(Workers \X Numbers)
      /\ Cardinality(Workers \X Numbers) = Cardinality(Workers) * WorkerLimit
  <2>1. IsFiniteSet(Numbers) /\ Cardinality(Numbers) = WorkerLimit
    BY LimitIsNatural, FS_Interval
  <2> HIDE DEF Numbers
  <2>2. QED BY <2>1, ServerAssumption, FS_Product
<1> HIDE DEF label, Numbers
<1>7. IsFiniteSet(AllKnown) /\ Cardinality(AllKnown) <= Cardinality(Workers \X Numbers)
  BY <1>5, <1>6, FS_Injection
<1>8. QED BY <1>6, <1>7, FS_CardinalityType

\* However accepts, closes and stops of all workers interleave, they hold
\* max_connections connections in all, or the sum of their floors where it is
\* greater (TcpServer.h:118, :136-138).
THEOREM CapacityHolds == Spec => []TotalCapacity
<1>1. WorkerCapacity => TotalCapacity
  <2> SUFFICES ASSUME WorkerCapacity PROVE TotalCapacity
    OBVIOUS
  <2> DEFINE n == Cardinality(Workers)
             k == Cardinality(AllKnown)
             floors == WorkerFloor * n
             bound == IF MaxConnections > floors THEN MaxConnections ELSE floors
  <2>1. n \in Nat \ {0}
    BY ServerAssumption, FS_CardinalityType, FS_EmptySet
  <2>2. k \in Nat /\ k <= n * WorkerLimit
    BY AllKnownBounded
  <2>3. TotalCapacity <=> k <= bound
    BY DEF TotalCapacity
  <2>4. /\ MaxConnections \in Nat /\ WorkerFloor \in Nat
        /\ WorkerLimit = IF MaxConnections \div n > WorkerFloor
                         THEN MaxConnections \div n ELSE WorkerFloor
    BY ServerAssumption DEF WorkerLimit
  <2> HIDE DEF n, k
  <2>5. n * WorkerLimit <= bound
    BY <2>1, <2>4, SharesFit
  <2>6. n * WorkerLimit \in Nat /\ bound \in Nat
    BY <2>1, <2>4, LimitIsNatural
  <2> HIDE DEF bound
  <2>7. QED BY <2>2, <2>3, <2>5, <2>6
<1>2. QED BY <1>1, WorkerCapacityHolds, PTL

\* Stopping is final: a worker admits at most the connection whose accept had
\* completed when it was told to stop (TcpServer.h:112-134).
THEOREM LateAdmissions == Spec => AtMostOneLateAdmission
<1> DEFINE Late(w) ==
      (stopping[w] /\ stopping'[w]) =>
         /\ accept'[w] # "pending"
         /\ accept[w] = "none" => accept'[w] = "none"
         /\ Born(w)' # Born(w) => accept[w] = "accepted" /\ accept'[w] = "none"
<1>1. ServerInv /\ ServerInv' /\ [Next]_vars => \A w \in Workers : Late(w)
  <2> SUFFICES ASSUME ServerInv, ServerInv', [Next]_vars, NEW w \in Workers,
                      stopping[w], stopping'[w]
               PROVE  /\ accept'[w] # "pending"
                      /\ accept[w] = "none" => accept'[w] = "none"
                      /\ Born(w)' # Born(w) => accept[w] = "accepted" /\ accept'[w] = "none"
    OBVIOUS
  <2>1. accept'[w] # "pending"
    BY DEF ServerInv, Quiet
  <2>2. accept[w] = "none" => accept'[w] = "none"
    <3> USE DEF ServerInv, ServerTypes, ports, calls
    <3>1. ASSUME Listen PROVE FALSE
      BY <3>1 DEF Listen
    <3>2. ASSUME ListenFails \/ ThreadsFail PROVE FALSE
      BY <3>2 DEF ListenFails, ThreadsFail
    <3>3. ASSUME NEW v \in Workers, Arrives(v) \/ AcceptFails(v) \/ OnAccept(v)
          PROVE  accept[w] = "none" => accept'[w] = "none"
      BY <3>3 DEF Arrives, AcceptFails, OnAccept
    <3>4. ASSUME NEW v \in Workers, StopTask(v)
          PROVE  accept[w] = "none" => accept'[w] = "none"
      BY <3>4 DEF StopTask
    <3>5. ASSUME \/ ListenReturns \/ CallStop \/ RaiseSignal \/ OnSignal \/ SignalLoopEnds
                 \/ \E v \in Workers : \/ LoopEnds(v)
                                      \/ \E s \in Slots : \/ Completes(v, s) \/ Callback(v, s)
                                                         \/ CallbackThrows(v, s)
                 \/ UNCHANGED vars
          PROVE  UNCHANGED accept
      BY <3>5 DEF ListenReturns, CallStop, RaiseSignal, OnSignal, SignalLoopEnds,
                  LoopEnds, Completes, Callback, CallbackThrows, vars
    <3>6. QED BY <3>1, <3>2, <3>3, <3>4, <3>5 DEF Next
  <2>3. ASSUME Born(w)' # Born(w) PROVE accept[w] = "accepted" /\ accept'[w] = "none"
    <3>1. \A s \in Slots : SlotStep(w, s) /\ conns[w][s] \in Connections
      BY SlotSteps DEF ServerInv, ConnTypes
    <3>2. Born(w) \subseteq Born(w)'
      BY <3>1, TransitionBorn DEF SlotStep, Born
    <3>3. PICK s \in Slots : conns'[w][s].born /\ ~conns[w][s].born
      BY <2>3, <3>2 DEF Born
    <3>4. OnAccept(w) /\ accept[w] = "accepted"
      BY <3>1, <3>3 DEF SlotStep, Admits
    <3>5. QED BY <3>4 DEF OnAccept, Rearms, ServerInv, ServerTypes
  <2>4. QED BY <2>1, <2>2, <2>3
<1>2. (\A w \in Workers : Late(w)) =>
      [\A w \in Workers : Late(w)]_vars
  OBVIOUS
<1>3. QED BY <1>1, InvAlways, PTL DEF Spec, AtMostOneLateAdmission

\* A worker that was told to stop gets no other connection from the kernel.
LEMMA StoppedAccept ==
  ASSUME ServerInv, [Next]_vars, NEW w \in Workers, stopping[w], stopping'[w],
         accept'[w] = "accepted"
  PROVE  accept[w] = "accepted"
<1> USE DEF ServerInv, ServerTypes, ports, calls
<1>1. accept[w] # "pending"
  BY DEF Quiet
<1>2. ASSUME Listen \/ ListenFails \/ ThreadsFail PROVE FALSE
  BY <1>2 DEF Listen, ListenFails, ThreadsFail
<1>3. ASSUME NEW v \in Workers, Arrives(v) \/ AcceptFails(v) \/ OnAccept(v)
      PROVE  accept[w] = "accepted"
  BY <1>1, <1>3 DEF Arrives, AcceptFails, OnAccept
<1>4. ASSUME NEW v \in Workers, StopTask(v)
      PROVE  accept[w] = "accepted"
  BY <1>4 DEF StopTask
<1>5. ASSUME \/ ListenReturns \/ CallStop \/ RaiseSignal \/ OnSignal \/ SignalLoopEnds
             \/ \E v \in Workers : \/ LoopEnds(v)
                                  \/ \E s \in Slots : \/ Completes(v, s) \/ Callback(v, s)
                                                     \/ CallbackThrows(v, s)
             \/ UNCHANGED vars
      PROVE  UNCHANGED accept
  BY <1>5 DEF ListenReturns, CallStop, RaiseSignal, OnSignal, SignalLoopEnds,
              LoopEnds, Completes, Callback, CallbackThrows, vars
<1>6. QED BY <1>2, <1>3, <1>4, <1>5 DEF Next

\* Only its first stop task makes a worker stop.
LEMMA FirstStop ==
  ASSUME ServerInv, [Next]_vars, NEW w \in Workers, ~stopping[w], stopping'[w]
  PROVE  StopTask(w)
<1> USE DEF ServerInv, ServerTypes, ports, calls
<1>1. ASSUME Listen \/ ListenFails \/ ThreadsFail PROVE FALSE
  BY <1>1 DEF Listen, ListenFails, ThreadsFail
<1>2. ASSUME NEW v \in Workers, StopTask(v) PROVE v = w
  BY <1>2 DEF StopTask
<1>3. ASSUME \/ ListenReturns \/ CallStop \/ RaiseSignal \/ OnSignal \/ SignalLoopEnds
             \/ \E v \in Workers : \/ Arrives(v) \/ AcceptFails(v) \/ OnAccept(v) \/ LoopEnds(v)
                                  \/ \E s \in Slots : \/ Completes(v, s) \/ Callback(v, s)
                                                     \/ CallbackThrows(v, s)
             \/ UNCHANGED vars
      PROVE  UNCHANGED stopping
  BY <1>3 DEF ListenReturns, CallStop, RaiseSignal, OnSignal, SignalLoopEnds, Arrives,
              AcceptFails, OnAccept, LoopEnds, Completes, Callback, CallbackThrows, vars
<1>4. QED BY <1>1, <1>2, <1>3 DEF Next

\* Where the loop over the map reaches every node, that task empties the map.
LEMMA StopEmpties ==
  ASSUME LoopOutcomes = {"next"}, ServerInv, NEW w \in Workers, StopTask(w), ~stopping[w]
  PROVE  Known(w)' = {}
<1>1. PICK reached \in Reached(w) :
        conns' = [conns EXCEPT ![w] =
          [s \in Slots |-> IF s \in reached
                           THEN [Closed(conns[w][s]) EXCEPT !.draining = TRUE]
                           ELSE conns[w][s]]]
  BY DEF StopTask
<1>2. reached = Known(w)
  BY DEF Reached
<1>3. ASSUME NEW s \in Slots, conns'[w][s].born, conns'[w][s].known PROVE FALSE
  <2> DEFINE c == conns[w][s]
             k == Closed(c)
  <2>1. c \in Connections
    BY DEF ServerInv, ConnTypes
  <2>2. k \in Connections /\ ~k.known
    BY <2>1 DEF Closed, Connections
  <2>3. conns'[w][s] = IF s \in Known(w) THEN [k EXCEPT !.draining = TRUE] ELSE c
    BY <1>1, <1>2 DEF ServerInv, ConnTypes
  <2>4. s \in Known(w) <=> c.born /\ c.known
    BY DEF Known, Born
  <2> HIDE DEF k, c
  <2>5. QED BY <1>3, <2>2, <2>3, <2>4 DEF Connections
<1>4. QED BY <1>3 DEF Known, Born

\* After the stop task a worker holds one connection at most, whose accept had
\* completed before it, however many it held and whatever else is queued, where
\* ++it still reads the link of the erased node (TcpServer.h:41-49, :112-134):
\* the late connection is all that keeps such a worker from ending.
THEOREM StopLeavesOneAtMost == LoopOutcomes = {"next"} /\ Spec => []OnlyLateOneRemains
<1> SUFFICES ASSUME LoopOutcomes = {"next"} PROVE Spec => []OnlyLateOneRemains
  OBVIOUS
<1>1. Init => OnlyLateOneRemains
  BY DEF Init, OnlyLateOneRemains
<1>2. ServerInv /\ OnlyLateOneRemains /\ [Next]_vars => OnlyLateOneRemains'
  <2> SUFFICES ASSUME ServerInv, OnlyLateOneRemains, [Next]_vars,
                      NEW w \in Workers, stopping'[w]
               PROVE  /\ \A s, t \in Known(w)' : s = t
                      /\ accept'[w] = "accepted" => Known(w)' = {}
    BY DEF OnlyLateOneRemains
  <2>1. CASE ~stopping[w]
    <3>1. StopTask(w)
      BY <2>1, FirstStop
    <3>2. Known(w)' = {}
      BY <2>1, <3>1, StopEmpties
    <3>3. QED BY <3>2
  <2>2. CASE stopping[w]
    <3>1. /\ \A s, t \in Known(w) : s = t
          /\ accept[w] = "accepted" => Known(w) = {}
      BY <2>2 DEF OnlyLateOneRemains
    <3>2. CASE Admits(w) /\ Known(w)' \subseteq Known(w) \cup {Admitted(w)}
      <4>1. Known(w) = {}
        BY <3>1, <3>2 DEF Admits
      <4>2. accept'[w] = "none"
        BY <2>2, <3>2 DEF Admits, OnAccept, Rearms, ServerInv, ServerTypes
      <4>3. QED BY <3>2, <4>1, <4>2
    <3>3. CASE Known(w)' \subseteq Known(w)
      <4>1. accept'[w] = "accepted" => accept[w] = "accepted"
        BY <2>2, StoppedAccept
      <4>2. QED BY <3>1, <3>3, <4>1
    <3>4. QED BY <3>2, <3>3, KnownGrows
  <2>3. QED BY <2>1, <2>2
<1>3. QED BY <1>1, <1>2, InvAlways, PTL DEF Spec

-----------------------------------------------------------------------------
(* Each slot implements ConnectionLifecycle.                               *)

LEMMA SlotLives ==
  ASSUME ServerInv, Next, NEW w \in Workers, NEW s \in Slots
  PROVE  Life(w, s)!Next \/ UNCHANGED Life(w, s)!vars
<1> DEFINE c == conns[w][s]
           d == conns'[w][s]
<1>1. c \in Connections /\ Sound(c)
  BY DEF ServerInv, ConnTypes, AllSound
<1>2. SlotStep(w, s)
  BY SlotSteps DEF ServerInv
<1>3. ~crashed
  BY DEF Next, Listen, ListenFails, ThreadsFail, ListenReturns, CallStop,
         RaiseSignal, OnSignal, SignalLoopEnds, Arrives, AcceptFails, OnAccept,
         StopTask, LoopEnds, Completes, Callback, CallbackThrows
<1>4. d \in Connections /\ crashed' \in BOOLEAN
  BY ConnTypesKept, ServerTypesKept DEF ServerInv, ConnTypes, ServerTypes
<1>5. CASE crashed'
  BY <1>3, <1>4, <1>5 DEF Connections, Life!Next, Life!Die, Life!Phases
<1>6. CASE ~crashed'
  <2> DEFINE k == Closed(c)
  <2>1. crashed' = crashed
    BY <1>3, <1>4, <1>6 DEF ServerInv, ServerTypes
  <2>2. CASE d \in {c, [c EXCEPT !.born = TRUE]}
    BY <1>1, <2>1, <2>2 DEF Connections, Life!vars
  <2>3. CASE c.born /\ c.op = "pending" /\ d = [c EXCEPT !.op = "ready"]
    BY <1>1, <1>3, <2>1, <2>3 DEF Connections, Life!Next, Life!Complete
  <2>4. CASE c.op = "ready" /\ d \in Outcomes(c)
    <3>1. CASE c.phase = "closed"
      <4>1. d = [c EXCEPT !.op = "none"]
        BY <2>4, <3>1 DEF Outcomes
      <4>2. Life(w, s)!Return
        BY <1>1, <1>3, <2>1, <2>4, <3>1, <4>1 DEF Connections, Life!Return
      <4>3. QED BY <4>2 DEF Life!Next
    <3>2. CASE c.phase # "closed" /\ d = [k EXCEPT !.op = "none"]
      <4>1. /\ k \in Connections /\ k.phase = "closed" /\ ~k.known /\ k.known \in BOOLEAN
            /\ k.draining = c.draining
        BY <1>1 DEF Closed, Connections
      <4> HIDE DEF k
      <4>2. d.phase = "closed" /\ d.known = FALSE /\ d.op = "none" /\ d.draining = c.draining
        BY <3>2, <4>1 DEF Connections
      <4>3. Life(w, s)!Close
        BY <1>3, <2>1, <2>4, <3>2, <4>2 DEF Life!Close
      <4>4. QED BY <4>3 DEF Life!Next
    <3>3. ASSUME c.phase # "closed",
                 NEW p \in IF c.phase = "writing" /\ c.draining THEN {}
                           ELSE IF c.phase = "body" THEN {"body", "writing"}
                           ELSE {"headers", "body", "writing"},
                 d = [c EXCEPT !.phase = p, !.op = "pending"]
          PROVE  Life(w, s)!Continue
      <4>1. d.phase = p /\ d.op = "pending" /\ d.draining = c.draining /\ d.known = c.known
        BY <1>1, <3>3 DEF Connections
      <4>2. p \in Life(w, s)!After(c.phase) /\ ~(c.phase = "writing" /\ c.draining)
        BY <3>3 DEF Life!After
      <4>3. QED BY <1>3, <2>1, <2>4, <3>3, <4>1, <4>2 DEF Life!Continue
    <3>4. QED BY <2>4, <3>1, <3>2, <3>3 DEF Outcomes, Life!Next
  <2>5. CASE c.born /\ c.known /\ d = [k EXCEPT !.draining = TRUE]
    <3>1. /\ k \in Connections /\ k.phase = "closed" /\ ~k.known /\ k.known \in BOOLEAN
          /\ k.op = c.op
      BY <1>1 DEF Closed, Connections
    <3> HIDE DEF k
    <3>2. d.phase = "closed" /\ d.known = FALSE /\ d.draining = TRUE /\ d.op = c.op
      BY <2>5, <3>1 DEF Connections
    <3>3. Life(w, s)!Stop(TRUE)
      BY <1>3, <2>1, <2>5, <3>2 DEF Life!Stop
    <3>4. QED BY <3>3 DEF Life!Next
  <2>6. QED BY <1>2, <2>2, <2>3, <2>4, <2>5 DEF SlotStep, Transitions
<1>7. QED BY <1>4, <1>5, <1>6

\* The server does nothing to a connection, on whatever thread, that a
\* connection does not allow: each slot implements ConnectionLifecycle, which
\* TcpConnection implements as well.
THEOREM ServerFollowsLifecycle == Spec => FollowsLifecycle
<1> DEFINE Lives == \A w \in Workers, s \in Slots :
                      Life(w, s)!Next \/ UNCHANGED Life(w, s)!vars
<1>1. Init => \A w \in Workers, s \in Slots : Life(w, s)!Init
  BY DEF Init, Unborn, Life!Init
<1>2. ServerInv /\ [Next]_vars => [Lives]_vars
  BY SlotLives
<1>3. QED BY <1>1, <1>2, InvAlways, PTL DEF Spec, FollowsLifecycle
=============================================================================
