------------------------------ MODULE TcpServer -----------------------------
(***************************************************************************)
(* The server (include/transport/TcpServer.h): one event loop per worker   *)
(* thread, each with its own acceptor and its own map of connections, and  *)
(* a signal thread that stops them all.                                    *)
(*                                                                         *)
(* Threads interleave freely.  The callbacks of one worker run one at a    *)
(* time, each to its end, in an order the kernel and the posting threads   *)
(* decide.  A connection is what ConnectionLifecycle promises; its slot    *)
(* number stands for the object and is never used again.                   *)
(*                                                                         *)
(* listen() may be called again on the same server once it has returned.   *)
(* stop() is called by the signal thread and, as a public function, by any *)
(* other thread.                                                           *)
(***************************************************************************)
EXTENDS Integers, FiniteSets

CONSTANTS
  Workers,         \* the worker threads
  MaxConnections,  \* limits.max_connections
  WorkerFloor,     \* the least value of worker_limit() (1024)
  MaxAccepts,      \* bound: connections the kernel gives one worker
  MaxListens,      \* bound: calls of listen()
  MaxStops,        \* bound: calls of stop() by other threads
  LoopOutcomes     \* what ++it may do after its node was freed (see StopTask)

ASSUME ServerAssumption ==
  /\ IsFiniteSet(Workers) /\ Workers # {}
  /\ MaxConnections \in Nat \ {0} /\ WorkerFloor \in Nat \ {0}
  /\ MaxAccepts \in Nat /\ MaxListens \in Nat /\ MaxStops \in Nat
  /\ LoopOutcomes \subseteq {"next", "end", "crash"}

Slots == 1 .. MaxAccepts

VARIABLES
  main,        \* the thread in listen(): "idle", "serving", or "unwinding"
  listens,     \* calls of listen() so far
  stops,       \* calls of stop() by other threads so far
  running,     \* io.run() of a worker has not returned
  acceptor,    \* the acceptor of a worker: "open", "closed"
  accept,      \* its async_accept: "none", "pending", "accepted", "failed"
  stopping,    \* stopping
  stopTasks,   \* stop tasks posted to a worker and not run
  conns,       \* the connections of a worker, by slot
  signal,      \* the signal wait: "unarmed", "armed", "raised"
  signalRuns,  \* signal_io_.run() has not returned
  signalOff,   \* signal_io_ was stopped, for good
  crashed      \* the process is gone

ports  == <<running, acceptor, accept, stopping, stopTasks>>
sigs   == <<signal, signalRuns, signalOff>>
calls  == <<main, listens, stops>>
vars   == <<calls, ports, conns, sigs, crashed>>

\* A slot no connection has used yet holds Unborn; it becomes a connection by
\* setting born.  phase, op and known are those of ConnectionLifecycle.
Unborn == [born |-> FALSE, phase |-> "headers", draining |-> FALSE,
           op |-> "pending", known |-> TRUE]

Born(w)  == {s \in Slots : conns[w][s].born}

\* worker->connections.
Known(w) == {s \in Born(w) : conns[w][s].known}

\* Connections of a worker whose last callback has not run.
Busy(w)  == {s \in Born(w) : conns[w][s].op # "none"}

\* Mutant: the share is rounded up.
WorkerLimitRoundedUp ==
  LET share == (MaxConnections + Cardinality(Workers) - 1) \div Cardinality(Workers)
  IN IF share > WorkerFloor THEN share ELSE WorkerFloor

\* worker_limit().
WorkerLimit ==
  LET share == MaxConnections \div Cardinality(Workers)
  IN IF share > WorkerFloor THEN share ELSE WorkerFloor

-----------------------------------------------------------------------------
(* listen().                                                               *)

\* A signal caught before is still queued.
Armed == IF signal = "raised" THEN "raised" ELSE "armed"

\* Every worker gets an open acceptor and a started accept, the signal wait
\* is armed and all threads run.  The connections of an earlier call are
\* destroyed; they are all closed (ReturnsClean).  signal_io_ is the same
\* object as before: once stopped, its run() returns immediately.
Listen ==
  /\ ~crashed /\ main = "idle" /\ listens < MaxListens
  /\ main' = "serving"
  /\ listens' = listens + 1
  /\ running'   = [w \in Workers |-> TRUE]
  /\ acceptor'  = [w \in Workers |-> "open"]
  /\ accept'    = [w \in Workers |-> "pending"]
  /\ stopping'  = [w \in Workers |-> FALSE]
  /\ stopTasks' = [w \in Workers |-> 0]
  /\ signal' = Armed
  /\ signalRuns' = TRUE
  /\ UNCHANGED <<stops, conns, signalOff, crashed>>

\* A thread cannot be created: the exception waits, in the destructors of the
\* threads that run already, for loops that nothing has told to stop.  The
\* worker of the calling thread has not run yet, nor has the signal loop, so
\* that a signal is caught and never handled.
ThreadsFail ==
  /\ ~crashed /\ main = "idle" /\ listens < MaxListens
  /\ main' = "unwinding"
  /\ listens' = listens + 1
  /\ \E started \in SUBSET Workers :
       /\ started # Workers
       /\ running' = [w \in Workers |-> w \in started]
  /\ acceptor'  = [w \in Workers |-> "open"]
  /\ accept'    = [w \in Workers |-> "pending"]
  /\ stopping'  = [w \in Workers |-> FALSE]
  /\ stopTasks' = [w \in Workers |-> 0]
  /\ signal' = Armed
  /\ UNCHANGED <<stops, conns, signalRuns, signalOff, crashed>>

\* A later worker cannot bind: listen() throws before any loop runs, and the
\* workers built so far stay, with their acceptors open, until the next call.
ListenFails ==
  /\ ~crashed /\ main = "idle" /\ listens < MaxListens
  /\ listens' = listens + 1
  /\ \E built \in SUBSET Workers :
       /\ built # Workers
       /\ acceptor' = [w \in Workers |-> IF w \in built THEN "open" ELSE "closed"]
       /\ accept'   = [w \in Workers |-> IF w \in built THEN "pending" ELSE "none"]
  /\ running'   = [w \in Workers |-> FALSE]
  /\ stopping'  = [w \in Workers |-> FALSE]
  /\ stopTasks' = [w \in Workers |-> 0]
  /\ UNCHANGED <<main, stops, conns, sigs, crashed>>

\* A worker's loop returns when nothing is outstanding on it.
LoopEnds(w) ==
  /\ ~crashed /\ running[w]
  /\ accept[w] = "none" /\ stopTasks[w] = 0 /\ Busy(w) = {}
  /\ running' = [running EXCEPT ![w] = FALSE]
  /\ UNCHANGED <<calls, acceptor, accept, stopping, stopTasks, conns,
                 sigs, crashed>>

\* Mutant: the pool's threads are not joined.
OwnLoopEnded == \E w \in Workers : ~running[w]

AllLoopsEnded == \A w \in Workers : ~running[w]

\* listen() returns, or its exception leaves it, once every thread has been
\* joined.
ListenReturns ==
  /\ ~crashed /\ main # "idle"
  /\ AllLoopsEnded
  /\ ~signalRuns
  /\ main' = "idle"
  /\ UNCHANGED <<listens, stops, ports, conns, sigs, crashed>>

-----------------------------------------------------------------------------
(* Accepting.                                                              *)

\* The kernel completes the accept; its callback is queued on the worker.
Arrives(w) ==
  /\ ~crashed /\ running[w] /\ accept[w] = "pending" /\ acceptor[w] = "open"
  /\ Born(w) # Slots
  /\ accept' = [accept EXCEPT ![w] = "accepted"]
  /\ UNCHANGED <<calls, running, acceptor, stopping, stopTasks, conns,
                 sigs, crashed>>

AcceptFails(w) ==
  /\ ~crashed /\ running[w] /\ accept[w] = "pending" /\ acceptor[w] = "open"
  /\ accept' = [accept EXCEPT ![w] = "failed"]
  /\ UNCHANGED <<calls, running, acceptor, stopping, stopTasks, conns,
                 sigs, crashed>>

\* Mutants: the next accept is started after a successful one only, or whatever
\* the worker's state is.
RearmsOnSuccess(w) == accept[w] = "accepted" /\ ~stopping[w] /\ acceptor[w] = "open"
RearmsAlways(w) == TRUE

HasRoom(w) == Cardinality(Known(w)) < WorkerLimit
Rearms(w)  == ~stopping[w] /\ acceptor[w] = "open"

\* The accept callback: the socket becomes a connection unless the worker is
\* full, in which case it is dropped.  Only the next accept depends on whether
\* the worker is stopping.
OnAccept(w) ==
  /\ ~crashed /\ running[w] /\ accept[w] \in {"accepted", "failed"}
  /\ IF accept[w] = "accepted" /\ HasRoom(w)
     THEN LET s == CHOOSE s \in Slots \ Born(w) :
                     \A t \in Slots \ Born(w) : s <= t
          IN conns' = [conns EXCEPT ![w][s].born = TRUE]
     ELSE UNCHANGED conns
  /\ accept' = [accept EXCEPT ![w] = IF Rearms(w) THEN "pending" ELSE "none"]
  /\ UNCHANGED <<calls, running, acceptor, stopping, stopTasks, sigs,
                 crashed>>

-----------------------------------------------------------------------------
(* Connections, as far as the server sees them (ConnectionLifecycle).      *)

\* The kernel completes the operation of a connection.
Completes(w, s) ==
  /\ ~crashed /\ running[w]
  /\ conns[w][s].born /\ conns[w][s].op = "pending"
  /\ conns' = [conns EXCEPT ![w][s].op = "ready"]
  /\ UNCHANGED <<calls, ports, sigs, crashed>>

Cancels(w, s) == conns[w][s].phase = "closed" /\ Completes(w, s)

\* Mutant: the server is not told.
ClosedQuietly(c) == [c EXCEPT !.phase = "closed"]

\* What a callback can leave a connection in.
Closed(c) == [c EXCEPT !.phase = "closed", !.known = FALSE]

\* Mutant: a request whose body is incomplete is parsed again.
OutcomesReparse(c) ==
  IF c.phase = "closed"
  THEN {[c EXCEPT !.op = "none"]}
  ELSE {[Closed(c) EXCEPT !.op = "none"]} \cup
       {[c EXCEPT !.phase = p, !.op = "pending"] : p \in {"headers", "body", "writing"}}

Outcomes(c) ==
  IF c.phase = "closed"
  THEN {[c EXCEPT !.op = "none"]}
  ELSE {[Closed(c) EXCEPT !.op = "none"]} \cup
       {[c EXCEPT !.phase = p, !.op = "pending"] :
          p \in IF c.phase = "writing" /\ c.draining THEN {}
                ELSE IF c.phase = "body" THEN {"body", "writing"}
                ELSE {"headers", "body", "writing"}}

\* A callback of a connection runs.
Callback(w, s) ==
  /\ ~crashed /\ running[w]
  /\ conns[w][s].born /\ conns[w][s].op = "ready"
  /\ \E c \in Outcomes(conns[w][s]) : conns' = [conns EXCEPT ![w][s] = c]
  /\ UNCHANGED <<calls, ports, sigs, crashed>>

\* An exception leaves the callback of an open connection, and with it the
\* thread (TcpConnection, Serve).
CallbackThrows(w, s) ==
  /\ ~crashed /\ running[w]
  /\ s \in Known(w) /\ conns[w][s].op = "ready"
  /\ crashed' = TRUE
  /\ UNCHANGED <<calls, ports, conns, sigs>>

-----------------------------------------------------------------------------
(* Stopping.                                                               *)

\* Mutants: stop() posts to one worker; stop() leaves the signal loop running.
PostStopToOne ==
  /\ stopTasks' = [stopTasks EXCEPT ![CHOOSE w \in Workers : TRUE] = @ + 1]
  /\ signalOff' = TRUE
PostStopToWorkers ==
  /\ stopTasks' = [w \in Workers |-> stopTasks[w] + 1]
  /\ UNCHANGED signalOff

\* TcpServer::stop(): one task for every worker, then signal_io_.stop().  The
\* posts are one step because a worker looks at nothing but its own.  A loop
\* that has returned, or never ran, runs no task: what is posted to it is lost.
PostStop ==
  /\ stopTasks' = IF main # "idle" THEN [w \in Workers |-> stopTasks[w] + 1]
                                      ELSE stopTasks
  /\ signalOff' = TRUE

\* Another thread calls stop().
CallStop ==
  /\ ~crashed /\ stops < MaxStops
  /\ stops' = stops + 1
  /\ PostStop
  /\ UNCHANGED <<main, listens, running, acceptor, accept, stopping, conns,
                 signal, signalRuns, crashed>>

\* SIGINT or SIGTERM is delivered to the process.
RaiseSignal ==
  /\ ~crashed /\ signal = "armed"
  /\ signal' = "raised"
  /\ UNCHANGED <<calls, ports, conns, signalRuns, signalOff, crashed>>

\* The signal thread runs the wait's callback.
OnSignal ==
  /\ ~crashed /\ signalRuns /\ ~signalOff /\ signal = "raised"
  /\ signal' = "unarmed"
  /\ PostStop
  /\ UNCHANGED <<calls, running, acceptor, accept, stopping, conns,
                 signalRuns, crashed>>

\* signal_io_.run() returns: it was stopped, before or after it began.
SignalLoopEnds ==
  /\ ~crashed /\ signalRuns /\ signalOff
  /\ signalRuns' = FALSE
  /\ UNCHANGED <<calls, ports, conns, signal, signalOff, crashed>>

\* Mutant: stop() without force, which spares the requests in progress.
ReachedIdle(w) == {{s \in Known(w) : conns[w][s].phase = "headers"}}

\* The connections the loop over the map reaches.  conn->stop(true) closes the
\* connection, whose on_close_ erases the very node the iterator stands on, so
\* that ++it reads freed memory: the node may still hold the old link ("next"),
\* a null one ("end"), or anything else ("crash").
Reached(w) ==
  (IF Known(w) = {} \/ "next" \in LoopOutcomes THEN {Known(w)} ELSE {})
    \cup (IF "end" \in LoopOutcomes THEN SUBSET Known(w) \ {{}} ELSE {})

\* Mutant: a task runs that was not posted.
TakeAnyStopTask(w) == stopTasks' = [stopTasks EXCEPT ![w] = @ - 1]

TakeStopTask(w) == stopTasks[w] > 0 /\ stopTasks' = [stopTasks EXCEPT ![w] = @ - 1]

\* The posted task runs on the worker: the acceptor closes, which cancels an
\* accept that has not completed, and the connections are told to close.
StopTask(w) ==
  /\ ~crashed /\ running[w] /\ TakeStopTask(w)
  /\ UNCHANGED <<calls, running, sigs>>
  /\ \/ /\ stopping[w]
        /\ UNCHANGED <<acceptor, accept, stopping, conns, crashed>>
     \/ /\ ~stopping[w]
        /\ stopping' = [stopping EXCEPT ![w] = TRUE]
        /\ acceptor' = [acceptor EXCEPT ![w] = "closed"]
        /\ accept' = [accept EXCEPT ![w] = IF @ = "pending" THEN "failed" ELSE @]
        /\ \/ /\ \E reached \in Reached(w) :
                   conns' = [conns EXCEPT ![w] =
                     [s \in Slots |->
                        IF s \in reached
                        THEN [Closed(conns[w][s]) EXCEPT !.draining = TRUE]
                        ELSE conns[w][s]]]
              /\ UNCHANGED crashed
           \/ /\ "crash" \in LoopOutcomes /\ Known(w) # {}
              /\ crashed' = TRUE
              /\ UNCHANGED conns

-----------------------------------------------------------------------------
Init ==
  /\ main = "idle" /\ listens = 0 /\ stops = 0
  /\ running   = [w \in Workers |-> FALSE]
  /\ acceptor  = [w \in Workers |-> "closed"]
  /\ accept    = [w \in Workers |-> "none"]
  /\ stopping  = [w \in Workers |-> FALSE]
  /\ stopTasks = [w \in Workers |-> 0]
  /\ conns = [w \in Workers |-> [s \in Slots |-> Unborn]]
  /\ signal = "unarmed" /\ signalRuns = FALSE /\ signalOff = FALSE
  /\ crashed = FALSE

Next ==
  \/ Listen \/ ListenFails \/ ThreadsFail \/ ListenReturns
  \/ CallStop \/ RaiseSignal \/ OnSignal \/ SignalLoopEnds
  \/ \E w \in Workers :
       \/ Arrives(w) \/ AcceptFails(w) \/ OnAccept(w)
       \/ StopTask(w) \/ LoopEnds(w)
       \/ \E s \in Slots : Completes(w, s) \/ Callback(w, s) \/ CallbackThrows(w, s)

Spec == Init /\ [][Next]_vars

\* Every thread keeps running the callbacks of its own loop, in the order they
\* were queued, and returns from run() when it can; operations on a closed
\* socket complete.  Nothing obliges a client, or a caller of stop().
Fairness ==
  /\ WF_vars(ListenReturns) /\ WF_vars(OnSignal) /\ WF_vars(SignalLoopEnds)
  /\ \A w \in Workers :
       /\ WF_vars(OnAccept(w)) /\ WF_vars(StopTask(w)) /\ WF_vars(LoopEnds(w))
       /\ \A s \in Slots : WF_vars(Callback(w, s)) /\ WF_vars(Cancels(w, s))

FairSpec == Spec /\ Fairness

-----------------------------------------------------------------------------
(* Properties.                                                             *)

Connections ==
  [born : BOOLEAN, phase : {"headers", "body", "writing", "closed"},
   draining : BOOLEAN, op : {"pending", "ready", "none"}, known : BOOLEAN]

\* Types: every variable stays inside its type.
TypeOK ==
  /\ main \in {"idle", "serving", "unwinding"} /\ listens \in Nat /\ stops \in Nat
  /\ running \in [Workers -> BOOLEAN]
  /\ acceptor \in [Workers -> {"open", "closed"}]
  /\ accept \in [Workers -> {"none", "pending", "accepted", "failed"}]
  /\ stopping \in [Workers -> BOOLEAN]
  /\ stopTasks \in [Workers -> Nat]
  /\ conns \in [Workers -> [Slots -> Connections]]
  /\ signal \in {"unarmed", "armed", "raised"}
  /\ signalRuns \in BOOLEAN /\ signalOff \in BOOLEAN
  /\ crashed \in BOOLEAN

\* The connections of all workers.
AllKnown == {c \in Workers \X Slots : c[2] \in Known(c[1])}

\* The workers, each of which counts its own connections only, together hold
\* no more than max_connections, or than the floors of all workers where these
\* exceed it: no rounding of the shares and no erased or late connection adds
\* to it.  Floors of 1024 exceed max_connections unless it is at least 1024
\* for each worker: HttpLimits.h:18 says that it is the maximum.
TotalCapacity ==
  LET floors == WorkerFloor * Cardinality(Workers)
  IN Cardinality(AllKnown) <= IF MaxConnections > floors THEN MaxConnections ELSE floors

\* The map and the connections agree: a worker holds exactly its open
\* connections, each of which has an operation outstanding whose callback
\* keeps the object alive and will come.
MapHoldsOpen ==
  \A w \in Workers : \A s \in Born(w) :
    /\ conns[w][s].known <=> conns[w][s].phase # "closed"
    /\ conns[w][s].known => conns[w][s].op # "none"

\* Until it is told to stop, a serving worker always has an accept started or
\* its callback queued, on an open acceptor: no failed accept and no full map
\* ends admission, and its loop never runs out of work.  The same holds of a
\* loop that runs although listen() failed to start the others.
KeepsAccepting ==
  \A w \in Workers :
    ((main = "serving" \/ running[w]) /\ ~stopping[w] /\ ~crashed) =>
      running[w] /\ acceptor[w] = "open" /\ accept[w] # "none"

\* listen() does not return while a worker's loop runs, a connection is open or
\* a callback is queued, so the next listen() destroys nothing in use.
ReturnsClean ==
  main = "idle" => \A w \in Workers :
    ~running[w] /\ Known(w) = {} /\ Busy(w) = {}

\* Once a worker is stopping it admits no connection but the one whose accept
\* had completed, and starts no other accept.
AtMostOneLateAdmission ==
  [][\A w \in Workers : (stopping[w] /\ stopping'[w]) =>
       /\ accept'[w] # "pending"
       /\ accept[w] = "none" => accept'[w] = "none"
       /\ Born(w)' # Born(w) => accept[w] = "accepted" /\ accept'[w] = "none"]_vars

\* A worker that was told to stop holds at most one connection, and that one is
\* of an accept that had completed before: none while its callback has not run.
\* It is so where ++it survives the erased node; server_iteration shows what
\* happens where it does not.
OnlyLateOneRemains ==
  \A w \in Workers : stopping[w] =>
    /\ \A s, t \in Known(w) : s = t
    /\ accept[w] = "accepted" => Known(w) = {}

\* Each slot behaves by ConnectionLifecycle: what the server does with its
\* connections is what a connection allows.
Life(w, s) ==
  INSTANCE ConnectionLifecycle WITH
    phase <- conns[w][s].phase, draining <- conns[w][s].draining,
    op <- conns[w][s].op, known <- conns[w][s].known, dead <- crashed

FollowsLifecycle ==
  /\ \A w \in Workers, s \in Slots : Life(w, s)!Init
  /\ [][\A w \in Workers, s \in Slots :
          Life(w, s)!Next \/ UNCHANGED Life(w, s)!vars]_vars

\* A signal delivered while the signal loop runs stops every worker.
SignalStops ==
  (signal = "raised" /\ signalRuns /\ ~signalOff) ~>
    (crashed \/ \A w \in Workers : stopping[w])

\* The loop of a stopped worker ends, unless a connection is still open on it.
StoppedLoopEnds ==
  \A w \in Workers : stopping[w] ~> (crashed \/ ~running[w] \/ Known(w) # {})

\* listen() returns, or lets its exception go, when all the loops it started
\* have ended after a stop.
ListenReturnsAfterStop ==
  (main # "idle" /\ \A w \in Workers : ~running[w]) ~> main = "idle"

-----------------------------------------------------------------------------
(* What the documentation says, and the code does not do.                  *)

\* README.md:80, stop() closes "idle/header-reading connections": none is left
\* after the stop task.
StopReachesIdle ==
  [][\A w \in Workers : \A s \in Known(w) :
       (stopTasks'[w] < stopTasks[w] /\ ~stopping[w] /\ conns[w][s].phase = "headers") =>
         conns'[w][s].phase = "closed"]_vars

\* README.md:80, after a stop "Worker threads join after cancellation
\* callbacks drain".
StoppedWorkersJoin == \A w \in Workers : stopping[w] ~> (crashed \/ ~running[w])
=============================================================================
