------------------------- MODULE ConnectionLifecycle ------------------------
(***************************************************************************)
(* What a connection promises its server, without its buffers, requests    *)
(* and responses: it waits for one operation at a time, every callback     *)
(* either starts the next operation or closes, closing is final and is     *)
(* reported once, and stop() closes at once what it is told to close.      *)
(* TcpConnection implements this specification, and each connection of     *)
(* TcpServer behaves by it.                                                *)
(***************************************************************************)

VARIABLES
  phase,      \* phase_
  draining,   \* draining_
  op,         \* the operation: "pending", "ready" (its callback is queued), "none"
  known,      \* the server's map holds the connection
  dead        \* the process is gone

vars == <<phase, draining, op, known, dead>>

Phases == {"headers", "body", "writing", "closed"}

\* start() has run: the first read is outstanding.
Init ==
  /\ phase = "headers" /\ draining = FALSE
  /\ op = "pending" /\ known = TRUE
  /\ dead = FALSE

\* The kernel completes the operation, as it must once the socket is closed.
Complete ==
  /\ ~dead /\ op = "pending"
  /\ op' = "ready"
  /\ UNCHANGED <<phase, draining, known, dead>>

Cancel == phase = "closed" /\ Complete

\* The callback of a connection that was closed meanwhile.
Return ==
  /\ ~dead /\ op = "ready" /\ phase = "closed"
  /\ op' = "none"
  /\ UNCHANGED <<phase, draining, known, dead>>

\* A callback closes the connection and the server forgets it.
Close ==
  /\ ~dead /\ op = "ready" /\ phase # "closed"
  /\ phase' = "closed" /\ known' = FALSE /\ op' = "none"
  /\ UNCHANGED <<draining, dead>>

\* The phases a callback can leave the connection in.  A request whose header
\* block has been parsed is not parsed again.
After(p) == IF p = "body" THEN {"body", "writing"} ELSE {"headers", "body", "writing"}

\* A callback starts the next operation.  A draining connection does not start
\* another request.
Continue ==
  /\ ~dead /\ op = "ready" /\ phase # "closed"
  /\ ~(phase = "writing" /\ draining)
  /\ phase' \in After(phase)
  /\ op' = "pending"
  /\ UNCHANGED <<draining, known, dead>>

\* stop(force).
Stop(force) ==
  /\ ~dead /\ known
  /\ draining' = TRUE
  /\ IF force \/ phase = "headers"
     THEN phase' = "closed" /\ known' = FALSE
     ELSE UNCHANGED <<phase, known>>
  /\ UNCHANGED <<op, dead>>

\* The process dies; what the variables hold no longer matters.
Die ==
  /\ ~dead /\ dead' = TRUE
  /\ phase' \in Phases /\ op' \in {"pending", "ready", "none"}
  /\ draining' \in BOOLEAN /\ known' \in BOOLEAN

Next ==
  \/ Complete \/ Return \/ Close \/ Continue \/ Die
  \/ \E force \in BOOLEAN : Stop(force)

Spec == Init /\ [][Next]_vars

\* The event loop runs every queued callback, and the operation of a closed
\* connection completes.
FairSpec == Spec /\ WF_vars(Return \/ Close \/ Continue) /\ WF_vars(Cancel)

-----------------------------------------------------------------------------
TypeOK ==
  /\ phase \in Phases /\ op \in {"pending", "ready", "none"}
  /\ draining \in BOOLEAN /\ known \in BOOLEAN /\ dead \in BOOLEAN

\* The server's map holds the connection exactly while it is open, and an open
\* connection has an operation outstanding whose callback keeps it alive.
KnownIsAlive ==
  dead \/ (/\ known <=> phase # "closed"
           /\ known => op # "none")
=============================================================================
