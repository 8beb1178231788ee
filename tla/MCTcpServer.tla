----------------------------- MODULE MCTcpServer ----------------------------
(***************************************************************************)
(* Small instances of TcpServer.  AnyOutcome is all that ++it may do on a  *)
(* freed node; the other sets leave out the crash, so that a property does *)
(* not hold merely because the process is gone, and the early end.         *)
(***************************************************************************)
EXTENDS TcpServer

CONSTANTS w1, w2

TwoWorkers == {w1, w2}
OneWorker  == {w1}

AnyOutcome  == {"next", "end", "crash"}
LuckyOutcome == {"next"}
EarlyEnd    == {"next", "end"}
=============================================================================
