--------------------------- MODULE MCTcpConnection --------------------------
(***************************************************************************)
(* Small instances of TcpConnection: a buffer of 8 bytes that compacts     *)
(* below 2 free ones, and streams of up to four pipelined requests of 4    *)
(* to 11 bytes, so that compaction, growth, pipelining and fragmentation   *)
(* all happen, alone and together.                                         *)
(***************************************************************************)
EXTENDS TcpConnection

Req(h, b, k, hd, v) == [hdr |-> h, body |-> b, keep |-> k, head |-> hd, verdict |-> v]

\* The offsets at which the requests of a sequence start, then its length.
Starts(reqs) ==
  LET start[i \in 1 .. Len(reqs) + 1] ==
        IF i = 1 THEN 0 ELSE start[i - 1] + reqs[i - 1].hdr + reqs[i - 1].body
  IN [i \in 1 .. Len(reqs) + 1 |-> start[i]]

StreamOf(reqs) == [reqs |-> reqs, start |-> Starts(reqs)]

Get       == Req(4, 0, TRUE, FALSE, 0)
Post      == Req(4, 3, TRUE, FALSE, 0)
FullPost  == Req(4, 4, TRUE, FALSE, 0)    \* fills the initial buffer
LargePost == Req(5, 6, TRUE, FALSE, 0)
CloseGet  == Req(4, 0, FALSE, FALSE, 0)
HeadReq   == Req(4, 0, TRUE, TRUE, 0)
BadGet    == Req(4, 0, TRUE, FALSE, 400)
LongGet   == Req(7, 0, TRUE, FALSE, 0)
HugePost  == Req(4, 7, TRUE, FALSE, 0)
Expects   == Req(4, 3, TRUE, FALSE, 417)
BadHead   == Req(4, 0, TRUE, TRUE, 400)
LongHead  == Req(7, 0, TRUE, TRUE, 0)

\* Streams that pipeline requests of several sizes: the first and the last one
\* with a body, which may have to be read on its own.
PipelinedStreams ==
  {StreamOf(<<a, b, c>>) : a \in {Post, LargePost}, b \in {Get, LargePost},
                           c \in {Post, LargePost}}

\* Streams in which a request, HEAD among them, is refused, ends the connection
\* or comes after its end.
EndingStreams ==
  {StreamOf(<<a, b>>) : a \in {Post, HeadReq},
                        b \in {CloseGet, BadGet, LongGet, HugePost, Expects,
                               HeadReq, BadHead, LongHead}}
    \cup {StreamOf(<<CloseGet, Get>>)}

\* The same with one that has more requests than the budget allows, and one
\* whose requests fill the buffer to the last byte.
AllStreams ==
  PipelinedStreams \cup EndingStreams
    \cup {StreamOf(<<Get, Get, Get, Get>>), StreamOf(<<FullPost, FullPost>>)}

Reply(s, b) == [kind |-> "reply", status |-> s, body |-> b]
Throw       == [kind |-> "throw", status |-> 0, body |-> 0]

\* An application that sends a body only with the statuses that carry one, may
\* throw, and may choose a status that cannot be serialized.  A missing route
\* is answered like an exception, with another text.
AllReplies == {Reply(200, 2), Reply(204, 0), Throw, Reply(600, 0)}

OneReply == {Reply(200, 2)}
=============================================================================
