---------------------------- MODULE MCStaticFiles ---------------------------
(***************************************************************************)
(* Small instances of StaticFiles: two connections on two workers, two     *)
(* files of the application, two regions and as many descriptors, so that  *)
(* what one connection releases another one gets.                          *)
(***************************************************************************)
EXTENDS StaticFiles

CONSTANTS c1, c2, f1, f2, m1, m2

TwoConns  == {c1, c2}
MCObjects == {c1, c2, f1, f2}
MCRegions == {m1, m2}
MCPaths   == {"index.html", "style.css"}
MCSizes   == [p \in MCPaths |-> IF p = "index.html" THEN 3 ELSE 4]

Do(op)         == [op |-> op]
DoStatus(n)    == [op |-> "status", status |-> n]
DoField(k, v)  == [op |-> "header", key |-> k, val |-> v]
DoHeader(n, a) == DoField(Key(n, a), Value("app"))

\* A GET request, which may be the last of its connection.
Get(owner, path, before, handle, after, last) ==
  [head |-> FALSE, close |-> last,
   route |-> [owner |-> owner, file |-> CASE owner # "shared" -> NoRegion
                                        [] path = "index.html" -> f1
                                        [] OTHER -> f2,
              path |-> path, before |-> before, handle |-> handle, after |-> after]]

HeadOf(q) == [q EXCEPT !.head = TRUE]

NotThere == [head |-> FALSE, close |-> TRUE, route |-> NoRoute]

Index == Get("shared", "index.html", <<>>, <<Do("GetHtml")>>, <<>>, FALSE)

\* Hooks that give several bodies, set fields of the transport, throw, or
\* answer with an unusual status.
CarefulRequests ==
  {Index, NotThere,
   HeadOf(Get("shared", "index.html", <<>>, <<Do("GetHtml")>>, <<Do("send")>>, TRUE)),
   Get("shared", "style.css", <<>>, <<Do("GetHtml"), Do("throw")>>, <<>>, FALSE),
   Get("member", "style.css", <<>>, <<Do("GetCss")>>, <<>>, FALSE),
   Get("member", "style.css", <<Do("throw")>>, <<Do("GetCss")>>, <<>>, TRUE),
   Get("none", "", <<>>, <<Do("GetHello"), DoHeader("transfer-encoding", "x"),
                           DoHeader("connection", "x"), Do("owned")>>, <<>>, TRUE),
   Get("none", "", <<>>, <<Do("GetHello"), DoHeader("content-length", "x")>>,
       <<DoStatus(204)>>, FALSE),
   Get("none", "", <<>>, <<DoStatus(600)>>, <<>>, FALSE)}

\* The route of README.md:247-255 beside the example's.
ReadmeRequests ==
  {Index, Get("member", "style.css", <<>>, <<Do("ServeFile")>>, <<>>, FALSE)}

\* A field like that of tests/http_parser.cpp:50, whose value goes on after a
\* line break, with a line that the client takes for the transport's.
BrokenValue == [text |-> "value", lines |-> {Line("content-length", "x", "app", 0)}]

InjectingRequests ==
  {Index, Get("none", "", <<>>, <<Do("GetHello"), DoField(Key("x-test", "x"), BrokenValue)>>,
              <<>>, FALSE)}

Symmetry == Permutations(TwoConns) \cup Permutations(MCRegions)
=============================================================================
