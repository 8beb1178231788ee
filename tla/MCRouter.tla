------------------------------ MODULE MCRouter ------------------------------
(***************************************************************************)
(* Instances of Router: patterns that share prefixes, collide in shape,    *)
(* differ in parameter names, fill the linear array and shadow each other. *)
(***************************************************************************)
EXTENDS Router

CONSTANTS h1, h2

MCSegments == {"a", "b", "c:d"}
MCNames    == {"x", "y"}

Patterns ==
  {<<Parameter("x")>>, <<Parameter("y")>>,
   <<Literal("a"), Parameter("x")>>, <<Literal("b"), Parameter("x")>>,
   <<Parameter("x"), Literal("a")>>,
   <<Parameter("y"), Parameter("x")>>, <<Parameter("x"), Parameter("x")>>,
   <<Literal("c:d")>>, <<Literal("a")>>, <<Literal("a"), Literal("b")>>}

CallsFor(method, patterns, spellings, handlers) ==
  {[method |-> method, parts |-> p, spelling |-> s, handler |-> h] :
     p \in patterns, s \in spellings, h \in handlers}

\* Any two handlers, a second method, and a method add() does not know.
MCCalls ==
  CallsFor("GET", Patterns, {0}, {h1, h2})
  \cup CallsFor("GET", {<<Literal("a")>>}, {1}, {h2})
  \cup CallsFor("POST", {<<Parameter("y")>>}, {0}, {h1})
  \cup CallsFor("TRACE", {<<Parameter("y")>>}, {0}, {h1})

MCPaths ==
  {[parts |-> p, spelling |-> s] :
     p \in {<<>>} \cup {<<a>> : a \in MCSegments}
                 \cup {<<a, b>> : a, b \in MCSegments},
     s \in {0, 1}}
=============================================================================
