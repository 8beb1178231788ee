------------------------------- MODULE Routes -------------------------------
(***************************************************************************)
(* Paths and route patterns.  A path is the sequence of its non-empty      *)
(* segments together with its spelling, which tells apart paths that       *)
(* differ in slashes only: a hash map of strings compares the spelling, a  *)
(* walk over segments does not.  A part of a pattern is a literal segment  *)
(* or a named parameter (":name").                                         *)
(***************************************************************************)
EXTENDS Integers, Sequences

CONSTANTS
  Methods,    \* the seven methods the router knows
  Segments,   \* path segments
  Colons,     \* the segments with a ':' that is not their first character
  Names,      \* parameter names
  Handlers,   \* handler functions
  Wild,       \* the step a parameter stands for
  NoHandler,  \* no handler is registered
  Calls,      \* the calls of add(): [method, parts, spelling, handler]
  Paths       \* request paths: [parts, spelling]

Literal(s)   == [kind |-> "literal", text |-> s]
Parameter(n) == [kind |-> "parameter", text |-> n]

Parts == {Literal(s) : s \in Segments} \cup {Parameter(n) : n \in Names}

IsCall(c) ==
  /\ c.parts \in Seq(Parts)
  /\ c.handler \in Handlers

ASSUME CallAssumption == \A c \in Calls : IsCall(c)
ASSUME PathAssumption ==
  \A p \in Paths : /\ p = [parts |-> p.parts, spelling |-> p.spelling]
                   /\ p.parts \in Seq(Segments)
ASSUME NameAssumption ==
  /\ Wild \notin Segments
  /\ NoHandler \notin Handlers
  /\ Colons \subseteq Segments

-----------------------------------------------------------------------------
\* isDynamic(): the path contains a ':'.
IsDynamic(parts) ==
  \E i \in 1 .. Len(parts) : parts[i].kind = "parameter" \/ parts[i].text \in Colons

Step(part) == IF part.kind = "parameter" THEN Wild ELSE part.text

\* A pattern without the names of its parameters.
Shape(parts) == [i \in 1 .. Len(parts) |-> Step(parts[i])]
=============================================================================
