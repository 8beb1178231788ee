----------------------------- MODULE RouteTable -----------------------------
(***************************************************************************)
(* What the router promises: which handler answers a request path, and     *)
(* with which parameters, as a function of the registrations made so far   *)
(* and without any tree.                                                   *)
(***************************************************************************)
EXTENDS Routes

VARIABLES
  added,    \* the calls of add(), in order
  answers   \* what resolve() answers, for every method and path

-----------------------------------------------------------------------------
\* The dynamic registrations for m, and the static ones, by their position.
AddedFor(m)   == {i \in 1 .. Len(added) : added[i].method = m}
DynamicFor(m) == {i \in AddedFor(m) : IsDynamic(added[i].parts)}
StaticFor(m)  == AddedFor(m) \ DynamicFor(m)

LastOf(S) == CHOOSE i \in S : \A j \in S : j <= i

\* Some dynamic route for m starts with the steps s.
Known(m, s) ==
  \E i \in DynamicFor(m) :
    Len(s) <= Len(added[i].parts) /\ SubSeq(Shape(added[i].parts), 1, Len(s)) = s

\* The steps s are the ones a path takes: a literal wherever some route goes on
\* with that literal, a parameter elsewhere.
Takes(m, s, parts) ==
  /\ Len(s) = Len(parts)
  /\ \A i \in 1 .. Len(s) :
       s[i] = IF Known(m, Append(SubSeq(s, 1, i - 1), parts[i])) THEN parts[i] ELSE Wild

\* The dynamic routes for m that have the shape the path takes.
Matching(m, parts) == {i \in DynamicFor(m) : Takes(m, Shape(added[i].parts), parts)}

\* The name of the parameter that ends the steps s: the latest registration
\* that goes through it names it.
NameOf(m, s) ==
  LET through == {i \in DynamicFor(m) :
                    /\ Len(s) <= Len(added[i].parts)
                    /\ SubSeq(Shape(added[i].parts), 1, Len(s)) = s}
  IN added[LastOf(through)].parts[Len(s)].text

Parameters(m, s, parts) ==
  LET wild   == {i \in 1 .. Len(s) : s[i] = Wild}
      name(i) == NameOf(m, SubSeq(s, 1, i))
  IN [n \in {name(i) : i \in wild} |-> parts[LastOf({i \in wild : name(i) = n})]]

NoAnswer == [handler |-> NoHandler, params |-> <<>>]

\* A static route with exactly this path, else the dynamic route whose shape
\* the path takes; of equal routes the last one registered.
AnswerFor(m, path) ==
  LET static == {i \in StaticFor(m) : /\ Shape(added[i].parts) = path.parts
                                      /\ added[i].spelling = path.spelling}
      dynamic == Matching(m, path.parts)
  IN IF static # {} THEN [handler |-> added[LastOf(static)].handler, params |-> <<>>]
     ELSE IF dynamic # {}
     THEN LET i == LastOf(dynamic)
          IN [handler |-> added[i].handler,
              params  |-> Parameters(m, Shape(added[i].parts), path.parts)]
     ELSE NoAnswer

\* The answers are the ones the registrations so far determine.
Answered == answers = [m \in Methods |-> [p \in Paths |-> AnswerFor(m, p)]]
=============================================================================
