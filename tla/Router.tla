------------------------------- MODULE Router -------------------------------
(***************************************************************************)
(* The two-tier router (include/Router.h) and its trie (include/Trie.h):   *)
(* one hash map of static paths and one trie of patterns for each method.  *)
(* Routes are added before the server listens; after that the router is    *)
(* only read, so resolve() is an operator and add() the only action.       *)
(*                                                                         *)
(* A trie is a function from node names to nodes.  A node is named by the  *)
(* steps that lead to it from the root, Wild for the step to the wildcard  *)
(* child; whether it is a child of its parent is up to the parent's        *)
(* containers.                                                             *)
(***************************************************************************)
EXTENDS Routes, SequencesExt

CONSTANTS
  LinearMax,   \* how many children the linear array of a node holds (8)
  MaxCalls     \* bound on the calls of add()

ASSUME LinearAssumption == LinearMax \in Nat \ {0} /\ MaxCalls \in Nat

VARIABLES
  static,    \* static_routes_: for each method, handlers by path
  dynamic,   \* dynamic_: for each method, a trie
  added      \* history: the calls of add()

vars == <<static, dynamic, added>>

-----------------------------------------------------------------------------
\* The assignment map[x] = y of a hash map.
Put(map, x, y) == [z \in DOMAIN map \cup {x} |-> IF z = x THEN y ELSE map[z]]

-----------------------------------------------------------------------------
(* TrieNode.                                                               *)

\* The name of a wildcard child that no pattern has named yet.
NoName == ""

\* linear_children, map_children (their keys), wildcard_name and handler.
NewNode == [linear |-> <<>>, map |-> {}, name |-> NoName, handler |-> NoHandler]

\* find_child(): the map, if anything is in it, and the linear array otherwise.
FindChild(node, s) == IF node.map # {} THEN s \in node.map ELSE s \in ToSet(node.linear)

\* Mutants: the children are dropped, or left in the array as well.
MigrateNone(node, s)   == [node EXCEPT !.linear = <<>>, !.map = {s}]
MigrateCopies(node, s) == [node EXCEPT !.map = ToSet(node.linear) \cup {s}]

\* The ninth child moves all children to the map.
Migrate(node, s) == [node EXCEPT !.linear = <<>>, !.map = ToSet(node.linear) \cup {s}]

\* get_or_create_child(), for the containers of the node.
WithChild(node, s) ==
  IF s \in ToSet(node.linear) THEN node
  ELSE IF node.map # {} THEN [node EXCEPT !.map = node.map \cup {s}]
  ELSE IF Len(node.linear) < LinearMax
  THEN [node EXCEPT !.linear = Append(node.linear, s)]
  ELSE Migrate(node, s)

-----------------------------------------------------------------------------
(* Trie.                                                                   *)

NewTrie == [at \in {<<>>} |-> NewNode]

\* The child a part of a pattern leads to exists already.
HasChild(t, at, part) ==
  IF part.kind = "parameter" THEN Append(at, Wild) \in DOMAIN t
                             ELSE FindChild(t[at], part.text)

\* One step of insert(): from the node named at to the child part leads to,
\* which is created when it is missing.  The latest name of a parameter
\* replaces the earlier one.
Descend(t, at, part) ==
  LET child == Append(at, Step(part))
      node  == IF part.kind = "parameter" THEN [t[at] EXCEPT !.name = part.text]
                                          ELSE WithChild(t[at], part.text)
      u     == [t EXCEPT ![at] = node]
  IN [trie |-> IF HasChild(t, at, part) THEN u ELSE Put(u, child, NewNode), at |-> child]

\* insert().
Insert(t, parts, handler) ==
  LET walk[n \in 0 .. Len(parts)] ==
        IF n = 0 THEN [trie |-> t, at |-> <<>>]
        ELSE LET w == walk[n - 1] IN Descend(w.trie, w.at, parts[n])
      end == walk[Len(parts)]
  IN [end.trie EXCEPT ![end.at].handler = handler]

\* The step to the wildcard child binds the segment to the parameter.
FollowWild(t, acc, s) ==
  [acc EXCEPT !.at = Append(acc.at, Wild),
              !.params = Put(acc.params, t[acc.at].name, s)]

\* Mutant: the wildcard child is tried first.
WildFirst(t, acc, s) ==
  IF ~acc.ok THEN acc
  ELSE IF Append(acc.at, Wild) \in DOMAIN t THEN FollowWild(t, acc, s)
  ELSE IF FindChild(t[acc.at], s) THEN [acc EXCEPT !.at = Append(acc.at, s)]
  ELSE [acc EXCEPT !.ok = FALSE]

\* One step of search(): the literal child, else the wildcard child, else
\* failure.
Follow(t, acc, s) ==
  IF ~acc.ok THEN acc
  ELSE IF FindChild(t[acc.at], s) THEN [acc EXCEPT !.at = Append(acc.at, s)]
  ELSE IF Append(acc.at, Wild) \in DOMAIN t THEN FollowWild(t, acc, s)
  ELSE [acc EXCEPT !.ok = FALSE]

NotFound == [handler |-> NoHandler, params |-> <<>>]

\* search(): the walk along the segments, without ever going back.
Search(t, segments) ==
  LET walk[n \in 0 .. Len(segments)] ==
        IF n = 0 THEN [ok |-> TRUE, at |-> <<>>, params |-> <<>>]
        ELSE Follow(t, walk[n - 1], segments[n])
      end == walk[Len(segments)]
  IN IF end.ok /\ t[end.at].handler # NoHandler
     THEN [handler |-> t[end.at].handler, params |-> end.params]
     ELSE NotFound

-----------------------------------------------------------------------------
(* Router.                                                                 *)

\* resolve(): the static map, then the trie.
Resolve(m, path) ==
  IF path \in DOMAIN static[m] THEN [handler |-> static[m][path], params |-> <<>>]
  ELSE Search(dynamic[m], path.parts)

Init ==
  /\ static = [m \in Methods |-> <<>>]
  /\ dynamic = [m \in Methods |-> NewTrie]
  /\ added = <<>>

\* add() does nothing for a method it does not know.
AddUnknown(c) ==
  /\ c.method \notin Methods
  /\ UNCHANGED <<static, dynamic>>

\* A pattern goes to the trie, which ignores how the path is spelled.
AddDynamic(c) ==
  /\ c.method \in Methods
  /\ IsDynamic(c.parts)
  /\ dynamic' = [dynamic EXCEPT ![c.method] = Insert(@, c.parts, c.handler)]
  /\ UNCHANGED static

\* A static path goes to the hash map, with its exact spelling.
AddStatic(c) ==
  /\ c.method \in Methods
  /\ ~IsDynamic(c.parts)
  /\ LET path == [parts |-> Shape(c.parts), spelling |-> c.spelling]
     IN static' = [static EXCEPT ![c.method] = Put(@, path, c.handler)]
  /\ UNCHANGED dynamic

Add(c) ==
  /\ Len(added) < MaxCalls
  /\ added' = Append(added, c)
  /\ AddUnknown(c) \/ AddDynamic(c) \/ AddStatic(c)

Next == \E c \in Calls : Add(c)

Spec == Init /\ [][Next]_vars

-----------------------------------------------------------------------------
(* Properties.                                                             *)

Nodes ==
  [linear : Seq(Segments), map : SUBSET Segments, name : Names \cup {NoName},
   handler : Handlers \cup {NoHandler}]

IsTrie(t) ==
  /\ <<>> \in DOMAIN t
  /\ \A at \in DOMAIN t : at \in Seq(Segments \cup {Wild}) /\ t[at] \in Nodes

\* Types: a trie has a root, its nodes are nodes, and the children of a node
\* are in one of its two containers, the linear one of bounded length.
TypeOK ==
  /\ \A m \in Methods :
       /\ \A path \in DOMAIN static[m] : static[m][path] \in Handlers
       /\ IsTrie(dynamic[m])
       /\ \A at \in DOMAIN dynamic[m] :
            LET node == dynamic[m][at]
            IN (node.map = {} \/ node.linear = <<>>) /\ Len(node.linear) <= LinearMax
  /\ added \in Seq(Calls)

\* Every node but the root is found from its parent: no registration, and no
\* migration from the array to the map, loses a subtree.
NothingIsLost ==
  \A m \in Methods : \A at \in DOMAIN dynamic[m] :
    at # <<>> =>
      /\ Front(at) \in DOMAIN dynamic[m]
      /\ Last(at) # Wild => FindChild(dynamic[m][Front(at)], Last(at))

Table ==
  INSTANCE RouteTable WITH
    answers <- [m \in Methods |-> [p \in Paths |-> Resolve(m, p)]]

\* The router answers as RouteTable says: for every method and path, with the
\* handler and the parameters the registrations determine, whatever their order
\* made of the tree.
AnswersAsTable == Table!Answered
=============================================================================
