--------------------------- MODULE Router_proofs ----------------------------
(***************************************************************************)
(* The router's trie answers as the table of its registrations: every      *)
(* invariant of Router, for all routes, paths, methods and array sizes.    *)
(***************************************************************************)
EXTENDS Router, Numbers_proofs, SequenceTheorems

-----------------------------------------------------------------------------
(* Prefixes of sequences.                                                  *)

LEMMA PrefixFacts ==
  ASSUME NEW S, NEW s \in Seq(S), NEW k \in 0 .. Len(s)
  PROVE  /\ SubSeq(s, 1, k) \in Seq(S)
         /\ Len(SubSeq(s, 1, k)) = k
         /\ \A i \in 1 .. k : SubSeq(s, 1, k)[i] = s[i]
<1>1. Len(s) \in Nat /\ \A i \in 1 .. Len(s) : s[i] \in S
  OBVIOUS
<1>2. 1 \in Int /\ k \in Int /\ \A i \in 1 .. k : s[i] \in S
  BY <1>1
<1>3. /\ SubSeq(s, 1, k) \in Seq(S)
      /\ Len(SubSeq(s, 1, k)) = IF 1 <= k THEN k - 1 + 1 ELSE 0
      /\ \A i \in 1 .. k - 1 + 1 : SubSeq(s, 1, k)[i] = s[1 + i - 1]
  BY <1>2, SubSeqProperties
<1>4. QED BY <1>1, <1>3

LEMMA PrefixNext ==
  ASSUME NEW S, NEW s \in Seq(S), NEW k \in 0 .. Len(s), k # Len(s)
  PROVE  /\ s[k + 1] \in S
         /\ SubSeq(s, 1, k + 1) = Append(SubSeq(s, 1, k), s[k + 1])
<1>1. Len(s) \in Nat /\ k + 1 \in 0 .. Len(s) /\ k + 1 \in 1 .. Len(s)
  OBVIOUS
<1>2. s[k + 1] \in S
  BY <1>1
<1> DEFINE u == SubSeq(s, 1, k)
           v == SubSeq(s, 1, k + 1)
<1>3. u \in Seq(S) /\ Len(u) = k /\ \A i \in 1 .. k : u[i] = s[i]
  BY PrefixFacts
<1>4. v \in Seq(S) /\ Len(v) = k + 1 /\ \A i \in 1 .. k + 1 : v[i] = s[i]
  BY <1>1, PrefixFacts
<1> HIDE DEF u, v
<1>5. /\ Append(u, s[k + 1]) \in Seq(S) /\ Len(Append(u, s[k + 1])) = k + 1
      /\ \A i \in 1 .. k : Append(u, s[k + 1])[i] = u[i]
      /\ Append(u, s[k + 1])[k + 1] = s[k + 1]
  BY <1>2, <1>3, AppendProperties
<1>6. \A i \in 1 .. Len(v) : v[i] = Append(u, s[k + 1])[i]
  BY <1>1, <1>3, <1>4, <1>5
<1>7. v = Append(u, s[k + 1])
  BY <1>4, <1>5, <1>6, SeqEqual
<1>8. QED BY <1>2, <1>7 DEF u, v

LEMMA PrefixOfPrefix ==
  ASSUME NEW S, NEW s \in Seq(S), NEW k \in 0 .. Len(s), NEW j \in 0 .. k
  PROVE  SubSeq(SubSeq(s, 1, k), 1, j) = SubSeq(s, 1, j)
<1> DEFINE u == SubSeq(s, 1, k)
           v == SubSeq(u, 1, j)
           w == SubSeq(s, 1, j)
<1>1. Len(s) \in Nat /\ j \in 0 .. Len(s)
  OBVIOUS
<1>2. u \in Seq(S) /\ Len(u) = k /\ \A i \in 1 .. k : u[i] = s[i]
  BY PrefixFacts
<1>3. w \in Seq(S) /\ Len(w) = j /\ \A i \in 1 .. j : w[i] = s[i]
  BY <1>1, PrefixFacts
<1> HIDE DEF u, w
<1>4. v \in Seq(S) /\ Len(v) = j /\ \A i \in 1 .. j : v[i] = u[i]
  BY <1>2, PrefixFacts
<1> HIDE DEF v
<1>5. \A i \in 1 .. Len(v) : v[i] = w[i]
  BY <1>1, <1>2, <1>3, <1>4
<1>6. v = w
  BY <1>3, <1>4, <1>5, SeqEqual
<1>7. QED BY <1>6 DEF u, v, w

LEMMA PrefixOfAppend ==
  ASSUME NEW S, NEW s \in Seq(S), NEW x \in S, NEW k \in 0 .. Len(s)
  PROVE  SubSeq(Append(s, x), 1, k) = SubSeq(s, 1, k)
<1> DEFINE u == Append(s, x)
           v == SubSeq(u, 1, k)
           w == SubSeq(s, 1, k)
<1>1. u \in Seq(S) /\ Len(u) = Len(s) + 1 /\ \A i \in 1 .. Len(s) : u[i] = s[i]
  BY AppendProperties
<1>2. w \in Seq(S) /\ Len(w) = k /\ \A i \in 1 .. k : w[i] = s[i]
  BY PrefixFacts
<1> HIDE DEF u, w
<1>3. Len(s) \in Nat /\ k \in 0 .. Len(u)
  BY <1>1
<1>4. v \in Seq(S) /\ Len(v) = k /\ \A i \in 1 .. k : v[i] = u[i]
  BY <1>1, <1>3, PrefixFacts
<1> HIDE DEF v
<1>5. \A i \in 1 .. Len(v) : v[i] = w[i]
  BY <1>1, <1>2, <1>3, <1>4
<1>6. v = w
  BY <1>2, <1>4, <1>5, SeqEqual
<1>7. QED BY <1>6 DEF u, v, w

\* Front and last element.
LEMMA FrontAndLast ==
  ASSUME NEW S, NEW s \in Seq(S), NEW x \in S
  PROVE  /\ Front(Append(s, x)) = s /\ Last(Append(s, x)) = x
         /\ Append(s, x) # <<>> /\ Append(s, x) \in Seq(S)
<1>1. /\ Len(Append(s, x)) = Len(s) + 1 /\ Append(s, x)[Len(s) + 1] = x
      /\ Append(s, x) # <<>> /\ Append(s, x) \in Seq(S) /\ Len(s) \in Nat
  BY AppendProperties
<1>2. SubSeq(Append(s, x), 1, Len(s)) = SubSeq(s, 1, Len(s)) /\ Len(s) \in 0 .. Len(s)
  BY <1>1, PrefixOfAppend
<1>3. SubSeq(s, 1, Len(s)) = s
  BY SubSeqFull
<1>4. QED BY <1>1, <1>2, <1>3 DEF Front, Last

-----------------------------------------------------------------------------
(* A node.                                                                 *)

\* The children of a node are in one container, the linear one bounded.
Compact(node) ==
  /\ node.map = {} \/ node.linear = <<>>
  /\ Len(node.linear) <= LinearMax

LEMMA ElementsOfAppend ==
  ASSUME NEW S, NEW s \in Seq(S), NEW x \in S
  PROVE  ToSet(Append(s, x)) = ToSet(s) \cup {x} /\ ToSet(<<>>) = {}
<1> DEFINE u == Append(s, x)
<1>1. /\ u \in Seq(S) /\ Len(u) = Len(s) + 1 /\ Len(s) \in Nat
      /\ \A i \in 1 .. Len(s) : u[i] = s[i]
      /\ u[Len(s) + 1] = x
  BY AppendProperties
<1>2. DOMAIN u = 1 .. Len(s) + 1 /\ DOMAIN s = 1 .. Len(s)
  BY <1>1
<1> HIDE DEF u
<1>3. ToSet(u) \subseteq ToSet(s) \cup {x}
  BY <1>1, <1>2 DEF ToSet
<1>4. ToSet(s) \subseteq ToSet(u)
  BY <1>1, <1>2 DEF ToSet
<1>5. x \in ToSet(u)
  <2>1. Len(s) + 1 \in DOMAIN u
    BY <1>1, <1>2
  <2>2. QED BY <1>1, <2>1 DEF ToSet
<1>6. ToSet(<<>>) = {}
  BY DEF ToSet
<1>7. QED BY <1>3, <1>4, <1>5, <1>6 DEF u

\* get_or_create_child() adds the child, and nothing else: not even when the
\* children move from the array to the map.
LEMMA WithChildAdds ==
  ASSUME NEW node \in Nodes, Compact(node), NEW s \in Segments
  PROVE  LET after == WithChild(node, s)
         IN /\ after \in Nodes /\ Compact(after)
            /\ after.handler = node.handler /\ after.name = node.name
            /\ \A x : FindChild(after, x) <=> FindChild(node, x) \/ x = s
<1> DEFINE after == WithChild(node, s)
<1>1. PICK l \in Seq(Segments), b \in SUBSET Segments,
           n \in Names \cup {NoName}, h \in Handlers \cup {NoHandler} :
        node = [linear |-> l, map |-> b, name |-> n, handler |-> h]
  BY DEF Nodes
<1>2. /\ ToSet(Append(l, s)) = ToSet(l) \cup {s} /\ ToSet(<<>>) = {}
      /\ Append(l, s) \in Seq(Segments) /\ Len(Append(l, s)) = Len(l) + 1
      /\ Len(l) \in Nat /\ <<>> \in Seq(Segments) /\ Len(<<>>) = 0
      /\ LinearMax \in Nat \ {0}
  <2>1. ToSet(Append(l, s)) = ToSet(l) \cup {s} /\ ToSet(<<>>) = {}
    BY ElementsOfAppend
  <2>2. Append(l, s) \in Seq(Segments) /\ Len(Append(l, s)) = Len(l) + 1
    BY AppendProperties
  <2>3. QED BY <2>1, <2>2, LinearAssumption
<1>3. (b = {} \/ l = <<>>) /\ Len(l) <= LinearMax
  BY <1>1 DEF Compact
<1>4. ToSet(l) \subseteq Segments
  <2>1. DOMAIN l = 1 .. Len(l) /\ \A i \in 1 .. Len(l) : l[i] \in Segments
    OBVIOUS
  <2>2. QED BY <2>1 DEF ToSet
<1>5. CASE s \in ToSet(l)
  <2>1. after = node /\ b = {}
    BY <1>1, <1>2, <1>3, <1>5 DEF WithChild
  <2>2. FindChild(node, s)
    BY <1>1, <1>5, <2>1 DEF FindChild
  <2>3. QED BY <2>1, <2>2
<1>6. CASE s \notin ToSet(l) /\ b # {}
  <2>1. after = [linear |-> l, map |-> b \cup {s}, name |-> n, handler |-> h]
    BY <1>1, <1>6 DEF WithChild
  <2>2. \A x : FindChild(after, x) <=> FindChild(node, x) \/ x = s
    BY <1>1, <1>6, <2>1 DEF FindChild
  <2>3. after \in Nodes /\ Compact(after)
    BY <1>1, <1>3, <1>6, <2>1 DEF Nodes, Compact
  <2>4. QED BY <1>1, <2>1, <2>2, <2>3
<1>7. CASE s \notin ToSet(l) /\ b = {} /\ Len(l) < LinearMax
  <2>1. after = [linear |-> Append(l, s), map |-> b, name |-> n, handler |-> h]
    BY <1>1, <1>7 DEF WithChild
  <2>2. \A x : FindChild(after, x) <=> FindChild(node, x) \/ x = s
    <3>1. /\ after.map = {} /\ after.linear = Append(l, s)
          /\ node.map = {} /\ node.linear = l
      <4>1. node.map = {} /\ node.linear = l
        BY <1>1, <1>7
      <4> DEFINE q == Append(l, s)
      <4>2. after = [linear |-> q, map |-> b, name |-> n, handler |-> h]
        BY <2>1
      <4> HIDE DEF q, after
      <4>3. after.map = b /\ after.linear = q
        BY <4>2
      <4>4. QED BY <4>1, <4>3, <1>7 DEF q
    <3> HIDE DEF after
    <3>2. QED BY <1>2, <3>1 DEF FindChild
  <2>3. after \in Nodes
    BY <1>1, <1>2, <2>1 DEF Nodes
  <2>4. Len(Append(l, s)) <= LinearMax
    BY <1>2, <1>7
  <2>5. Compact(after)
    BY <1>7, <2>1, <2>4 DEF Compact
  <2>6. QED BY <1>1, <2>1, <2>2, <2>3, <2>5
<1>8. CASE s \notin ToSet(l) /\ b = {} /\ ~(Len(l) < LinearMax)
  <2>1. after = [linear |-> <<>>, map |-> ToSet(l) \cup {s}, name |-> n, handler |-> h]
    BY <1>1, <1>8 DEF WithChild, Migrate
  <2>2. \A x : FindChild(after, x) <=> FindChild(node, x) \/ x = s
    <3>1. /\ after.map = ToSet(l) \cup {s}
          /\ node.map = {} /\ node.linear = l
      BY <1>1, <1>8, <2>1
    <3>2. after.map # {}
      BY <3>1
    <3> HIDE DEF after
    <3>3. QED BY <3>1, <3>2 DEF FindChild
  <2>3. after \in Nodes
    <3>1. ToSet(l) \cup {s} \in SUBSET Segments
      BY <1>4
    <3>2. [linear |-> <<>>, map |-> ToSet(l) \cup {s}, name |-> n, handler |-> h] \in Nodes
      BY <1>2, <3>1 DEF Nodes
    <3>3. QED BY <2>1, <3>2
  <2>4. Compact(after)
    BY <1>2, <2>1 DEF Compact
  <2>5. QED BY <1>1, <2>1, <2>2, <2>3, <2>4
<1>9. QED BY <1>5, <1>6, <1>7, <1>8

-----------------------------------------------------------------------------
(* A trie.                                                                 *)

Steps == Segments \cup {Wild}

\* A trie in which every node but the root is its parent's child, and every
\* child of a node is in the trie.
Connected(t) ==
  /\ <<>> \in DOMAIN t
  /\ \A at \in DOMAIN t : at \in Seq(Steps) /\ t[at] \in Nodes /\ Compact(t[at])
  /\ \A at \in DOMAIN t : at # <<>> => Front(at) \in DOMAIN t
  /\ \A at \in DOMAIN t : \A s \in Segments :
       FindChild(t[at], s) <=> Append(at, s) \in DOMAIN t

LEMMA NewTrieConnected ==
  /\ Connected(NewTrie) /\ DOMAIN NewTrie = {<<>>}
  /\ NewTrie[<<>>].handler = NoHandler /\ NewTrie[<<>>].name = NoName
<1>1. DOMAIN NewTrie = {<<>>} /\ NewTrie[<<>>] = NewNode
  BY DEF NewTrie
<1>2. NewNode \in Nodes /\ Compact(NewNode) /\ NewNode.handler = NoHandler /\ NewNode.name = NoName
  BY LinearAssumption DEF NewNode, Nodes, Compact
<1>3. \A s \in Segments : ~FindChild(NewNode, s)
  BY DEF FindChild, NewNode, ToSet
<1>4. \A s \in Segments : Append(<<>>, s) # <<>>
  <2>1. \A s \in Segments : Append(<<>>, s) # <<>>
    BY AppendProperties, <<>> \in Seq(Segments)
  <2>2. QED BY <2>1
<1>5. QED BY <1>1, <1>2, <1>3, <1>4 DEF Connected

LEMMA PartFacts ==
  ASSUME NEW part \in Parts
  PROVE  /\ Step(part) \in Steps
         /\ part.kind = "parameter" => Step(part) = Wild /\ part.text \in Names
         /\ part.kind # "parameter" => Step(part) = part.text /\ part.text \in Segments
         /\ Step(part) = Wild <=> part.kind = "parameter"
BY NameAssumption DEF Parts, Literal, Parameter, Step, Steps

\* One step of insert(): the node it comes to is in the trie, new if it was not
\* there before, and nothing else in the trie is different but the name of the
\* parameter.
LEMMA DescendBuilds ==
  ASSUME NEW t, Connected(t), NEW at \in DOMAIN t, NEW part \in Parts
  PROVE  LET d == Descend(t, at, part)
         IN /\ d.at = Append(at, Step(part))
            /\ Connected(d.trie)
            /\ DOMAIN d.trie = DOMAIN t \cup {Append(at, Step(part))}
            /\ \A s \in DOMAIN d.trie :
                 /\ d.trie[s].handler = IF s \in DOMAIN t THEN t[s].handler ELSE NoHandler
                 /\ d.trie[s].name = IF s = at /\ part.kind = "parameter" THEN part.text
                                     ELSE IF s \in DOMAIN t THEN t[s].name ELSE NoName
<1> DEFINE child == Append(at, Step(part))
           node == IF part.kind = "parameter" THEN [t[at] EXCEPT !.name = part.text]
                   ELSE WithChild(t[at], part.text)
           v == [t EXCEPT ![at] = node]
           u == IF HasChild(t, at, part) THEN v ELSE Put(v, child, NewNode)
           d == Descend(t, at, part)
<1>1. /\ at \in Seq(Steps) /\ t[at] \in Nodes /\ Compact(t[at])
      /\ \A s \in Segments : FindChild(t[at], s) <=> Append(at, s) \in DOMAIN t
  BY DEF Connected
<1>2. d.trie = u /\ d.at = child
  BY DEF Descend
<1>3. /\ child \in Seq(Steps) /\ child # <<>> /\ child # at /\ Front(child) = at
      /\ \A s \in Seq(Steps) : \A x \in Steps : Append(s, x) = child <=> s = at /\ x = Step(part)
  <2>1. Step(part) \in Steps
    BY PartFacts
  <2>2. child \in Seq(Steps) /\ child # <<>> /\ Front(child) = at
    BY <1>1, <2>1, FrontAndLast
  <2>3. Len(child) = Len(at) + 1 /\ Len(at) \in Nat
    BY <1>1, <2>1, AppendProperties
  <2>4. \A s \in Seq(Steps) : \A x \in Steps : Append(s, x) = child <=> s = at /\ x = Step(part)
    BY <1>1, <2>1, AppendInjective
  <2>5. child # at
    <3> HIDE DEF child
    <3> QED BY <2>3
  <2>6. QED BY <2>2, <2>4, <2>5
<1>4. /\ node \in Nodes /\ Compact(node) /\ node.handler = t[at].handler
      /\ node.name = IF part.kind = "parameter" THEN part.text ELSE t[at].name
      /\ \A x \in Segments : FindChild(node, x) <=> FindChild(t[at], x) \/ x = Step(part)
  <2>1. CASE part.kind = "parameter"
    <3>1. node = [t[at] EXCEPT !.name = part.text]
      BY <2>1
    <3>2. part.text \in Names /\ Step(part) = Wild
      BY <2>1, PartFacts
    <3>3. PICK l \in Seq(Segments), b \in SUBSET Segments,
               n \in Names \cup {NoName}, h \in Handlers \cup {NoHandler} :
            t[at] = [linear |-> l, map |-> b, name |-> n, handler |-> h]
      BY <1>1 DEF Nodes
    <3> HIDE DEF node
    <3>4. node = [linear |-> l, map |-> b, name |-> part.text, handler |-> h]
      BY <3>1, <3>3
    <3>5. node \in Nodes
      BY <3>2, <3>4 DEF Nodes
    <3>6. Compact(node)
      BY <1>1, <3>3, <3>4 DEF Compact
    <3>7. \A x \in Segments : FindChild(node, x) <=> FindChild(t[at], x)
      BY <3>3, <3>4 DEF FindChild
    <3>8. QED BY <2>1, <3>2, <3>3, <3>4, <3>5, <3>6, <3>7, NameAssumption
  <2>2. CASE part.kind # "parameter"
    <3>1. node = WithChild(t[at], part.text)
      BY <2>2
    <3>2. part.text \in Segments /\ Step(part) = part.text
      BY <2>2, PartFacts
    <3> HIDE DEF node
    <3>3. QED BY <1>1, <2>2, <3>1, <3>2, WithChildAdds
  <2>3. QED BY <2>1, <2>2
<1>5. HasChild(t, at, part) <=> child \in DOMAIN t
  BY <1>1, PartFacts DEF HasChild
<1>6. /\ DOMAIN u = DOMAIN t \cup {child}
      /\ u[at] = node
      /\ child \notin DOMAIN t => u[child] = NewNode
      /\ \A s \in DOMAIN t : s # at => u[s] = t[s]
  <2> HIDE DEF node, child
  <2>1. DOMAIN v = DOMAIN t /\ v[at] = node /\ \A s \in DOMAIN t : s # at => v[s] = t[s]
    OBVIOUS
  <2> HIDE DEF v
  <2>2. CASE child \in DOMAIN t
    BY <1>5, <2>1, <2>2
  <2>3. CASE child \notin DOMAIN t
    <3>1. u = Put(v, child, NewNode)
      BY <1>5, <2>3
    <3> HIDE DEF u
    <3>2. QED BY <2>1, <2>3, <3>1 DEF Put
  <2>4. QED BY <2>2, <2>3
<1>7. /\ NewNode \in Nodes /\ Compact(NewNode)
      /\ NewNode.handler = NoHandler /\ NewNode.name = NoName
      /\ \A x \in Segments : ~FindChild(NewNode, x)
  <2>1. NewNode \in Nodes /\ Compact(NewNode)
        /\ NewNode.handler = NoHandler /\ NewNode.name = NoName
    BY LinearAssumption DEF NewNode, Nodes, Compact
  <2>2. \A x \in Segments : ~FindChild(NewNode, x)
    BY DEF FindChild, NewNode, ToSet
  <2>3. QED BY <2>1, <2>2
<1> HIDE DEF child, node, u, v, d
<1>8. /\ <<>> \in DOMAIN u
      /\ \A s \in DOMAIN u : s \in Seq(Steps) /\ u[s] \in Nodes /\ Compact(u[s])
  BY <1>3, <1>4, <1>6, <1>7 DEF Connected
<1>9. ASSUME NEW s \in DOMAIN u, s # <<>> PROVE Front(s) \in DOMAIN u
  BY <1>3, <1>6, <1>9 DEF Connected
<1>10. ASSUME NEW s \in DOMAIN u, NEW x \in Segments
       PROVE  FindChild(u[s], x) <=> Append(s, x) \in DOMAIN u
  <2>1. s \in Seq(Steps) /\ x \in Steps
    BY <1>8 DEF Steps
  <2>2. Append(s, x) = child <=> s = at /\ x = Step(part)
    BY <1>3, <2>1
  <2>3. CASE s = at
    BY <1>1, <1>4, <1>6, <2>2, <2>3
  <2>4. CASE s # at /\ s \in DOMAIN t
    <3>1. FindChild(t[s], x) <=> Append(s, x) \in DOMAIN t
      BY <2>4 DEF Connected
    <3>2. QED BY <1>6, <2>2, <2>4, <3>1
  <2>5. CASE s # at /\ s \notin DOMAIN t
    <3>1. s = child /\ ~FindChild(u[s], x)
      BY <1>6, <1>7, <2>5
    <3>2. Append(s, x) # <<>> /\ Front(Append(s, x)) = s
      BY <2>1, FrontAndLast
    <3>3. Append(s, x) \notin DOMAIN t
      BY <2>5, <3>2 DEF Connected
    <3>4. QED BY <1>6, <2>2, <2>5, <3>1, <3>3
  <2>6. QED BY <2>3, <2>4, <2>5
<1>11. Connected(u)
  BY <1>8, <1>9, <1>10 DEF Connected
<1>12. ASSUME NEW s \in DOMAIN u
       PROVE  /\ u[s].handler = IF s \in DOMAIN t THEN t[s].handler ELSE NoHandler
              /\ u[s].name = IF s = at /\ part.kind = "parameter" THEN part.text
                             ELSE IF s \in DOMAIN t THEN t[s].name ELSE NoName
  <2>1. CASE s = at
    BY <1>4, <1>6, <2>1
  <2>2. CASE s # at
    BY <1>6, <1>7, <2>2
  <2>3. QED BY <2>1, <2>2
<1>13. QED BY <1>2, <1>6, <1>11, <1>12 DEF child, d

LEMMA ShapeFacts ==
  ASSUME NEW parts \in Seq(Parts)
  PROVE  /\ Shape(parts) \in Seq(Steps)
         /\ Len(Shape(parts)) = Len(parts) /\ Len(parts) \in Nat
         /\ \A i \in 1 .. Len(parts) : parts[i] \in Parts /\ Shape(parts)[i] = Step(parts[i])
<1>1. Len(parts) \in Nat /\ \A i \in 1 .. Len(parts) : parts[i] \in Parts
  OBVIOUS
<1>2. \A i \in 1 .. Len(parts) : Step(parts[i]) \in Steps
  BY <1>1, PartFacts
<1>3. Shape(parts) = [i \in 1 .. Len(parts) |-> Step(parts[i])]
  BY DEF Shape
<1> HIDE DEF Steps
<1>4. Shape(parts) \in [1 .. Len(parts) -> Steps]
  BY <1>2, <1>3
<1>5. Shape(parts) \in Seq(Steps)
  BY <1>1, <1>4
<1>6. DOMAIN Shape(parts) = 1 .. Len(parts) /\ DOMAIN Shape(parts) = 1 .. Len(Shape(parts))
  BY <1>4, <1>5
<1>7. Len(Shape(parts)) \in Nat
  BY <1>5
<1>8. Len(Shape(parts)) = Len(parts)
  BY <1>1, <1>6, <1>7
<1>9. QED BY <1>1, <1>3, <1>5, <1>8

\* insert() goes down step by step, and then sets the handler.
Descends(walk, t, parts) ==
  walk = [n \in 0 .. Len(parts) |->
            IF n = 0 THEN [trie |-> t, at |-> <<>>]
            ELSE Descend(walk[n - 1].trie, walk[n - 1].at, parts[n])]

WithHandler(end, handler) == [end.trie EXCEPT ![end.at].handler = handler]

LEMMA InsertInSteps ==
  ASSUME NEW t, NEW parts, Len(parts) \in Nat, NEW handler
  PROVE  \E walk : /\ Descends(walk, t, parts)
                   /\ Insert(t, parts, handler) = WithHandler(walk[Len(parts)], handler)
<1> DEFINE start == [trie |-> t, at |-> <<>>]
           Goes(g, k) ==
             g = [n \in 0 .. k |->
                    IF n = 0 THEN start
                    ELSE Descend(g[n - 1].trie, g[n - 1].at, parts[n])]
           S == {k \in Nat : \E g : Goes(g, k)}
<1>1. 0 \in S
  <2> HIDE DEF start
  <2>1. Goes([n \in 0 .. 0 |-> start], 0)
    OBVIOUS
  <2>2. QED BY <2>1
<1>2. ASSUME NEW k \in Nat, k \in S PROVE k + 1 \in S
  <2> HIDE DEF start
  <2>1. PICK g : Goes(g, k)
    BY <1>2
  <2> DEFINE h == [n \in 0 .. k + 1 |->
                     IF n = k + 1 THEN Descend(g[k].trie, g[k].at, parts[n]) ELSE g[n]]
  <2>2. Goes(h, k + 1)
    <3> SUFFICES ASSUME NEW n \in 0 .. k + 1
                 PROVE  h[n] = IF n = 0 THEN start
                               ELSE Descend(h[n - 1].trie, h[n - 1].at, parts[n])
      OBVIOUS
    <3>1. CASE n = k + 1
      BY <3>1
    <3>2. CASE n # k + 1
      <4>1. n \in 0 .. k
        BY <3>2
      <4>2. g[n] = IF n = 0 THEN start ELSE Descend(g[n - 1].trie, g[n - 1].at, parts[n])
        BY <2>1, <4>1
      <4>3. n # 0 => n - 1 \in 0 .. k + 1 /\ n - 1 # k + 1
        BY <4>1
      <4>4. QED BY <3>2, <4>2, <4>3
    <3>3. QED BY <3>1, <3>2
  <2>3. QED
    <3> HIDE DEF h, Goes
    <3> QED BY <2>2
<1>3. Nat \subseteq S
  <2> HIDE DEF S
  <2> QED BY <1>1, <1>2, AllNumbers
<1>4. \E g : Goes(g, Len(parts))
  BY <1>3
<1>5. QED BY <1>4 DEF Insert, Descends, WithHandler

\* insert() adds the prefixes of the pattern to the trie, sets the handler at
\* the pattern, and names the parameters on the way there.
Grown(u, t, parts, handler) ==
  LET p == Shape(parts)
  IN /\ Connected(u)
     /\ DOMAIN u = DOMAIN t \cup {SubSeq(p, 1, j) : j \in 0 .. Len(parts)}
     /\ \A s \in DOMAIN u :
          /\ u[s].handler = IF s = p THEN handler
                            ELSE IF s \in DOMAIN t THEN t[s].handler ELSE NoHandler
          /\ u[s].name =
               IF /\ Len(s) < Len(parts) /\ s = SubSeq(p, 1, Len(s))
                  /\ parts[Len(s) + 1].kind = "parameter"
               THEN parts[Len(s) + 1].text
               ELSE IF s \in DOMAIN t THEN t[s].name ELSE NoName

LEMMA InsertBuilds ==
  ASSUME NEW t, Connected(t), NEW parts \in Seq(Parts), NEW handler \in Handlers
  PROVE  Grown(Insert(t, parts, handler), t, parts, handler)
<1> DEFINE p == Shape(parts)
           L == Len(parts)
           Passed(s, k) == /\ Len(s) < k /\ s = SubSeq(p, 1, Len(s))
                           /\ parts[Len(s) + 1].kind = "parameter"
           Handled(x, s) == x.handler = IF s \in DOMAIN t THEN t[s].handler ELSE NoHandler
           Called(x, s, k) == x.name = IF Passed(s, k) THEN parts[Len(s) + 1].text
                                       ELSE IF s \in DOMAIN t THEN t[s].name ELSE NoName
           Good(w, k) ==
             /\ w.at = SubSeq(p, 1, k)
             /\ Connected(w.trie)
             /\ DOMAIN w.trie = DOMAIN t \cup {SubSeq(p, 1, j) : j \in 0 .. k}
             /\ \A s \in DOMAIN w.trie : Handled(w.trie[s], s) /\ Called(w.trie[s], s, k)
<1>1. /\ p \in Seq(Steps) /\ Len(p) = L /\ L \in Nat
      /\ \A i \in 1 .. L : parts[i] \in Parts /\ p[i] = Step(parts[i])
  BY ShapeFacts
<1> DEFINE start == [trie |-> t, at |-> <<>>]
<1>2. PICK walk : /\ Descends(walk, t, parts)
                  /\ Insert(t, parts, handler) = WithHandler(walk[L], handler)
  BY <1>1, InsertInSteps
<1>3. walk = [n \in 0 .. L |->
                 IF n = 0 THEN start
                 ELSE Descend(walk[n - 1].trie, walk[n - 1].at, parts[n])]
  BY <1>2 DEF Descends
<1> HIDE DEF p, L, start
<1>4. /\ walk[0] = start
      /\ \A n \in 0 .. L : n # L =>
           walk[n + 1] = Descend(walk[n].trie, walk[n].at, parts[n + 1])
  <2>1. walk[0] = start
    <3>1. 0 \in 0 .. L
      BY <1>1
    <3>2. QED BY <1>3, <3>1
  <2>2. ASSUME NEW n \in 0 .. L, n # L
        PROVE  walk[n + 1] = Descend(walk[n].trie, walk[n].at, parts[n + 1])
    <3>1. n + 1 \in 0 .. L /\ n + 1 # 0 /\ (n + 1) - 1 = n
      BY <1>1, <2>2
    <3>2. QED BY <1>3, <3>1
  <2>3. QED BY <2>1, <2>2
<1>5. \A s \in DOMAIN t : s \in Seq(Steps) /\ Len(s) \in Nat
  BY DEF Connected
<1> DEFINE S == {n \in 0 .. L : Good(walk[n], n)}
<1>6. 0 \in S
  <2>1. walk[0].trie = t /\ walk[0].at = <<>>
    BY <1>4 DEF start
  <2>2. SubSeq(p, 1, 0) = <<>> /\ 0 .. 0 = {0} /\ 0 \in 0 .. L
    BY <1>1, SubSeqEmpty
  <2>3. {SubSeq(p, 1, j) : j \in 0 .. 0} = {<<>>}
    <3>1. \A j \in 0 .. 0 : SubSeq(p, 1, j) = <<>>
      BY <2>2
    <3>2. 0 \in 0 .. 0
      OBVIOUS
    <3>3. QED BY <3>1, <3>2, Zenon
  <2>4. \A s \in DOMAIN t : Handled(t[s], s) /\ Called(t[s], s, 0)
    BY <1>5
  <2>5. <<>> \in DOMAIN t
    BY DEF Connected
  <2>6. Good(walk[0], 0)
    <3> HIDE DEF Handled, Called
    <3> QED BY <2>1, <2>2, <2>3, <2>4, <2>5
  <2>7. QED BY <2>2, <2>6
<1>7. ASSUME NEW n \in 0 .. L, n # L, n \in S PROVE n + 1 \in S
  <2> DEFINE w == walk[n]
             y == walk[n + 1]
             part == parts[n + 1]
             child == SubSeq(p, 1, n + 1)
  <2>1. y = Descend(w.trie, w.at, part)
    BY <1>4, <1>7
  <2>2. n + 1 \in 0 .. L /\ n \in 0 .. L /\ n \in Nat /\ part \in Parts /\ p[n + 1] = Step(part)
    <3>1. n + 1 \in 1 .. L /\ n + 1 \in 0 .. L /\ n \in Nat
      BY <1>1, <1>7
    <3>2. QED BY <1>1, <3>1
  <2>3. Good(w, n)
    BY <1>7
  <2> HIDE DEF w, y, part
  <2>4. child = Append(w.at, Step(part)) /\ Len(w.at) = n /\ Len(child) = n + 1
    <3>1. SubSeq(p, 1, n + 1) = Append(SubSeq(p, 1, n), p[n + 1])
      BY <1>1, <1>7, PrefixNext
    <3>2. Len(SubSeq(p, 1, n)) = n /\ Len(SubSeq(p, 1, n + 1)) = n + 1
      BY <1>1, <2>2, PrefixFacts
    <3>3. QED BY <2>2, <2>3, <3>1, <3>2
  <2>5. w.at \in DOMAIN w.trie
    <3>1. SubSeq(p, 1, n) \in {SubSeq(p, 1, j) : j \in 0 .. n}
      BY <2>2
    <3>2. QED BY <2>3, <3>1
  <2>6. /\ y.at = child
        /\ Connected(y.trie)
        /\ DOMAIN y.trie = DOMAIN w.trie \cup {child}
        /\ \A s \in DOMAIN y.trie :
             /\ y.trie[s].handler =
                  IF s \in DOMAIN w.trie THEN w.trie[s].handler ELSE NoHandler
             /\ y.trie[s].name =
                  IF s = w.at /\ part.kind = "parameter" THEN part.text
                  ELSE IF s \in DOMAIN w.trie THEN w.trie[s].name ELSE NoName
    <3>1. Connected(w.trie) /\ w.at \in DOMAIN w.trie /\ part \in Parts
      BY <2>2, <2>3, <2>5
    <3> DEFINE e == w.trie
               a == w.at
    <3>2. y = Descend(e, a, part) /\ child = Append(a, Step(part))
      BY <2>1, <2>4
    <3>3. Connected(e) /\ a \in DOMAIN e
      BY <3>1
    <3> HIDE DEF e, a, child
    <3>4. /\ y.at = child
          /\ Connected(y.trie)
          /\ DOMAIN y.trie = DOMAIN e \cup {child}
          /\ \A s \in DOMAIN y.trie :
               /\ y.trie[s].handler = IF s \in DOMAIN e THEN e[s].handler ELSE NoHandler
               /\ y.trie[s].name = IF s = a /\ part.kind = "parameter" THEN part.text
                                   ELSE IF s \in DOMAIN e THEN e[s].name ELSE NoName
      BY <3>1, <3>2, <3>3, DescendBuilds
    <3>5. QED BY <3>4 DEF e, a
  <2>7. DOMAIN y.trie = DOMAIN t \cup {SubSeq(p, 1, j) : j \in 0 .. n + 1}
    <3>1. 0 .. n + 1 = (0 .. n) \cup {n + 1}
      BY <2>2
    <3>2. {SubSeq(p, 1, j) : j \in 0 .. n + 1} = {SubSeq(p, 1, j) : j \in 0 .. n} \cup {child}
      BY <3>1
    <3>3. QED BY <2>3, <2>6, <3>2
  <2>8. ASSUME NEW s \in DOMAIN y.trie
        PROVE  Handled(y.trie[s], s) /\ Called(y.trie[s], s, n + 1)
    <3>1. Len(s) \in Nat
      BY <2>6 DEF Connected
    <3>2. DOMAIN t \subseteq DOMAIN w.trie
      BY <2>3
    <3>3. CASE s \in DOMAIN w.trie
      <4>1. Handled(w.trie[s], s) /\ Called(w.trie[s], s, n)
        BY <2>3, <3>3
      <4>2. Handled(y.trie[s], s)
        BY <2>6, <3>3, <4>1
      <4>3. CASE s = w.at /\ part.kind = "parameter"
        <5>1. Len(s) = n /\ s = SubSeq(p, 1, Len(s)) /\ parts[Len(s) + 1] = part
          BY <2>3, <2>4, <4>3 DEF part
        <5>2. Passed(s, n + 1)
          BY <2>2, <4>3, <5>1
        <5>3. y.trie[s].name = part.text
          BY <2>6, <4>3
        <5>4. QED BY <4>2, <5>1, <5>2, <5>3
      <4>4. CASE ~(s = w.at /\ part.kind = "parameter")
        <5>1. Passed(s, n + 1) <=> Passed(s, n)
          <6>1. CASE Len(s) = n
            BY <2>2, <2>3, <4>4, <6>1 DEF part
          <6>2. CASE Len(s) # n
            BY <2>2, <3>1, <6>2
          <6>3. QED BY <6>1, <6>2
        <5>2. y.trie[s].name = w.trie[s].name
          BY <2>6, <3>3, <4>4
        <5> HIDE DEF Passed
        <5>3. QED BY <4>1, <4>2, <5>1, <5>2
      <4>5. QED BY <4>3, <4>4
    <3>4. CASE s \notin DOMAIN w.trie
      <4>1. s = child /\ s # w.at /\ s \notin DOMAIN t
        BY <2>5, <2>6, <3>2, <3>4
      <4>2. y.trie[s].handler = NoHandler /\ y.trie[s].name = NoName
        BY <2>6, <3>4, <4>1
      <4>3. Len(s) = n + 1
        BY <2>4, <4>1
      <4>4. ~Passed(s, n + 1)
        BY <2>2, <4>3
      <4> HIDE DEF Passed
      <4>5. QED BY <4>1, <4>2, <4>4
    <3>5. QED BY <3>3, <3>4
  <2>9. Good(y, n + 1)
    <3> HIDE DEF Handled, Called
    <3> QED BY <2>6, <2>7, <2>8
  <2>10. QED
    <3> HIDE DEF Good
    <3> QED BY <2>2, <2>9 DEF y
<1>8. Good(walk[L], L)
  <2>1. 0 .. L \subseteq S
    <3> HIDE DEF S
    <3> QED BY <1>1, <1>6, <1>7, UpTo
  <2>2. L \in 0 .. L
    BY <1>1
  <2> HIDE DEF Good
  <2>3. QED BY <2>1, <2>2
<1> DEFINE e == walk[L].trie
           u == Insert(t, parts, handler)
<1>9. walk[L].at = p
  <2>1. SubSeq(p, 1, L) = p
    BY <1>1, SubSeqFull
  <2>2. QED BY <1>8, <2>1
<1>10. /\ Connected(e) /\ p \in DOMAIN e
      /\ DOMAIN e = DOMAIN t \cup {SubSeq(p, 1, j) : j \in 0 .. L}
      /\ \A s \in DOMAIN e : Handled(e[s], s) /\ Called(e[s], s, L)
  <2>1. SubSeq(p, 1, L) \in {SubSeq(p, 1, j) : j \in 0 .. L}
    BY <1>1
  <2> HIDE DEF Handled, Called
  <2>2. QED BY <1>8, <1>9, <2>1
<1>11. u = [e EXCEPT ![p].handler = handler]
  BY <1>2, <1>9 DEF WithHandler
<1> HIDE DEF e, u
<1>12. /\ DOMAIN u = DOMAIN e
       /\ u[p] = [e[p] EXCEPT !.handler = handler]
       /\ \A s \in DOMAIN e : s # p => u[s] = e[s]
  BY <1>10, <1>11
<1>13. /\ u[p] \in Nodes /\ Compact(u[p])
       /\ u[p].handler = handler /\ u[p].name = e[p].name
       /\ \A x \in Segments : FindChild(u[p], x) <=> FindChild(e[p], x)
  <2>1. PICK l \in Seq(Segments), b \in SUBSET Segments,
             n \in Names \cup {NoName}, h \in Handlers \cup {NoHandler} :
          e[p] = [linear |-> l, map |-> b, name |-> n, handler |-> h]
    BY <1>10 DEF Connected, Nodes
  <2>2. u[p] = [linear |-> l, map |-> b, name |-> n, handler |-> handler]
    BY <1>12, <2>1
  <2>3. u[p] \in Nodes
    BY <2>2 DEF Nodes
  <2>4. Compact(u[p])
    BY <1>10, <2>1, <2>2 DEF Connected, Compact
  <2>5. \A x \in Segments : FindChild(u[p], x) <=> FindChild(e[p], x)
    BY <2>1, <2>2 DEF FindChild
  <2>6. QED BY <2>1, <2>2, <2>3, <2>4, <2>5
<1>14. Connected(u)
  <2>1. \A s \in DOMAIN u : s \in Seq(Steps) /\ u[s] \in Nodes /\ Compact(u[s])
    BY <1>10, <1>12, <1>13 DEF Connected
  <2>2. \A s \in DOMAIN u : \A x \in Segments : FindChild(u[s], x) <=> Append(s, x) \in DOMAIN u
    BY <1>10, <1>12, <1>13 DEF Connected
  <2>3. QED BY <1>10, <1>12, <2>1, <2>2 DEF Connected
<1>15. ASSUME NEW s \in DOMAIN u
       PROVE  /\ u[s].handler = IF s = p THEN handler
                                ELSE IF s \in DOMAIN t THEN t[s].handler ELSE NoHandler
              /\ Called(u[s], s, L)
  <2>1. Handled(e[s], s) /\ Called(e[s], s, L)
    BY <1>10, <1>12
  <2>2. u[s].name = e[s].name
    BY <1>12, <1>13
  <2>3. s # p => u[s].handler = e[s].handler
    BY <1>12
  <2>4. QED BY <1>13, <2>1, <2>2, <2>3
<1>16. DOMAIN u = DOMAIN t \cup {SubSeq(p, 1, j) : j \in 0 .. L}
  BY <1>10, <1>12
<1>17. QED BY <1>14, <1>15, <1>16 DEF Grown, u, p, L

-----------------------------------------------------------------------------
(* The search.                                                             *)

\* The first k segments lead to s: to the literal child wherever there is one.
Leads(t, s, segments, k) ==
  /\ s \in Seq(Steps) /\ Len(s) = k
  /\ \A i \in 1 .. k :
       s[i] = IF Append(SubSeq(s, 1, i - 1), segments[i]) \in DOMAIN t THEN segments[i] ELSE Wild

\* The parameters bound on the way: of two of one name, the last.
Wilds(s, k)      == {i \in 1 .. k : s[i] = Wild}
NameAt(t, s, i)  == t[SubSeq(s, 1, i - 1)].name
Binding(t, s, segments, k) ==
  [n \in {NameAt(t, s, i) : i \in Wilds(s, k)} |->
     segments[Table!LastOf({i \in Wilds(s, k) : NameAt(t, s, i) = n})]]

LEMMA LastOfIs ==
  ASSUME NEW S, S \subseteq Int, NEW i \in S, \A j \in S : j <= i
  PROVE  Table!LastOf(S) = i
<1> DEFINE Greatest(x) == \A j \in S : j <= x
<1>1. \A x \in S : Greatest(x) => x = i
  OBVIOUS
<1>2. Table!LastOf(S) = CHOOSE x \in S : Greatest(x)
  BY DEF Table!LastOf
<1>3. \E x \in S : Greatest(x)
  OBVIOUS
<1> HIDE DEF Greatest
<1>4. QED BY <1>1, <1>2, <1>3

\* One more segment binds one more parameter, or none.
LEMMA BindingNext ==
  ASSUME NEW t, NEW s, NEW segments, NEW k \in Nat
  PROVE  /\ Binding(t, s, segments, 0) = <<>>
         /\ Binding(t, s, segments, k + 1) =
              IF s[k + 1] = Wild
              THEN Put(Binding(t, s, segments, k), NameAt(t, s, k + 1), segments[k + 1])
              ELSE Binding(t, s, segments, k)
<1> DEFINE W == Wilds(s, k)
           V == Wilds(s, k + 1)
           name == NameAt(t, s, k + 1)
           b == Binding(t, s, segments, k)
           c == Binding(t, s, segments, k + 1)
<1>1. Binding(t, s, segments, 0) = <<>>
  <2>1. Wilds(s, 0) = {}
    BY DEF Wilds
  <2>2. {NameAt(t, s, i) : i \in Wilds(s, 0)} = {}
    BY <2>1
  <2>3. QED BY <2>2 DEF Binding
<1>2. CASE s[k + 1] # Wild
  <2>1. V = W
    BY <1>2 DEF Wilds
  <2>2. QED BY <1>1, <1>2, <2>1 DEF Binding
<1>3. CASE s[k + 1] = Wild
  <2>1. V = W \cup {k + 1} /\ W \subseteq 1 .. k /\ k + 1 \notin W
    BY <1>3 DEF Wilds
  <2> HIDE DEF W, V
  <2>2. b = [n \in {NameAt(t, s, i) : i \in W} |->
               segments[Table!LastOf({i \in W : NameAt(t, s, i) = n})]]
    BY DEF Binding, W
  <2>3. c = [n \in {NameAt(t, s, i) : i \in V} |->
               segments[Table!LastOf({i \in V : NameAt(t, s, i) = n})]]
    BY DEF Binding, V
  <2>4. {NameAt(t, s, i) : i \in V} = {NameAt(t, s, i) : i \in W} \cup {name}
    BY <2>1
  <2>5. Table!LastOf({i \in V : NameAt(t, s, i) = name}) = k + 1
    <3>1. V \subseteq Int /\ k + 1 \in V /\ \A j \in V : j <= k + 1
      BY <2>1
    <3> DEFINE S == {i \in V : NameAt(t, s, i) = name}
    <3>2. S \subseteq V /\ k + 1 \in S
      BY <3>1
    <3> HIDE DEF S
    <3>3. S \subseteq Int /\ \A j \in S : j <= k + 1
      BY <3>1, <3>2
    <3>4. Table!LastOf(S) = k + 1
      BY <3>2, <3>3, LastOfIs
    <3>5. QED BY <3>4 DEF S
  <2>6. ASSUME NEW n, n # name
        PROVE  {i \in V : NameAt(t, s, i) = n} = {i \in W : NameAt(t, s, i) = n}
    BY <2>1, <2>6
  <2> HIDE DEF b, c, name
  <2> DEFINE D == {NameAt(t, s, i) : i \in W}
             F(n) == segments[Table!LastOf({i \in W : NameAt(t, s, i) = n})]
             G(n) == segments[Table!LastOf({i \in V : NameAt(t, s, i) = n})]
  <2>7. G(name) = segments[k + 1] /\ \A n : n # name => G(n) = F(n)
    BY <2>5, <2>6
  <2>8. b = [n \in D |-> F(n)] /\ c = [n \in D \cup {name} |-> G(n)]
    BY <2>2, <2>3, <2>4
  <2> HIDE DEF D, F, G
  <2>9. c = Put(b, name, segments[k + 1])
    BY <2>7, <2>8 DEF Put
  <2>10. QED BY <1>1, <1>3, <2>9 DEF b, c, name
<1>4. QED BY <1>2, <1>3

\* search() follows the segments one by one.
Root == [ok |-> TRUE, at |-> <<>>, params |-> <<>>]

Walks(walk, t, segments) ==
  /\ walk[0] = Root
  /\ \A n \in 0 .. Len(segments) : n # Len(segments) =>
       walk[n + 1] = Follow(t, walk[n], segments[n + 1])

Found(t, end) ==
  IF end.ok /\ t[end.at].handler # NoHandler
  THEN [handler |-> t[end.at].handler, params |-> end.params]
  ELSE NotFound

LEMMA SearchInSteps ==
  ASSUME NEW t, NEW segments, Len(segments) \in Nat
  PROVE  \E walk : Walks(walk, t, segments) /\ Search(t, segments) = Found(t, walk[Len(segments)])
<1> DEFINE Goes(g, k) ==
             g = [n \in 0 .. k |-> IF n = 0 THEN Root ELSE Follow(t, g[n - 1], segments[n])]
           S == {k \in Nat : \E g : Goes(g, k)}
<1>1. 0 \in S
  <2>1. Goes([n \in 0 .. 0 |-> Root], 0)
    OBVIOUS
  <2>2. QED BY <2>1
<1>2. ASSUME NEW k \in Nat, k \in S PROVE k + 1 \in S
  <2>1. PICK g : Goes(g, k)
    BY <1>2
  <2> DEFINE h == [n \in 0 .. k + 1 |->
                     IF n = k + 1 THEN Follow(t, g[k], segments[n]) ELSE g[n]]
  <2>2. Goes(h, k + 1)
    <3> SUFFICES ASSUME NEW n \in 0 .. k + 1
                 PROVE  h[n] = IF n = 0 THEN Root ELSE Follow(t, h[n - 1], segments[n])
      OBVIOUS
    <3>1. CASE n = k + 1
      BY <3>1
    <3>2. CASE n # k + 1
      <4>1. n \in 0 .. k
        BY <3>2
      <4>2. g[n] = IF n = 0 THEN Root ELSE Follow(t, g[n - 1], segments[n])
        BY <2>1, <4>1
      <4>3. n # 0 => n - 1 \in 0 .. k + 1 /\ n - 1 # k + 1
        BY <4>1
      <4>4. QED BY <3>2, <4>2, <4>3
    <3>3. QED BY <3>1, <3>2
  <2>3. QED
    <3> HIDE DEF h, Goes
    <3> QED BY <2>2
<1>3. Nat \subseteq S
  <2> HIDE DEF S
  <2> QED BY <1>1, <1>2, AllNumbers
<1> DEFINE L == Len(segments)
<1>4. \E g : Goes(g, L)
  BY <1>3
<1>5. \E walk : Goes(walk, L) /\ Search(t, segments) = Found(t, walk[L])
  BY <1>4 DEF Search, Found, Root
<1>6. PICK walk : Goes(walk, L) /\ Search(t, segments) = Found(t, walk[L])
  BY <1>5
<1> HIDE DEF L
<1>7. walk[0] = Root
  <2>1. 0 \in 0 .. L
    BY DEF L
  <2>2. QED BY <1>6, <2>1
<1>8. ASSUME NEW n \in 0 .. L, n # L
      PROVE  walk[n + 1] = Follow(t, walk[n], segments[n + 1])
  <2>1. n + 1 \in 0 .. L /\ n + 1 # 0 /\ (n + 1) - 1 = n
    BY <1>8 DEF L
  <2>2. QED BY <1>6, <2>1
<1>9. Walks(walk, t, segments)
  BY <1>7, <1>8 DEF Walks, L
<1>10. QED BY <1>6, <1>9 DEF L

\* Whatever leads to a node of the trie goes through nodes of the trie.
LEMMA PrefixesInTrie ==
  ASSUME NEW t, Connected(t), NEW s \in DOMAIN t, NEW k \in 0 .. Len(s)
  PROVE  s \in Seq(Steps) /\ SubSeq(s, 1, k) \in DOMAIN t
<1>1. s \in Seq(Steps) /\ Len(s) \in Nat
  BY DEF Connected
<1> DEFINE L == Len(s)
           S == {j \in 0 .. L : SubSeq(s, 1, L - j) \in DOMAIN t}
<1>2. 0 \in S
  <2>1. L - 0 = L /\ 0 \in 0 .. L
    BY <1>1
  <2>2. SubSeq(s, 1, L) = s
    BY <1>1, SubSeqFull
  <2>3. QED BY <2>1, <2>2
<1>3. ASSUME NEW j \in 0 .. L, j # L, j \in S PROVE j + 1 \in S
  <2> DEFINE n == L - (j + 1)
  <2>1. n \in 0 .. L /\ n # L /\ n + 1 = L - j /\ j + 1 \in 0 .. L
    BY <1>1, <1>3
  <2> HIDE DEF n
  <2>2. SubSeq(s, 1, n + 1) = Append(SubSeq(s, 1, n), s[n + 1]) /\ s[n + 1] \in Steps
    BY <1>1, <2>1, PrefixNext
  <2>3. SubSeq(s, 1, n + 1) \in DOMAIN t
    BY <1>3, <2>1
  <2>4. SubSeq(s, 1, n) \in Seq(Steps)
    BY <1>1, <2>1, PrefixFacts
  <2>5. SubSeq(s, 1, n + 1) # <<>> /\ Front(SubSeq(s, 1, n + 1)) = SubSeq(s, 1, n)
    <3> DEFINE q == SubSeq(s, 1, n)
               x == s[n + 1]
    <3>1. q \in Seq(Steps) /\ x \in Steps /\ SubSeq(s, 1, n + 1) = Append(q, x)
      BY <2>2, <2>4
    <3> HIDE DEF q, x
    <3>2. Append(q, x) # <<>> /\ Front(Append(q, x)) = q
      BY <3>1, FrontAndLast
    <3>3. QED BY <3>1, <3>2 DEF q
  <2>6. SubSeq(s, 1, n) \in DOMAIN t
    BY <2>3, <2>5 DEF Connected
  <2>7. QED BY <2>1, <2>6 DEF n
<1>4. 0 .. L \subseteq S
  <2>1. L \in Nat
    BY <1>1
  <2> HIDE DEF L, S
  <2>2. QED BY <1>2, <1>3, <2>1, UpTo
<1>5. L - k \in S /\ L - (L - k) = k
  <2>1. L - k \in 0 .. L /\ L - (L - k) = k
    BY <1>1
  <2> HIDE DEF S
  <2>2. QED BY <1>4, <2>1
<1>6. QED BY <1>1, <1>5

LEMMA FollowWildSets ==
  ASSUME NEW t, NEW ok, NEW at, NEW params, NEW x
  PROVE  FollowWild(t, [ok |-> ok, at |-> at, params |-> params], x) =
           [ok |-> ok, at |-> Append(at, Wild), params |-> Put(params, t[at].name, x)]
<1> DEFINE acc == [ok |-> ok, at |-> at, params |-> params]
           a == Append(at, Wild)
           q == Put(params, t[at].name, x)
           y == [acc EXCEPT !.at = a]
<1>1. FollowWild(t, acc, x) = [y EXCEPT !.params = q]
  BY DEF FollowWild
<1> HIDE DEF a, q
<1>2. y = [ok |-> ok, at |-> a, params |-> params]
  OBVIOUS
<1> HIDE DEF acc, y
<1>3. FollowWild(t, acc, x) = [ok |-> ok, at |-> a, params |-> q]
  BY <1>1, <1>2
<1>4. QED BY <1>3 DEF acc, a, q

\* A node the segments lead to is the one the search comes to, with the
\* parameters bound on the way there.
LEMMA SearchFinds ==
  ASSUME NEW t, Connected(t), NEW segments \in Seq(Segments),
         NEW s \in DOMAIN t, Leads(t, s, segments, Len(segments)),
         t[s].handler # NoHandler
  PROVE  Search(t, segments) = [handler |-> t[s].handler,
                                params |-> Binding(t, s, segments, Len(segments))]
<1> DEFINE L == Len(segments)
           Good(acc, k) ==
             acc = [ok |-> TRUE, at |-> SubSeq(s, 1, k), params |-> Binding(t, s, segments, k)]
<1>1. /\ L \in Nat /\ s \in Seq(Steps) /\ Len(s) = L
      /\ \A i \in 1 .. L :
           /\ segments[i] \in Segments
           /\ s[i] = IF Append(SubSeq(s, 1, i - 1), segments[i]) \in DOMAIN t
                     THEN segments[i] ELSE Wild
  BY DEF Leads
<1>2. PICK walk : Walks(walk, t, segments) /\ Search(t, segments) = Found(t, walk[L])
  BY <1>1, SearchInSteps
<1>3. /\ walk[0] = Root
      /\ \A n \in 0 .. L : n # L => walk[n + 1] = Follow(t, walk[n], segments[n + 1])
  BY <1>2 DEF Walks
<1> HIDE DEF L
<1> DEFINE S == {n \in 0 .. L : Good(walk[n], n)}
<1>4. 0 \in S
  <2>1. Binding(t, s, segments, 0) = <<>>
    BY BindingNext, 0 \in Nat
  <2>2. SubSeq(s, 1, 0) = <<>> /\ 0 \in 0 .. L
    BY <1>1, SubSeqEmpty
  <2>3. QED BY <1>3, <2>1, <2>2 DEF Root
<1>5. ASSUME NEW n \in 0 .. L, n # L, n \in S PROVE n + 1 \in S
  <2> DEFINE acc == walk[n]
             at == SubSeq(s, 1, n)
             x == segments[n + 1]
             b == Binding(t, s, segments, n)
  <2>1. acc = [ok |-> TRUE, at |-> at, params |-> b]
    BY <1>5
  <2>2. n \in Nat /\ n + 1 \in 0 .. L /\ n + 1 \in 1 .. L /\ (n + 1) - 1 = n
    BY <1>1, <1>5
  <2>3. walk[n + 1] = Follow(t, acc, x)
    BY <1>3, <1>5
  <2>4. SubSeq(s, 1, n + 1) = Append(at, s[n + 1])
    BY <1>1, <1>5, PrefixNext
  <2>5. s[n + 1] = IF Append(at, x) \in DOMAIN t THEN x ELSE Wild
    BY <1>1, <2>2
  <2>6. at \in DOMAIN t /\ SubSeq(s, 1, n + 1) \in DOMAIN t
    BY <1>1, <2>2, PrefixesInTrie
  <2>7. x \in Segments /\ x # Wild /\ (FindChild(t[at], x) <=> Append(at, x) \in DOMAIN t)
    <3>1. x \in Segments
      BY <1>1, <2>2
    <3>2. QED BY <2>6, <3>1, NameAssumption DEF Connected
  <2>8. Binding(t, s, segments, n + 1) =
          IF s[n + 1] = Wild THEN Put(b, t[at].name, x) ELSE b
    <3>1. NameAt(t, s, n + 1) = t[at].name
      BY <2>2 DEF NameAt
    <3>2. Binding(t, s, segments, n + 1) =
            IF s[n + 1] = Wild
            THEN Put(Binding(t, s, segments, n), NameAt(t, s, n + 1), segments[n + 1])
            ELSE Binding(t, s, segments, n)
      <4>1. n \in Nat
        BY <2>2
      <4>2. QED BY <4>1, BindingNext
    <3>3. QED BY <3>1, <3>2
  <2> HIDE DEF acc, at, x, b
  <2>9. Good(walk[n + 1], n + 1)
    <3>1. CASE FindChild(t[at], x)
      <4>1. Follow(t, acc, x) = [acc EXCEPT !.at = Append(acc.at, x)]
        BY <2>1, <3>1 DEF Follow
      <4>2. Follow(t, acc, x) = [ok |-> TRUE, at |-> Append(at, x), params |-> b]
        BY <2>1, <4>1
      <4>3. s[n + 1] = x /\ s[n + 1] # Wild
        BY <2>5, <2>7, <3>1
      <4>4. QED BY <2>3, <2>4, <2>8, <4>2, <4>3
    <3>2. CASE ~FindChild(t[at], x)
      <4>1. s[n + 1] = Wild
        BY <2>5, <2>7, <3>2
      <4>2. Append(at, Wild) \in DOMAIN t
        BY <2>4, <2>6, <4>1
      <4>3. Follow(t, acc, x) = FollowWild(t, acc, x)
        BY <2>1, <3>2, <4>2 DEF Follow
      <4>4. FollowWild(t, acc, x) =
              [ok |-> TRUE, at |-> Append(at, Wild), params |-> Put(b, t[at].name, x)]
        <5> DEFINE yes == TRUE
        <5>1. acc = [ok |-> yes, at |-> at, params |-> b]
          BY <2>1
        <5> HIDE DEF yes
        <5>2. FollowWild(t, acc, x) =
                [ok |-> yes, at |-> Append(at, Wild), params |-> Put(b, t[at].name, x)]
          BY <5>1, FollowWildSets
        <5>3. QED BY <5>2 DEF yes
      <4>5. QED BY <2>3, <2>4, <2>8, <4>1, <4>3, <4>4
    <3>3. QED BY <3>1, <3>2
  <2>10. QED
    <3> HIDE DEF Good
    <3> QED BY <2>2, <2>9
<1>6. Good(walk[L], L)
  <2>1. 0 .. L \subseteq S
    <3> HIDE DEF S
    <3> QED BY <1>1, <1>4, <1>5, UpTo
  <2>2. L \in 0 .. L
    BY <1>1
  <2> HIDE DEF Good
  <2>3. QED BY <2>1, <2>2
<1>7. SubSeq(s, 1, L) = s
  BY <1>1, SubSeqFull
<1>8. walk[L] = [ok |-> TRUE, at |-> s, params |-> Binding(t, s, segments, L)]
  BY <1>6, <1>7
<1>9. QED BY <1>2, <1>8 DEF Found, L

LEMMA LeadsOn ==
  ASSUME NEW t, NEW segments, NEW s, NEW k \in Nat, Leads(t, s, segments, k),
         segments[k + 1] \in Segments, NEW x,
         x = IF Append(s, segments[k + 1]) \in DOMAIN t THEN segments[k + 1] ELSE Wild
  PROVE  Leads(t, Append(s, x), segments, k + 1)
<1>1. x \in Steps /\ s \in Seq(Steps) /\ Len(s) = k
  BY DEF Leads, Steps
<1> DEFINE u == Append(s, x)
<1>2. /\ u \in Seq(Steps) /\ Len(u) = k + 1 /\ u[k + 1] = x
      /\ \A i \in 1 .. k : u[i] = s[i]
  BY <1>1, AppendProperties
<1>3. \A j \in 0 .. k : SubSeq(u, 1, j) = SubSeq(s, 1, j)
  BY <1>1, PrefixOfAppend
<1>4. SubSeq(s, 1, k) = s
  BY <1>1, SubSeqFull
<1> HIDE DEF u
<1>5. ASSUME NEW i \in 1 .. k + 1
      PROVE  u[i] = IF Append(SubSeq(u, 1, i - 1), segments[i]) \in DOMAIN t
                    THEN segments[i] ELSE Wild
  <2>1. CASE i = k + 1
    <3>1. i - 1 = k /\ k \in 0 .. k
      BY <2>1
    <3>2. SubSeq(u, 1, i - 1) = s
      BY <1>3, <1>4, <3>1
    <3>3. QED BY <1>2, <2>1, <3>2
  <2>2. CASE i # k + 1
    <3>1. i \in 1 .. k /\ i - 1 \in 0 .. k
      BY <2>2
    <3>2. s[i] = IF Append(SubSeq(s, 1, i - 1), segments[i]) \in DOMAIN t
                 THEN segments[i] ELSE Wild
      BY <3>1 DEF Leads
    <3>3. QED BY <1>2, <1>3, <3>1, <3>2
  <2>3. QED BY <2>1, <2>2
<1>6. Leads(t, u, segments, k + 1)
  BY <1>2, <1>5 DEF Leads
<1>7. QED BY <1>6 DEF u

\* The cases of one step of search().
Stepped(t, y, ok, at, params, x) ==
  \/ ~ok /\ y = [ok |-> ok, at |-> at, params |-> params]
  \/ /\ ok /\ FindChild(t[at], x)
     /\ y = [ok |-> ok, at |-> Append(at, x), params |-> params]
  \/ /\ ok /\ ~FindChild(t[at], x) /\ Append(at, Wild) \in DOMAIN t
     /\ y = [ok |-> ok, at |-> Append(at, Wild), params |-> Put(params, t[at].name, x)]
  \/ y = [ok |-> FALSE, at |-> at, params |-> params]

LEMMA FollowCases ==
  ASSUME NEW t, NEW ok, NEW at, NEW params, NEW x, NEW acc,
         acc = [ok |-> ok, at |-> at, params |-> params]
  PROVE  Stepped(t, Follow(t, acc, x), ok, at, params, x)
<1>1. acc.ok = ok /\ acc.at = at
  OBVIOUS
<1>2. \A z : [acc EXCEPT !.at = z] = [ok |-> ok, at |-> z, params |-> params]
  OBVIOUS
<1>3. \A z : [acc EXCEPT !.ok = z] = [ok |-> z, at |-> at, params |-> params]
  OBVIOUS
<1>4. FollowWild(t, acc, x) = [ok |-> ok, at |-> Append(at, Wild),
                               params |-> Put(params, t[at].name, x)]
  BY FollowWildSets
<1>5. [acc EXCEPT !.ok = FALSE] = [ok |-> FALSE, at |-> at, params |-> params]
  <2> DEFINE no == FALSE
  <2> HIDE DEF no
  <2>1. [acc EXCEPT !.ok = no] = [ok |-> no, at |-> at, params |-> params]
    BY <1>3
  <2>2. QED BY <2>1 DEF no
<1>6. [acc EXCEPT !.at = Append(acc.at, x)] = [ok |-> ok, at |-> Append(at, x), params |-> params]
  BY <1>1, <1>2
<1> DEFINE y == [acc EXCEPT !.ok = FALSE]
           z == [acc EXCEPT !.at = Append(acc.at, x)]
<1>7. Follow(t, acc, x) =
        IF ~acc.ok THEN acc
        ELSE IF FindChild(t[acc.at], x) THEN z
        ELSE IF Append(acc.at, Wild) \in DOMAIN t THEN FollowWild(t, acc, x)
        ELSE y
  BY DEF Follow
<1> HIDE DEF y, z
<1>8. \/ ~ok /\ Follow(t, acc, x) = acc
      \/ ok /\ FindChild(t[at], x) /\ Follow(t, acc, x) = z
      \/ /\ ok /\ ~FindChild(t[at], x) /\ Append(at, Wild) \in DOMAIN t
         /\ Follow(t, acc, x) = FollowWild(t, acc, x)
      \/ Follow(t, acc, x) = y
  BY <1>1, <1>7
<1>9. QED BY <1>4, <1>5, <1>6, <1>8 DEF Stepped, y, z

\* The search finds nothing unless the segments lead to a node with a handler.
LEMMA SearchFails ==
  ASSUME NEW t, Connected(t), NEW segments \in Seq(Segments),
         \A s \in DOMAIN t :
           Leads(t, s, segments, Len(segments)) => t[s].handler = NoHandler
  PROVE  Search(t, segments) = NotFound
<1> DEFINE L == Len(segments)
           Is(acc, ok, at, params) == acc = [ok |-> ok, at |-> at, params |-> params]
           There(ok, at, k) == ok => at \in DOMAIN t /\ Leads(t, at, segments, k)
           Good(acc, k) == \E ok, at, params : Is(acc, ok, at, params) /\ There(ok, at, k)
<1>1. L \in Nat /\ \A i \in 1 .. L : segments[i] \in Segments
  OBVIOUS
<1>2. PICK walk : Walks(walk, t, segments) /\ Search(t, segments) = Found(t, walk[L])
  BY <1>1, SearchInSteps
<1>3. /\ walk[0] = Root
      /\ \A n \in 0 .. L : n # L => walk[n + 1] = Follow(t, walk[n], segments[n + 1])
  BY <1>2 DEF Walks
<1> HIDE DEF L
<1> DEFINE S == {n \in 0 .. L : Good(walk[n], n)}
<1>4. 0 \in S
  <2>1. <<>> \in DOMAIN t /\ Leads(t, <<>>, segments, 0)
    BY DEF Connected, Leads
  <2> DEFINE yes == TRUE
             none == <<>>
  <2>2. Is(walk[0], yes, none, none)
    BY <1>3 DEF Root
  <2>3. There(yes, none, 0)
    BY <2>1
  <2>4. 0 \in 0 .. L
    BY <1>1
  <2> HIDE DEF Is, There, yes, none
  <2>5. Good(walk[0], 0)
    BY <2>2, <2>3
  <2>6. QED BY <2>4, <2>5
<1>5. ASSUME NEW n \in 0 .. L, n # L, n \in S PROVE n + 1 \in S
  <2> DEFINE x == segments[n + 1]
             y == walk[n + 1]
  <2>1. n \in Nat /\ n + 1 \in 0 .. L /\ n + 1 \in 1 .. L /\ x \in Segments
    BY <1>1, <1>5
  <2>2. y = Follow(t, walk[n], x)
    BY <1>3, <1>5
  <2>3. Good(walk[n], n)
    BY <1>5
  <2>4. PICK ok, at, params : Is(walk[n], ok, at, params) /\ There(ok, at, n)
    BY <2>3
  <2> HIDE DEF x, y
  <2>5. \/ ~ok /\ Is(y, ok, at, params)
        \/ ok /\ FindChild(t[at], x) /\ Is(y, ok, Append(at, x), params)
        \/ /\ ok /\ ~FindChild(t[at], x) /\ Append(at, Wild) \in DOMAIN t
           /\ Is(y, ok, Append(at, Wild), Put(params, t[at].name, x))
        \/ Is(y, FALSE, at, params)
    <3>1. Stepped(t, y, ok, at, params, x)
      BY <2>2, <2>4, FollowCases
    <3>2. QED BY <3>1 DEF Stepped
  <2>6. ASSUME ok
        PROVE  /\ FindChild(t[at], x) <=> Append(at, x) \in DOMAIN t
               /\ FindChild(t[at], x) => Leads(t, Append(at, x), segments, n + 1)
               /\ ~FindChild(t[at], x) => Leads(t, Append(at, Wild), segments, n + 1)
    <3>1. at \in DOMAIN t /\ Leads(t, at, segments, n)
      BY <2>4, <2>6
    <3>2. FindChild(t[at], x) <=> Append(at, x) \in DOMAIN t
      BY <2>1, <3>1 DEF Connected
    <3>3. CASE Append(at, x) \in DOMAIN t
      <4>1. Leads(t, Append(at, x), segments, n + 1)
        BY <2>1, <3>1, <3>3, LeadsOn DEF x
      <4>2. QED BY <3>2, <3>3, <4>1
    <3>4. CASE Append(at, x) \notin DOMAIN t
      <4>1. Leads(t, Append(at, Wild), segments, n + 1)
        BY <2>1, <3>1, <3>4, LeadsOn DEF x
      <4>2. QED BY <3>2, <3>4, <4>1
    <3>5. QED BY <3>3, <3>4
  <2>7. Good(y, n + 1)
    <3>1. CASE ~ok /\ Is(y, ok, at, params)
      <4>1. There(ok, at, n + 1)
        BY <3>1
      <4> HIDE DEF Is, There
      <4>2. QED BY <3>1, <4>1
    <3>2. CASE ok /\ FindChild(t[at], x) /\ Is(y, ok, Append(at, x), params)
      <4>1. There(ok, Append(at, x), n + 1)
        BY <2>6, <3>2
      <4> HIDE DEF Is, There
      <4>2. QED BY <3>2, <4>1
    <3>3. CASE /\ ok /\ ~FindChild(t[at], x) /\ Append(at, Wild) \in DOMAIN t
               /\ Is(y, ok, Append(at, Wild), Put(params, t[at].name, x))
      <4>1. There(ok, Append(at, Wild), n + 1)
        BY <2>6, <3>3
      <4> HIDE DEF Is, There
      <4>2. QED BY <3>3, <4>1
    <3>4. CASE Is(y, FALSE, at, params)
      <4> DEFINE no == FALSE
      <4>1. There(no, at, n + 1) /\ Is(y, no, at, params)
        BY <3>4
      <4> HIDE DEF Is, There, no
      <4>2. QED BY <4>1
    <3>5. QED BY <2>5, <3>1, <3>2, <3>3, <3>4
  <2>8. QED
    <3> HIDE DEF Good
    <3> QED BY <2>1, <2>7 DEF y
<1>6. Good(walk[L], L)
  <2>1. 0 .. L \subseteq S
    <3> HIDE DEF S
    <3> QED BY <1>1, <1>4, <1>5, UpTo
  <2>2. L \in 0 .. L
    BY <1>1
  <2> HIDE DEF Good
  <2>3. QED BY <2>1, <2>2
<1>7. PICK ok, at, params : Is(walk[L], ok, at, params) /\ There(ok, at, L)
  BY <1>6
<1>8. walk[L].ok = ok /\ walk[L].at = at
  BY <1>7
<1>9. ok => t[at].handler = NoHandler
  BY <1>7 DEF L
<1>10. QED BY <1>2, <1>8, <1>9 DEF Found

\* Segments lead to one place at most.
LEMMA LeadsOne ==
  ASSUME NEW t, NEW segments, NEW L \in Nat, NEW s, Leads(t, s, segments, L),
         NEW r, Leads(t, r, segments, L)
  PROVE  s = r
<1>1. /\ s \in Seq(Steps) /\ Len(s) = L /\ r \in Seq(Steps) /\ Len(r) = L
      /\ \A i \in 1 .. L :
           /\ s[i] = IF Append(SubSeq(s, 1, i - 1), segments[i]) \in DOMAIN t
                     THEN segments[i] ELSE Wild
           /\ r[i] = IF Append(SubSeq(r, 1, i - 1), segments[i]) \in DOMAIN t
                     THEN segments[i] ELSE Wild
  BY DEF Leads
<1> DEFINE S == {k \in 0 .. L : SubSeq(s, 1, k) = SubSeq(r, 1, k)}
<1>2. 0 \in S
  BY SubSeqEmpty
<1>3. ASSUME NEW k \in 0 .. L, k # L, k \in S PROVE k + 1 \in S
  <2>1. k + 1 \in 1 .. L /\ (k + 1) - 1 = k /\ k + 1 \in 0 .. L
    BY <1>3
  <2>2. s[k + 1] = r[k + 1]
    <3> DEFINE G(q) == IF Append(q, segments[k + 1]) \in DOMAIN t THEN segments[k + 1] ELSE Wild
    <3>1. s[k + 1] = G(SubSeq(s, 1, k)) /\ r[k + 1] = G(SubSeq(r, 1, k))
      BY <1>1, <2>1
    <3>2. SubSeq(s, 1, k) = SubSeq(r, 1, k)
      BY <1>3
    <3> HIDE DEF G
    <3>3. QED BY <3>1, <3>2
  <2>3. /\ SubSeq(s, 1, k + 1) = Append(SubSeq(s, 1, k), s[k + 1])
        /\ SubSeq(r, 1, k + 1) = Append(SubSeq(r, 1, k), r[k + 1])
    BY <1>1, <1>3, PrefixNext
  <2>4. SubSeq(s, 1, k) = SubSeq(r, 1, k)
    BY <1>3
  <2>5. QED BY <2>1, <2>2, <2>3, <2>4
<1>4. L \in S
  <2>1. 0 .. L \subseteq S
    <3> HIDE DEF S
    <3> QED BY <1>2, <1>3, UpTo
  <2> HIDE DEF S
  <2>2. QED BY <2>1
<1>5. SubSeq(s, 1, L) = s /\ SubSeq(r, 1, L) = r
  BY <1>1, SubSeqFull
<1>6. QED BY <1>4, <1>5

-----------------------------------------------------------------------------
(* The registrations.                                                      *)

\* The calls among a that registered a dynamic route for m; those whose route
\* starts with the steps s; those whose route is s; and those that registered
\* path as a static route for m.
DynamicIn(a, m) == {i \in 1 .. Len(a) : a[i].method = m /\ IsDynamic(a[i].parts)}
Through(a, m, s) == {i \in DynamicIn(a, m) : /\ Len(s) <= Len(a[i].parts)
                                             /\ SubSeq(Shape(a[i].parts), 1, Len(s)) = s}
Exactly(a, m, s) == {i \in DynamicIn(a, m) : Shape(a[i].parts) = s}
StaticIn(a, m, path) ==
  {i \in 1 .. Len(a) : /\ a[i].method = m /\ ~IsDynamic(a[i].parts)
                       /\ Shape(a[i].parts) = path.parts /\ a[i].spelling = path.spelling}

\* The trie of m after the calls a: a node for every prefix of a route, the
\* handler of the last call for a route, and the name the last call that goes
\* through a parameter gave it.
IsTrieOf(a, m, t) ==
  /\ Connected(t)
  /\ \A s \in Seq(Steps) : s \in DOMAIN t <=> s = <<>> \/ Through(a, m, s) # {}
  /\ \A s \in DOMAIN t :
       t[s].handler = IF Exactly(a, m, s) = {} THEN NoHandler
                      ELSE a[Table!LastOf(Exactly(a, m, s))].handler
  /\ \A s \in DOMAIN t : Append(s, Wild) \in DOMAIN t =>
       t[s].name = a[Table!LastOf(Through(a, m, Append(s, Wild)))].parts[Len(s) + 1].text

\* The static map of m after the calls a.
IsMapOf(a, m, f) ==
  /\ \A p \in DOMAIN f : f[p] \in Handlers
  /\ \A p \in Paths :
       /\ p \in DOMAIN f <=> StaticIn(a, m, p) # {}
       /\ p \in DOMAIN f => f[p] = a[Table!LastOf(StaticIn(a, m, p))].handler

\* The router is what its registrations make of it.
Registered ==
  /\ added \in Seq(Calls)
  /\ DOMAIN static = Methods /\ DOMAIN dynamic = Methods
  /\ \A m \in Methods : IsTrieOf(added, m, dynamic[m]) /\ IsMapOf(added, m, static[m])

LEMMA LastOfIn ==
  ASSUME NEW L \in Nat, NEW S, S \subseteq 1 .. L, S # {}
  PROVE  Table!LastOf(S) \in S
<1>1. S \subseteq 0 .. L /\ S \subseteq Int
  OBVIOUS
<1>2. PICK x \in S : \A y \in S : y <= x
  BY <1>1, GreatestElement
<1>3. Table!LastOf(S) = x
  BY <1>1, <1>2, LastOfIs
<1>4. QED BY <1>3

\* One more call is the last of any set it is in, and leaves the others alone.
LEMMA OneMoreCall ==
  ASSUME NEW a \in Seq(Calls), NEW c \in Calls
  PROVE  LET b == Append(a, c)
             n == Len(a) + 1
         IN /\ b \in Seq(Calls) /\ Len(b) = n /\ n \in Nat /\ Len(a) \in Nat
            /\ 1 .. n = (1 .. Len(a)) \cup {n} /\ n \notin 1 .. Len(a)
            /\ b[n] = c
            /\ \A i \in 1 .. Len(a) : b[i] = a[i]
            /\ c.parts \in Seq(Parts) /\ c.handler \in Handlers
            /\ \A i \in 1 .. Len(a) : a[i].parts \in Seq(Parts) /\ a[i].handler \in Handlers
<1>1. /\ Append(a, c) \in Seq(Calls) /\ Len(Append(a, c)) = Len(a) + 1
      /\ Append(a, c)[Len(a) + 1] = c
      /\ \A i \in 1 .. Len(a) : Append(a, c)[i] = a[i]
  BY AppendProperties
<1>2. /\ Len(a) \in Nat /\ Len(a) + 1 \in Nat /\ Len(a) + 1 \notin 1 .. Len(a)
      /\ 1 .. Len(a) + 1 = (1 .. Len(a)) \cup {Len(a) + 1}
  OBVIOUS
<1>3. \A i \in 1 .. Len(a) : a[i] \in Calls
  OBVIOUS
<1>4. QED BY <1>1, <1>2, <1>3, CallAssumption DEF IsCall

LEMMA LastCall ==
  ASSUME NEW a \in Seq(Calls), NEW c \in Calls, NEW S, S \subseteq 1 .. Len(a)
  PROVE  /\ S # {} => Append(a, c)[Table!LastOf(S)] = a[Table!LastOf(S)]
         /\ Append(a, c)[Table!LastOf(S \cup {Len(a) + 1})] = c
<1> DEFINE n == Len(a) + 1
           b == Append(a, c)
<1>1. Len(a) \in Nat /\ b[n] = c /\ \A i \in 1 .. Len(a) : b[i] = a[i]
  BY OneMoreCall
<1>2. S # {} => Table!LastOf(S) \in S
  BY <1>1, LastOfIn
<1>3. Table!LastOf(S \cup {n}) = n
  <2> DEFINE T == S \cup {n}
  <2>1. n \in Int /\ \A j \in 1 .. Len(a) : j \in Int /\ j <= n
    BY <1>1
  <2>2. S \subseteq 1 .. Len(a)
    OBVIOUS
  <2> HIDE DEF n
  <2>3. T \subseteq Int /\ n \in T /\ \A j \in T : j <= n
    BY <2>1, <2>2
  <2> HIDE DEF T
  <2>4. Table!LastOf(T) = n
    BY <2>3, LastOfIs
  <2>5. QED BY <2>4 DEF T
<1> HIDE DEF b, n
<1>4. QED BY <1>1, <1>2, <1>3 DEF b, n

LEMMA DynamicAfter ==
  ASSUME NEW a \in Seq(Calls), NEW c \in Calls, NEW m
  PROVE  /\ DynamicIn(a, m) \subseteq 1 .. Len(a)
         /\ DynamicIn(Append(a, c), m) =
              IF c.method = m /\ IsDynamic(c.parts)
              THEN DynamicIn(a, m) \cup {Len(a) + 1} ELSE DynamicIn(a, m)
<1> DEFINE b == Append(a, c)
           n == Len(a) + 1
<1>1. /\ Len(b) = n /\ b[n] = c /\ \A i \in 1 .. Len(a) : b[i] = a[i]
      /\ 1 .. n = (1 .. Len(a)) \cup {n}
  BY OneMoreCall
<1> HIDE DEF b, n
<1>2. DynamicIn(b, m) =
        IF c.method = m /\ IsDynamic(c.parts) THEN DynamicIn(a, m) \cup {n} ELSE DynamicIn(a, m)
  BY <1>1 DEF DynamicIn
<1>3. QED BY <1>2 DEF b, n, DynamicIn

\* Which sets of registrations a call adds to.
LEMMA RoutesAfter ==
  ASSUME NEW a \in Seq(Calls), NEW c \in Calls, NEW m, NEW s
  PROVE  LET b == Append(a, c)
             n == Len(a) + 1
             new == c.method = m /\ IsDynamic(c.parts)
         IN /\ Through(a, m, s) \subseteq 1 .. Len(a)
            /\ Exactly(a, m, s) \subseteq 1 .. Len(a)
            /\ Through(b, m, s) =
                 IF new /\ Len(s) <= Len(c.parts) /\ SubSeq(Shape(c.parts), 1, Len(s)) = s
                 THEN Through(a, m, s) \cup {n} ELSE Through(a, m, s)
            /\ Exactly(b, m, s) =
                 IF new /\ Shape(c.parts) = s
                 THEN Exactly(a, m, s) \cup {n} ELSE Exactly(a, m, s)
<1> DEFINE b == Append(a, c)
           n == Len(a) + 1
           new == c.method = m /\ IsDynamic(c.parts)
           D == DynamicIn(a, m)
           E == DynamicIn(b, m)
           T(call) == Len(s) <= Len(call.parts) /\ SubSeq(Shape(call.parts), 1, Len(s)) = s
           X(call) == Shape(call.parts) = s
<1>1. /\ b[n] = c /\ n \notin 1 .. Len(a)
      /\ \A i \in 1 .. Len(a) : b[i] = a[i]
  BY OneMoreCall
<1>2. D \subseteq 1 .. Len(a) /\ E = IF new THEN D \cup {n} ELSE D
  BY DynamicAfter
<1>3. /\ Through(a, m, s) = {i \in D : T(a[i])} /\ Through(b, m, s) = {i \in E : T(b[i])}
      /\ Exactly(a, m, s) = {i \in D : X(a[i])} /\ Exactly(b, m, s) = {i \in E : X(b[i])}
  BY DEF Through, Exactly
<1> HIDE DEF b, n, D, E, T, X
<1>4. \A i \in D : b[i] = a[i]
  BY <1>1, <1>2
<1>5. {i \in E : T(b[i])} = IF new /\ T(c) THEN {i \in D : T(a[i])} \cup {n} ELSE {i \in D : T(a[i])}
  BY <1>1, <1>2, <1>4
<1>6. {i \in E : X(b[i])} = IF new /\ X(c) THEN {i \in D : X(a[i])} \cup {n} ELSE {i \in D : X(a[i])}
  BY <1>1, <1>2, <1>4
<1>7. QED BY <1>2, <1>3, <1>5, <1>6 DEF b, n, T, X

LEMMA PathsAfter ==
  ASSUME NEW a \in Seq(Calls), NEW c \in Calls, NEW m, NEW p
  PROVE  /\ StaticIn(a, m, p) \subseteq 1 .. Len(a)
         /\ StaticIn(Append(a, c), m, p) =
              IF /\ c.method = m /\ ~IsDynamic(c.parts)
                 /\ Shape(c.parts) = p.parts /\ c.spelling = p.spelling
              THEN StaticIn(a, m, p) \cup {Len(a) + 1} ELSE StaticIn(a, m, p)
<1> DEFINE b == Append(a, c)
           n == Len(a) + 1
           X(call) == /\ call.method = m /\ ~IsDynamic(call.parts)
                      /\ Shape(call.parts) = p.parts /\ call.spelling = p.spelling
<1>1. /\ Len(b) = n /\ b[n] = c /\ \A i \in 1 .. Len(a) : b[i] = a[i]
      /\ 1 .. n = (1 .. Len(a)) \cup {n}
  BY OneMoreCall
<1>2. StaticIn(a, m, p) = {i \in 1 .. Len(a) : X(a[i])} /\ StaticIn(b, m, p) = {i \in 1 .. Len(b) : X(b[i])}
  BY DEF StaticIn
<1> HIDE DEF b, n, X
<1>3. {i \in 1 .. Len(b) : X(b[i])} =
        IF X(c) THEN {i \in 1 .. Len(a) : X(a[i])} \cup {n} ELSE {i \in 1 .. Len(a) : X(a[i])}
  BY <1>1
<1>4. QED BY <1>2, <1>3 DEF b, n, X

\* A route with the shape s goes through s.
LEMMA ExactlyThrough ==
  ASSUME NEW a \in Seq(Calls), NEW m, NEW s, NEW i \in Exactly(a, m, s)
  PROVE  /\ i \in Through(a, m, s) /\ s \in Seq(Steps)
         /\ i \in 1 .. Len(a) /\ Len(a[i].parts) = Len(s)
<1>1. i \in DynamicIn(a, m) /\ i \in 1 .. Len(a) /\ Shape(a[i].parts) = s
  BY DEF Exactly, DynamicIn
<1>2. a[i] \in Calls
  BY <1>1
<1>3. a[i].parts \in Seq(Parts)
  BY <1>2, CallAssumption DEF IsCall
<1>4. s \in Seq(Steps) /\ Len(s) = Len(a[i].parts) /\ Len(s) \in Nat
  BY <1>1, <1>3, ShapeFacts
<1>5. SubSeq(s, 1, Len(s)) = s
  BY <1>4, SubSeqFull
<1>6. QED BY <1>1, <1>4, <1>5 DEF Through

\* A call that is not for the trie of m leaves what it should be.
LEMMA TrieKept ==
  ASSUME NEW a \in Seq(Calls), NEW c \in Calls, NEW m, NEW t, IsTrieOf(a, m, t),
         ~(c.method = m /\ IsDynamic(c.parts))
  PROVE  IsTrieOf(Append(a, c), m, t)
<1> DEFINE b == Append(a, c)
<1>1. \A s : Through(b, m, s) = Through(a, m, s) /\ Exactly(b, m, s) = Exactly(a, m, s)
  BY RoutesAfter
<1>2. \A s : /\ Through(a, m, s) # {} =>
                 b[Table!LastOf(Through(a, m, s))] = a[Table!LastOf(Through(a, m, s))]
             /\ Exactly(a, m, s) # {} =>
                 b[Table!LastOf(Exactly(a, m, s))] = a[Table!LastOf(Exactly(a, m, s))]
  <2>1. \A s : Through(a, m, s) \subseteq 1 .. Len(a) /\ Exactly(a, m, s) \subseteq 1 .. Len(a)
    BY RoutesAfter
  <2>2. \A S : S \subseteq 1 .. Len(a) =>
          /\ S # {} => b[Table!LastOf(S)] = a[Table!LastOf(S)]
          /\ b[Table!LastOf(S \cup {Len(a) + 1})] = c
    BY LastCall
  <2> HIDE DEF b
  <2>3. QED BY <2>1, <2>2
<1> HIDE DEF b
<1>3. ASSUME NEW s \in DOMAIN t, Append(s, Wild) \in DOMAIN t
      PROVE  Through(a, m, Append(s, Wild)) # {}
  <2>1. s \in Seq(Steps) /\ Wild \in Steps
    BY DEF IsTrieOf, Connected, Steps
  <2>2. Append(s, Wild) \in Seq(Steps) /\ Append(s, Wild) # <<>>
    BY <2>1, AppendProperties
  <2>3. QED BY <1>3, <2>2 DEF IsTrieOf
<1>4. ASSUME NEW s \in Seq(Steps)
      PROVE  s \in DOMAIN t <=> s = <<>> \/ Through(b, m, s) # {}
  BY <1>1 DEF IsTrieOf
<1>5. ASSUME NEW s \in DOMAIN t
      PROVE  t[s].handler = IF Exactly(b, m, s) = {} THEN NoHandler
                            ELSE b[Table!LastOf(Exactly(b, m, s))].handler
  <2>1. t[s].handler = IF Exactly(a, m, s) = {} THEN NoHandler
                       ELSE a[Table!LastOf(Exactly(a, m, s))].handler
    BY DEF IsTrieOf
  <2>2. QED BY <1>1, <1>2, <2>1
<1>6. ASSUME NEW s \in DOMAIN t, Append(s, Wild) \in DOMAIN t
      PROVE  t[s].name = b[Table!LastOf(Through(b, m, Append(s, Wild)))].parts[Len(s) + 1].text
  <2>1. t[s].name = a[Table!LastOf(Through(a, m, Append(s, Wild)))].parts[Len(s) + 1].text
    BY <1>6 DEF IsTrieOf
  <2>2. Through(a, m, Append(s, Wild)) # {}
    BY <1>3, <1>6
  <2>3. QED BY <1>1, <1>2, <2>1, <2>2
<1>7. Connected(t)
  BY DEF IsTrieOf
<1>8. QED BY <1>4, <1>5, <1>6, <1>7 DEF IsTrieOf, b

\* A dynamic route for m becomes part of its trie.
LEMMA TrieGrows ==
  ASSUME NEW a \in Seq(Calls), NEW c \in Calls, NEW m, NEW t, IsTrieOf(a, m, t),
         c.method = m, IsDynamic(c.parts)
  PROVE  IsTrieOf(Append(a, c), m, Insert(t, c.parts, c.handler))
<1> DEFINE b == Append(a, c)
           n == Len(a) + 1
           parts == c.parts
           p == Shape(parts)
           L == Len(parts)
           u == Insert(t, parts, c.handler)
           Starts == {SubSeq(p, 1, j) : j \in 0 .. L}
           StartsWith(s) == Len(s) <= L /\ SubSeq(p, 1, Len(s)) = s
           Passed(s) == /\ Len(s) < L /\ s = SubSeq(p, 1, Len(s))
                        /\ parts[Len(s) + 1].kind = "parameter"
<1>1. parts \in Seq(Parts) /\ c.handler \in Handlers /\ Connected(t)
  BY OneMoreCall DEF IsTrieOf
<1>2. /\ p \in Seq(Steps) /\ Len(p) = L /\ L \in Nat
      /\ \A i \in 1 .. L : parts[i] \in Parts /\ p[i] = Step(parts[i])
  BY <1>1, ShapeFacts
<1>3. /\ Connected(u)
      /\ DOMAIN u = DOMAIN t \cup Starts
      /\ \A s \in DOMAIN u :
           /\ u[s].handler = IF s = p THEN c.handler
                             ELSE IF s \in DOMAIN t THEN t[s].handler ELSE NoHandler
           /\ u[s].name = IF Passed(s) THEN parts[Len(s) + 1].text
                          ELSE IF s \in DOMAIN t THEN t[s].name ELSE NoName
  <2>1. Grown(u, t, parts, c.handler)
    BY <1>1, InsertBuilds
  <2>2. QED BY <2>1 DEF Grown
<1>4. \A s : /\ Through(b, m, s) = IF StartsWith(s) THEN Through(a, m, s) \cup {n}
                                   ELSE Through(a, m, s)
             /\ Exactly(b, m, s) = IF p = s THEN Exactly(a, m, s) \cup {n}
                                   ELSE Exactly(a, m, s)
  BY RoutesAfter
<1>5. \A s : Through(a, m, s) \subseteq 1 .. Len(a) /\ Exactly(a, m, s) \subseteq 1 .. Len(a)
  BY RoutesAfter
<1>6. \A S : S \subseteq 1 .. Len(a) =>
        /\ S # {} => b[Table!LastOf(S)] = a[Table!LastOf(S)]
        /\ b[Table!LastOf(S \cup {n})] = c
  BY LastCall
<1> HIDE DEF b, n, p, L, u
<1>7. ASSUME NEW s \in Seq(Steps)
      PROVE  StartsWith(s) <=> s \in Starts
  <2>1. Len(s) \in Nat
    OBVIOUS
  <2>2. ASSUME StartsWith(s) PROVE s \in Starts
    <3>1. Len(s) \in 0 .. L
      BY <1>2, <2>1, <2>2
    <3>2. QED BY <2>2, <3>1
  <2>3. ASSUME s \in Starts PROVE StartsWith(s)
    <3>1. PICK j \in 0 .. L : s = SubSeq(p, 1, j)
      BY <2>3
    <3>2. Len(s) = j
      BY <1>2, <3>1, PrefixFacts
    <3>3. QED BY <1>2, <3>1, <3>2
  <2>4. QED BY <2>2, <2>3
<1> HIDE DEF Starts
<1>8. ASSUME NEW s \in Seq(Steps)
      PROVE  s \in DOMAIN u <=> s = <<>> \/ Through(b, m, s) # {}
  <2>1. s \in DOMAIN t <=> s = <<>> \/ Through(a, m, s) # {}
    BY DEF IsTrieOf
  <2>2. StartsWith(s) <=> s \in Starts
    BY <1>7
  <2> HIDE DEF StartsWith
  <2>3. CASE StartsWith(s)
    BY <1>3, <1>4, <2>2, <2>3
  <2>4. CASE ~StartsWith(s)
    BY <1>3, <1>4, <2>1, <2>2, <2>4
  <2>5. QED BY <2>3, <2>4
<1>9. ASSUME NEW s \in DOMAIN u
      PROVE  u[s].handler = IF Exactly(b, m, s) = {} THEN NoHandler
                            ELSE b[Table!LastOf(Exactly(b, m, s))].handler
  <2>1. CASE s = p
    <3>1. Exactly(b, m, s) = Exactly(a, m, s) \cup {n}
      BY <1>4, <2>1
    <3>2. b[Table!LastOf(Exactly(b, m, s))] = c
      BY <1>5, <1>6, <3>1
    <3>3. u[s].handler = c.handler /\ Exactly(b, m, s) # {}
      BY <1>3, <2>1, <3>1
    <3>4. QED BY <3>2, <3>3
  <2>2. CASE s # p /\ s \in DOMAIN t
    <3>1. t[s].handler = IF Exactly(a, m, s) = {} THEN NoHandler
                         ELSE a[Table!LastOf(Exactly(a, m, s))].handler
      BY <2>2 DEF IsTrieOf
    <3>2. Exactly(b, m, s) = Exactly(a, m, s) /\ u[s].handler = t[s].handler
      BY <1>3, <1>4, <2>2
    <3>3. Exactly(a, m, s) # {} =>
            b[Table!LastOf(Exactly(a, m, s))] = a[Table!LastOf(Exactly(a, m, s))]
      BY <1>5, <1>6
    <3>4. QED BY <3>1, <3>2, <3>3
  <2>3. CASE s # p /\ s \notin DOMAIN t
    <3>1. Exactly(b, m, s) = Exactly(a, m, s) /\ u[s].handler = NoHandler
      BY <1>3, <1>4, <2>3
    <3>2. Exactly(a, m, s) = {}
      <4> SUFFICES ASSUME NEW i \in Exactly(a, m, s) PROVE FALSE
        OBVIOUS
      <4>1. i \in Through(a, m, s) /\ s \in Seq(Steps)
        BY ExactlyThrough
      <4>2. QED BY <2>3, <4>1 DEF IsTrieOf
    <3>3. QED BY <3>1, <3>2
  <2>4. QED BY <2>1, <2>2, <2>3
<1>10. ASSUME NEW s \in DOMAIN u, Append(s, Wild) \in DOMAIN u
       PROVE  u[s].name = b[Table!LastOf(Through(b, m, Append(s, Wild)))].parts[Len(s) + 1].text
  <2> DEFINE w == Append(s, Wild)
  <2>1. s \in Seq(Steps) /\ Len(s) \in Nat /\ Wild \in Steps
    <3>1. s \in Seq(Steps)
      BY <1>3 DEF Connected
    <3>2. QED BY <3>1 DEF Steps
  <2>2. w \in Seq(Steps) /\ w # <<>> /\ Len(w) = Len(s) + 1 /\ Front(w) = s
    BY <2>1, AppendProperties, FrontAndLast
  <2>3. StartsWith(w) <=> Passed(s)
    <3>1. CASE Len(s) < L
      <4>1. Len(s) \in 0 .. Len(p) /\ Len(s) # Len(p) /\ Len(s) + 1 \in 1 .. L
        BY <1>2, <2>1, <3>1
      <4>2. /\ p[Len(s) + 1] \in Steps
            /\ SubSeq(p, 1, Len(s) + 1) = Append(SubSeq(p, 1, Len(s)), p[Len(s) + 1])
        BY <1>2, <4>1, PrefixNext
      <4>3. SubSeq(p, 1, Len(s)) \in Seq(Steps)
        BY <1>2, <4>1, PrefixFacts
      <4>4. SubSeq(p, 1, Len(s) + 1) = w <=> SubSeq(p, 1, Len(s)) = s /\ p[Len(s) + 1] = Wild
        <5> DEFINE q == SubSeq(p, 1, Len(s))
                   x == p[Len(s) + 1]
        <5>1. q \in Seq(Steps) /\ x \in Steps /\ SubSeq(p, 1, Len(s) + 1) = Append(q, x)
          BY <4>2, <4>3
        <5> HIDE DEF q, x
        <5>2. Append(q, x) = Append(s, Wild) <=> q = s /\ x = Wild
          BY <2>1, <5>1, AppendInjective
        <5>3. QED BY <5>1, <5>2 DEF q, x
      <4>5. p[Len(s) + 1] = Wild <=> parts[Len(s) + 1].kind = "parameter"
        BY <1>2, <4>1, PartFacts
      <4> HIDE DEF w, parts
      <4>6. StartsWith(w) <=> SubSeq(p, 1, Len(s) + 1) = w
        BY <1>2, <2>1, <2>2, <3>1
      <4>7. QED BY <3>1, <4>4, <4>5, <4>6
    <3>2. CASE ~(Len(s) < L)
      <4>1. ~(Len(w) <= L)
        BY <1>2, <2>1, <2>2, <3>2
      <4>2. QED BY <3>2, <4>1
    <3>3. QED BY <3>1, <3>2
  <2> HIDE DEF w
  <2>4. CASE Passed(s)
    <3>1. Through(b, m, w) = Through(a, m, w) \cup {n}
      BY <1>4, <2>3, <2>4
    <3>2. b[Table!LastOf(Through(b, m, w))] = c
      BY <1>5, <1>6, <3>1
    <3>3. u[s].name = parts[Len(s) + 1].text
      BY <1>3, <2>4
    <3>4. QED BY <3>2, <3>3 DEF w
  <2>5. CASE ~Passed(s)
    <3>1. ~StartsWith(w) /\ w \notin Starts
      BY <1>7, <2>2, <2>3, <2>5
    <3>2. w \in DOMAIN t
      BY <1>3, <1>10, <3>1 DEF w
    <3>3. s \in DOMAIN t
      BY <1>1, <2>2, <3>2 DEF Connected
    <3>4. t[s].name = a[Table!LastOf(Through(a, m, w))].parts[Len(s) + 1].text
      BY <3>2, <3>3 DEF IsTrieOf, w
    <3>5. Through(a, m, w) # {} /\ Through(b, m, w) = Through(a, m, w)
      BY <1>4, <2>2, <3>1, <3>2 DEF IsTrieOf
    <3>6. b[Table!LastOf(Through(a, m, w))] = a[Table!LastOf(Through(a, m, w))]
      BY <1>5, <1>6, <3>5
    <3>7. u[s].name = t[s].name
      BY <1>3, <2>5, <3>3
    <3>8. QED BY <3>4, <3>5, <3>6, <3>7 DEF w
  <2>6. QED BY <2>4, <2>5
<1>11. QED BY <1>3, <1>8, <1>9, <1>10 DEF IsTrieOf, b, u

\* The same for the static map.
LEMMA MapKept ==
  ASSUME NEW a \in Seq(Calls), NEW c \in Calls, NEW m, NEW f, IsMapOf(a, m, f),
         ~(c.method = m /\ ~IsDynamic(c.parts))
  PROVE  IsMapOf(Append(a, c), m, f)
<1> DEFINE b == Append(a, c)
<1>1. \A p : StaticIn(b, m, p) = StaticIn(a, m, p) /\ StaticIn(a, m, p) \subseteq 1 .. Len(a)
  BY PathsAfter
<1>2. \A S : S \subseteq 1 .. Len(a) =>
        /\ S # {} => b[Table!LastOf(S)] = a[Table!LastOf(S)]
        /\ b[Table!LastOf(S \cup {Len(a) + 1})] = c
  BY LastCall
<1> HIDE DEF b
<1>3. QED BY <1>1, <1>2 DEF IsMapOf, b

LEMMA MapGrows ==
  ASSUME NEW a \in Seq(Calls), NEW c \in Calls, NEW m, NEW f, IsMapOf(a, m, f),
         c.method = m, ~IsDynamic(c.parts), NEW path,
         path = [parts |-> Shape(c.parts), spelling |-> c.spelling]
  PROVE  IsMapOf(Append(a, c), m, Put(f, path, c.handler))
<1> DEFINE b == Append(a, c)
           n == Len(a) + 1
           g == Put(f, path, c.handler)
<1>1. /\ DOMAIN g = DOMAIN f \cup {path}
      /\ g[path] = c.handler
      /\ \A p \in DOMAIN f : p # path => g[p] = f[p]
  BY DEF Put
<1>2. c.handler \in Handlers
  BY OneMoreCall
<1>3. \A p : /\ StaticIn(a, m, p) \subseteq 1 .. Len(a)
             /\ StaticIn(b, m, p) =
                  IF Shape(c.parts) = p.parts /\ c.spelling = p.spelling
                  THEN StaticIn(a, m, p) \cup {n} ELSE StaticIn(a, m, p)
  BY PathsAfter
<1>4. \A S : S \subseteq 1 .. Len(a) =>
        /\ S # {} => b[Table!LastOf(S)] = a[Table!LastOf(S)]
        /\ b[Table!LastOf(S \cup {n})] = c
  BY LastCall
<1> HIDE DEF b, n, g
<1>5. ASSUME NEW p \in Paths
      PROVE  /\ p \in DOMAIN g <=> StaticIn(b, m, p) # {}
             /\ p \in DOMAIN g => g[p] = b[Table!LastOf(StaticIn(b, m, p))].handler
  <2>1. p = path <=> Shape(c.parts) = p.parts /\ c.spelling = p.spelling
    BY PathAssumption
  <2>2. /\ p \in DOMAIN f <=> StaticIn(a, m, p) # {}
        /\ p \in DOMAIN f => f[p] = a[Table!LastOf(StaticIn(a, m, p))].handler
    BY DEF IsMapOf
  <2>3. CASE p = path
    <3>1. StaticIn(b, m, p) = StaticIn(a, m, p) \cup {n}
      BY <1>3, <2>1, <2>3
    <3>2. b[Table!LastOf(StaticIn(b, m, p))] = c
      BY <1>3, <1>4, <3>1
    <3>3. QED BY <1>1, <2>3, <3>1, <3>2
  <2>4. CASE p # path
    <3>1. StaticIn(b, m, p) = StaticIn(a, m, p)
      BY <1>3, <2>1, <2>4
    <3>2. StaticIn(a, m, p) # {} =>
            b[Table!LastOf(StaticIn(a, m, p))] = a[Table!LastOf(StaticIn(a, m, p))]
      BY <1>3, <1>4
    <3>3. QED BY <1>1, <2>2, <2>4, <3>1, <3>2
  <2>5. QED BY <2>3, <2>4
<1>6. \A p \in DOMAIN g : g[p] \in Handlers
  BY <1>1, <1>2 DEF IsMapOf
<1>7. QED BY <1>5, <1>6 DEF IsMapOf, b, g

-----------------------------------------------------------------------------
(* The router.                                                             *)

LEMMA RegisteredAlways == Spec => []Registered
<1>1. Init => Registered
  <2> SUFFICES ASSUME Init PROVE Registered
    OBVIOUS
  <2>1. /\ added = <<>> /\ added \in Seq(Calls) /\ Len(added) = 0
        /\ DOMAIN static = Methods /\ DOMAIN dynamic = Methods
        /\ \A m \in Methods : static[m] = <<>> /\ dynamic[m] = NewTrie
    BY DEF Init
  <2>2. \A m, s : /\ DynamicIn(added, m) = {} /\ Through(added, m, s) = {}
                  /\ Exactly(added, m, s) = {} /\ StaticIn(added, m, s) = {}
    BY <2>1 DEF DynamicIn, Through, Exactly, StaticIn
  <2>3. ASSUME NEW m \in Methods PROVE IsTrieOf(added, m, NewTrie)
    <3>1. Append(<<>>, Wild) # <<>>
      BY AppendProperties, <<>> \in Seq(Steps), Wild \in Steps DEF Steps
    <3>2. QED BY <2>2, <3>1, NewTrieConnected DEF IsTrieOf
  <2>4. ASSUME NEW m \in Methods PROVE IsMapOf(added, m, <<>>)
    BY <2>2 DEF IsMapOf
  <2>5. QED BY <2>1, <2>3, <2>4 DEF Registered
<1>2. Registered /\ [Next]_vars => Registered'
  <2> SUFFICES ASSUME Registered, [Next]_vars PROVE Registered'
    OBVIOUS
  <2>1. /\ added \in Seq(Calls)
        /\ DOMAIN static = Methods /\ DOMAIN dynamic = Methods
        /\ \A m \in Methods : IsTrieOf(added, m, dynamic[m]) /\ IsMapOf(added, m, static[m])
    BY DEF Registered
  <2>2. ASSUME NEW c \in Calls, Add(c) PROVE Registered'
    <3>1. added' = Append(added, c) /\ (AddUnknown(c) \/ AddDynamic(c) \/ AddStatic(c))
      BY <2>2 DEF Add
    <3>2. added' \in Seq(Calls)
      BY <2>1, <3>1, OneMoreCall
    <3>3. CASE AddUnknown(c)
      <4>1. c.method \notin Methods /\ static' = static /\ dynamic' = dynamic
        BY <3>3 DEF AddUnknown
      <4>2. ASSUME NEW m \in Methods
            PROVE  IsTrieOf(added', m, dynamic'[m]) /\ IsMapOf(added', m, static'[m])
        BY <2>1, <3>1, <4>1, TrieKept, MapKept
      <4>3. QED BY <2>1, <3>2, <4>1, <4>2 DEF Registered
    <3>4. CASE AddDynamic(c)
      <4>1. /\ c.method \in Methods /\ IsDynamic(c.parts) /\ static' = static
            /\ DOMAIN dynamic' = DOMAIN dynamic
            /\ dynamic'[c.method] = Insert(dynamic[c.method], c.parts, c.handler)
            /\ \A m \in Methods : m # c.method => dynamic'[m] = dynamic[m]
        BY <2>1, <3>4 DEF AddDynamic
      <4>2. ASSUME NEW m \in Methods PROVE IsMapOf(added', m, static'[m])
        BY <2>1, <3>1, <4>1, MapKept
      <4>3. ASSUME NEW m \in Methods PROVE IsTrieOf(added', m, dynamic'[m])
        <5>1. CASE m = c.method
          BY <2>1, <3>1, <4>1, <5>1, TrieGrows
        <5>2. CASE m # c.method
          BY <2>1, <3>1, <4>1, <5>2, TrieKept
        <5>3. QED BY <5>1, <5>2
      <4>4. QED BY <2>1, <3>2, <4>1, <4>2, <4>3 DEF Registered
    <3>5. CASE AddStatic(c)
      <4> DEFINE path == [parts |-> Shape(c.parts), spelling |-> c.spelling]
      <4>1. /\ c.method \in Methods /\ ~IsDynamic(c.parts) /\ dynamic' = dynamic
            /\ static' = [static EXCEPT ![c.method] = Put(@, path, c.handler)]
        BY <3>5 DEF AddStatic
      <4>2. /\ DOMAIN static' = DOMAIN static
            /\ static'[c.method] = Put(static[c.method], path, c.handler)
            /\ \A m \in Methods : m # c.method => static'[m] = static[m]
        BY <2>1, <4>1
      <4>3. ASSUME NEW m \in Methods PROVE IsTrieOf(added', m, dynamic'[m])
        BY <2>1, <3>1, <4>1, TrieKept
      <4>4. ASSUME NEW m \in Methods PROVE IsMapOf(added', m, static'[m])
        <5>1. CASE m = c.method
          BY <2>1, <3>1, <4>1, <4>2, <5>1, MapGrows
        <5>2. CASE m # c.method
          BY <2>1, <3>1, <4>1, <4>2, <5>2, MapKept
        <5>3. QED BY <5>1, <5>2
      <4>5. QED BY <2>1, <3>2, <4>1, <4>2, <4>3, <4>4 DEF Registered
    <3>6. QED BY <3>1, <3>3, <3>4, <3>5
  <2>3. CASE UNCHANGED vars
    BY <2>1, <2>3 DEF Registered, vars
  <2>4. QED BY <2>2, <2>3 DEF Next
<1>3. QED BY <1>1, <1>2, PTL DEF Spec

\* Types: a trie has a root, its nodes are nodes, and no node keeps children in
\* both of its containers, nor more in the array than it may hold.
THEOREM RouterTyped == Spec => []TypeOK
<1>1. Registered => TypeOK
  <2> SUFFICES ASSUME Registered PROVE TypeOK
    OBVIOUS
  <2>1. added \in Seq(Calls)
    BY DEF Registered
  <2>2. ASSUME NEW m \in Methods
        PROVE  /\ \A path \in DOMAIN static[m] : static[m][path] \in Handlers
               /\ IsTrie(dynamic[m])
               /\ \A at \in DOMAIN dynamic[m] : Compact(dynamic[m][at])
    <3>1. IsMapOf(added, m, static[m]) /\ Connected(dynamic[m])
      BY DEF Registered, IsTrieOf
    <3>2. QED BY <3>1 DEF IsMapOf, Connected, IsTrie, Steps
  <2>3. QED BY <2>1, <2>2 DEF TypeOK, Compact
<1>2. QED BY <1>1, RegisteredAlways, PTL

\* No registration loses a subtree, not even the one that moves the children of
\* a node from the array to the map.
THEOREM NothingIsEverLost == Spec => []NothingIsLost
<1>1. Registered => NothingIsLost
  <2> SUFFICES ASSUME Registered, NEW m \in Methods, NEW at \in DOMAIN dynamic[m], at # <<>>
               PROVE  /\ Front(at) \in DOMAIN dynamic[m]
                      /\ Last(at) # Wild => FindChild(dynamic[m][Front(at)], Last(at))
    BY DEF NothingIsLost
  <2> DEFINE t == dynamic[m]
  <2>1. Connected(t)
    BY DEF Registered, IsTrieOf
  <2> HIDE DEF t
  <2>2. at \in DOMAIN t /\ at \in Seq(Steps) /\ Front(at) \in DOMAIN t
    BY <2>1 DEF Connected, t
  <2>3. PICK s \in Seq(Steps), x \in Steps : at = Append(s, x)
    BY <2>2, SequenceEmptyOrAppend
  <2>4. Front(at) = s /\ Last(at) = x
    BY <2>3, FrontAndLast
  <2>5. x # Wild => FindChild(t[s], x)
    BY <2>1, <2>2, <2>3, <2>4 DEF Connected, Steps
  <2>6. QED BY <2>2, <2>4, <2>5 DEF t
<1>2. QED BY <1>1, RegisteredAlways, PTL

-----------------------------------------------------------------------------
(* The answers.                                                            *)

\* The table's definitions, for the registrations there are.
LEMMA TableRoutes ==
  ASSUME NEW parts
  PROVE  Table!Shape(parts) = Shape(parts) /\ (Table!IsDynamic(parts) <=> IsDynamic(parts))
BY DEF Table!Shape, Shape, Table!Step, Step, Table!IsDynamic, IsDynamic

LEMMA TableSets ==
  ASSUME NEW m, NEW p
  PROVE  /\ Table!DynamicFor(m) = DynamicIn(added, m)
         /\ {i \in Table!StaticFor(m) : /\ Shape(added[i].parts) = p.parts
                                        /\ added[i].spelling = p.spelling} = StaticIn(added, m, p)
         /\ \A s : Table!Known(m, s) <=> Through(added, m, s) # {}
         /\ \A s : Table!NameOf(m, s) =
                     added[Table!LastOf(Through(added, m, s))].parts[Len(s)].text
<1>1. Table!DynamicFor(m) = DynamicIn(added, m)
  BY TableRoutes DEF Table!DynamicFor, Table!AddedFor, DynamicIn
<1>2. {i \in Table!StaticFor(m) : /\ Shape(added[i].parts) = p.parts
                                  /\ added[i].spelling = p.spelling} = StaticIn(added, m, p)
  BY TableRoutes DEF Table!StaticFor, Table!DynamicFor, Table!AddedFor, StaticIn
<1>3. \A s : Table!Known(m, s) <=> Through(added, m, s) # {}
  BY <1>1, TableRoutes DEF Table!Known, Through
<1>4. \A s : Table!NameOf(m, s) =
               added[Table!LastOf(Through(added, m, s))].parts[Len(s)].text
  <2> TAKE s
  <2> DEFINE T == {i \in Table!DynamicFor(m) :
                    /\ Len(s) <= Len(added[i].parts)
                    /\ SubSeq(Table!Shape(added[i].parts), 1, Len(s)) = s}
  <2>1. T = Through(added, m, s)
    BY <1>1, TableRoutes DEF Through
  <2>2. Table!NameOf(m, s) = added[Table!LastOf(T)].parts[Len(s)].text
    BY DEF Table!NameOf
  <2> HIDE DEF T
  <2>3. QED BY <2>1, <2>2
<1>5. QED BY <1>1, <1>2, <1>3, <1>4

\* A path takes the steps s in the table when its segments lead to s in the trie.
LEMMA TakesLeads ==
  ASSUME Registered, NEW m \in Methods, NEW segments \in Seq(Segments), NEW s \in Seq(Steps)
  PROVE  Table!Takes(m, s, segments) <=> Leads(dynamic[m], s, segments, Len(segments))
<1> DEFINE t == dynamic[m]
<1>1. /\ Len(s) \in Nat /\ Len(segments) \in Nat
      /\ \A i \in 1 .. Len(segments) : segments[i] \in Segments
  OBVIOUS
<1>2. \A r \in Seq(Steps) : r \in DOMAIN t <=> r = <<>> \/ Through(added, m, r) # {}
  BY DEF Registered, IsTrieOf
<1> HIDE DEF t
<1>3. ASSUME NEW i \in 1 .. Len(s), Len(s) = Len(segments)
      PROVE  Table!Known(m, Append(SubSeq(s, 1, i - 1), segments[i]))
               <=> Append(SubSeq(s, 1, i - 1), segments[i]) \in DOMAIN t
  <2> DEFINE q == SubSeq(s, 1, i - 1)
             x == segments[i]
  <2>1. i - 1 \in 0 .. Len(s)
    BY <1>1
  <2>2. q \in Seq(Steps)
    BY <2>1, PrefixFacts
  <2>3. x \in Steps
    BY <1>1, <1>3 DEF Steps
  <2> HIDE DEF q, x
  <2>4. Append(q, x) \in Seq(Steps) /\ Append(q, x) # <<>>
    BY <2>2, <2>3, AppendProperties
  <2>5. Table!Known(m, Append(q, x)) <=> Append(q, x) \in DOMAIN t
    BY <1>2, <2>4, TableSets
  <2>6. QED BY <2>5 DEF q, x
<1>4. QED BY <1>3 DEF Table!Takes, Leads, t

\* On the way to a node of the trie, the parameters have the table's names.
LEMMA SameParameters ==
  ASSUME Registered, NEW m \in Methods, NEW s \in DOMAIN dynamic[m], NEW segments
  PROVE  Binding(dynamic[m], s, segments, Len(s)) = Table!Parameters(m, s, segments)
<1> DEFINE t == dynamic[m]
           W == Wilds(s, Len(s))
           name(i) == Table!NameOf(m, SubSeq(s, 1, i))
<1>1. Connected(t) /\ s \in DOMAIN t /\ IsTrieOf(added, m, t)
  BY DEF Registered, IsTrieOf
<1> HIDE DEF t
<1>2. s \in Seq(Steps) /\ Len(s) \in Nat
  BY <1>1 DEF Connected
<1>3. W \subseteq 1 .. Len(s) /\ \A i \in W : s[i] = Wild
  BY DEF Wilds
<1>4. Table!Parameters(m, s, segments) =
        [n \in {name(i) : i \in W} |-> segments[Table!LastOf({i \in W : name(i) = n})]]
  BY DEF Table!Parameters, Wilds
<1>5. Binding(t, s, segments, Len(s)) =
        [n \in {NameAt(t, s, i) : i \in W} |->
           segments[Table!LastOf({i \in W : NameAt(t, s, i) = n})]]
  BY DEF Binding
<1> HIDE DEF W
<1>6. ASSUME NEW i \in W PROVE NameAt(t, s, i) = name(i)
  <2> DEFINE at == SubSeq(s, 1, i - 1)
             w == SubSeq(s, 1, i)
  <2>1. /\ i - 1 \in 0 .. Len(s) /\ i \in 0 .. Len(s) /\ i - 1 # Len(s)
        /\ (i - 1) + 1 = i /\ s[i] = Wild
    BY <1>2, <1>3
  <2>2. at \in DOMAIN t /\ w \in DOMAIN t
    BY <1>1, <2>1, PrefixesInTrie
  <2>3. w = Append(at, Wild)
    <3>1. SubSeq(s, 1, (i - 1) + 1) = Append(SubSeq(s, 1, i - 1), s[(i - 1) + 1])
      BY <1>2, <2>1, PrefixNext
    <3>2. QED BY <2>1, <3>1
  <2>4. Len(at) = i - 1 /\ Len(w) = i
    BY <1>2, <2>1, PrefixFacts
  <2> HIDE DEF at, w
  <2>5. t[at].name = added[Table!LastOf(Through(added, m, Append(at, Wild)))].parts[Len(at) + 1].text
    BY <1>1, <2>2, <2>3 DEF IsTrieOf
  <2>6. Table!NameOf(m, w) = added[Table!LastOf(Through(added, m, w))].parts[Len(w)].text
    BY TableSets
  <2>7. t[at].name = Table!NameOf(m, w)
    BY <2>1, <2>3, <2>4, <2>5, <2>6
  <2>8. QED BY <2>7 DEF at, w, NameAt
<1> HIDE DEF name
<1>7. {NameAt(t, s, i) : i \in W} = {name(i) : i \in W}
  BY <1>6
<1>8. ASSUME NEW n
      PROVE  {i \in W : NameAt(t, s, i) = n} = {i \in W : name(i) = n}
  BY <1>6
<1> DEFINE F(n) == segments[Table!LastOf({i \in W : NameAt(t, s, i) = n})]
           G(n) == segments[Table!LastOf({i \in W : name(i) = n})]
           D == {NameAt(t, s, i) : i \in W}
<1>9. \A n : F(n) = G(n)
  BY <1>8
<1>10. /\ Binding(t, s, segments, Len(s)) = [n \in D |-> F(n)]
       /\ Table!Parameters(m, s, segments) = [n \in D |-> G(n)]
  BY <1>4, <1>5, <1>7
<1> HIDE DEF F, G, D
<1>11. QED BY <1>9, <1>10 DEF t

\* The trie answers for the dynamic routes as the table does.
LEMMA SearchAnswers ==
  ASSUME Registered, NEW m \in Methods, NEW segments \in Seq(Segments)
  PROVE  LET matching == Table!Matching(m, segments)
             i == Table!LastOf(matching)
         IN Search(dynamic[m], segments) =
              IF matching # {}
              THEN [handler |-> added[i].handler,
                    params  |-> Table!Parameters(m, Shape(added[i].parts), segments)]
              ELSE NotFound
<1> DEFINE t == dynamic[m]
           M == Table!Matching(m, segments)
           L == Len(segments)
<1>1. /\ IsTrieOf(added, m, t) /\ Connected(t) /\ added \in Seq(Calls)
      /\ L \in Nat /\ Len(added) \in Nat
  BY DEF Registered, IsTrieOf
<1>2. \A i \in DynamicIn(added, m) : /\ i \in 1 .. Len(added)
                                    /\ i \in Exactly(added, m, Shape(added[i].parts))
  BY DEF DynamicIn, Exactly
<1>3. ASSUME NEW i \in DynamicIn(added, m)
      PROVE  /\ Shape(added[i].parts) \in DOMAIN t
             /\ i \in M <=> Leads(t, Shape(added[i].parts), segments, L)
  <2> DEFINE s == Shape(added[i].parts)
  <2>1. i \in Through(added, m, s) /\ s \in Seq(Steps)
    BY <1>1, <1>2, ExactlyThrough
  <2>2. s \in DOMAIN t
    <3> HIDE DEF s, t
    <3> QED BY <1>1, <2>1 DEF IsTrieOf
  <2>3. Table!Takes(m, s, segments) <=> Leads(t, s, segments, L)
    BY <2>1, TakesLeads
  <2>4. i \in M <=> Table!Takes(m, s, segments)
    BY TableSets, TableRoutes DEF Table!Matching
  <2>5. QED BY <2>2, <2>3, <2>4
<1>4. M \subseteq DynamicIn(added, m)
  BY TableSets DEF Table!Matching
<1> HIDE DEF t, M, L
<1>5. CASE M = {}
  <2>1. ASSUME NEW s \in DOMAIN t, Leads(t, s, segments, L)
        PROVE  t[s].handler = NoHandler
    <3>1. Exactly(added, m, s) = {}
      <4> SUFFICES ASSUME NEW i \in Exactly(added, m, s) PROVE FALSE
        OBVIOUS
      <4>1. i \in DynamicIn(added, m) /\ Shape(added[i].parts) = s
        BY DEF Exactly
      <4>2. QED BY <1>3, <1>5, <2>1, <4>1
    <3>2. QED BY <1>1, <3>1 DEF IsTrieOf
  <2>2. Search(t, segments) = NotFound
    BY <1>1, <2>1, SearchFails DEF L
  <2>3. QED BY <1>5, <2>2 DEF t, M
<1>6. CASE M # {}
  <2> DEFINE i == Table!LastOf(M)
             s == Shape(added[i].parts)
  <2>1. M \subseteq 1 .. Len(added)
    BY <1>2, <1>4
  <2>2. i \in M
    BY <1>1, <1>6, <2>1, LastOfIn
  <2> HIDE DEF i
  <2>3. i \in DynamicIn(added, m) /\ s \in DOMAIN t /\ Leads(t, s, segments, L)
    BY <1>3, <1>4, <2>2
  <2> HIDE DEF s
  <2>4. Exactly(added, m, s) = M
    <3>1. ASSUME NEW j \in Exactly(added, m, s) PROVE j \in M
      <4>1. j \in DynamicIn(added, m) /\ Shape(added[j].parts) = s
        BY DEF Exactly
      <4>2. QED BY <1>3, <2>3, <4>1
    <3>2. ASSUME NEW j \in M PROVE j \in Exactly(added, m, s)
      <4>1. j \in DynamicIn(added, m) /\ Leads(t, Shape(added[j].parts), segments, L)
        BY <1>3, <1>4
      <4>2. Shape(added[j].parts) = s
        BY <1>1, <2>3, <4>1, LeadsOne
      <4>3. QED BY <4>1, <4>2 DEF Exactly
    <3>3. QED BY <3>1, <3>2
  <2>5. t[s].handler = added[i].handler
    BY <1>1, <1>6, <2>3, <2>4 DEF IsTrieOf, i
  <2>6. added[i] \in Calls
    BY <1>1, <2>1, <2>2
  <2>7. t[s].handler # NoHandler
    BY <2>5, <2>6, CallAssumption, NameAssumption DEF IsCall
  <2>8. Search(t, segments) = [handler |-> t[s].handler, params |-> Binding(t, s, segments, L)]
    BY <1>1, <2>3, <2>7, SearchFinds DEF L
  <2>9. Len(s) = L
    BY <2>3 DEF Leads
  <2>10. Binding(t, s, segments, L) = Table!Parameters(m, s, segments)
    BY <2>3, <2>9, SameParameters DEF t
  <2>11. Search(t, segments) = [handler |-> added[i].handler,
                                params |-> Table!Parameters(m, s, segments)]
    BY <2>5, <2>8, <2>10
  <2>12. QED BY <1>6, <2>11 DEF t, M, i, s
<1>7. QED BY <1>5, <1>6

\* The router answers as the table of its registrations, for all routes, paths
\* and methods: static before dynamic, a literal before a parameter, of equal
\* routes the last, and every parameter by its name.
THEOREM AlwaysAnswersAsTable == Spec => []AnswersAsTable
<1>1. ASSUME Registered, NEW m \in Methods, NEW p \in Paths
      PROVE  Resolve(m, p) = Table!AnswerFor(m, p)
  <2> DEFINE St == StaticIn(added, m, p)
             M == Table!Matching(m, p.parts)
             found == [handler |-> added[Table!LastOf(M)].handler,
                       params |-> Table!Parameters(m, Shape(added[Table!LastOf(M)].parts), p.parts)]
  <2>1. /\ p \in DOMAIN static[m] <=> St # {}
        /\ p \in DOMAIN static[m] => static[m][p] = added[Table!LastOf(St)].handler
    BY <1>1 DEF Registered, IsMapOf
  <2>2. Table!AnswerFor(m, p) =
          IF St # {} THEN [handler |-> added[Table!LastOf(St)].handler, params |-> <<>>]
          ELSE IF M # {} THEN found ELSE NotFound
    <3> DEFINE T == {i \in Table!StaticFor(m) : /\ Table!Shape(added[i].parts) = p.parts
                                                /\ added[i].spelling = p.spelling}
               j == Table!LastOf(M)
    <3>1. T = St
      <4>1. {i \in Table!StaticFor(m) : /\ Shape(added[i].parts) = p.parts
                                        /\ added[i].spelling = p.spelling} = St
        BY TableSets
      <4>2. QED BY <4>1, TableRoutes
    <3>2. Table!AnswerFor(m, p) =
            IF T # {} THEN [handler |-> added[Table!LastOf(T)].handler, params |-> <<>>]
            ELSE IF M # {}
            THEN [handler |-> added[j].handler,
                  params |-> Table!Parameters(m, Table!Shape(added[j].parts), p.parts)]
            ELSE Table!NoAnswer
      BY DEF Table!AnswerFor
    <3>3. Table!Shape(added[j].parts) = Shape(added[j].parts)
      BY TableRoutes
    <3>4. Table!NoAnswer = NotFound
      BY DEF Table!NoAnswer, NotFound
    <3> HIDE DEF T, St, M, j
    <3>5. QED BY <3>1, <3>2, <3>3, <3>4 DEF j
  <2>3. Search(dynamic[m], p.parts) = IF M # {} THEN found ELSE NotFound
    BY <1>1, SearchAnswers, PathAssumption
  <2>4. Resolve(m, p) =
          IF p \in DOMAIN static[m] THEN [handler |-> static[m][p], params |-> <<>>]
          ELSE Search(dynamic[m], p.parts)
    BY DEF Resolve
  <2> HIDE DEF St, M, found
  <2>5. QED BY <2>1, <2>2, <2>3, <2>4
<1>2. Registered => AnswersAsTable
  BY <1>1 DEF AnswersAsTable, Table!Answered
<1>3. QED BY <1>2, RegisteredAlways, PTL
=============================================================================
