---------------------------- MODULE MCHttpParser ----------------------------
(***************************************************************************)
(* Header blocks of up to three field lines, among them repeated, empty,   *)
(* malformed and contradictory ones, under limits of 6 header and 3 body   *)
(* bytes and a std::size_t of 0 .. 15.                                     *)
(***************************************************************************)
EXTENDS HttpParser

Value(text, n, tokens) == [text |-> text, number |-> n, tokens |-> tokens]
Field(name, value)     == [name |-> name, value |-> value]

EmptyValue == Value("empty", 0, {})
GoodValue == Value("good", 0, {})
BadValue == Value("bad", 0, {})

FieldLines ==
  {Field("", GoodValue), Field("junk", GoodValue), Field("x", Value("control", 0, {})),
   Field("host", GoodValue), Field("host", BadValue), Field("host", EmptyValue),
   Field("content-length", EmptyValue), Field("content-length", BadValue),
   Field("transfer-encoding", EmptyValue), Field("transfer-encoding", GoodValue),
   Field("expect", GoodValue)}
  \cup {Field("content-length", Value("good", n, {})) : n \in {2, 3, 4, 16}}
  \cup {Field("connection", Value("good", 0, t)) : t \in SUBSET {"keep-alive", "close"}}

FieldLists ==
  {<<>>} \cup {<<f>> : f \in FieldLines} \cup {<<f, g>> : f, g \in FieldLines}
  \cup {<<Field("host", GoodValue), f, g>> : f, g \in FieldLines}

Pair(k, has, v) == [key |-> k, hasValue |-> has, value |-> v]

Line(spaces, token, version, target, options, pairs) ==
  [spaces |-> spaces, token |-> token, version |-> version, target |-> target,
   options |-> options, query |-> pairs]

PlainLine == Line(2, TRUE, "1.1", "path", FALSE, <<>>)

RequestLines ==
  {PlainLine,
   [PlainLine EXCEPT !.version = "1.0"], [PlainLine EXCEPT !.version = "other"],
   [PlainLine EXCEPT !.token = FALSE], [PlainLine EXCEPT !.spaces = 1],
   [PlainLine EXCEPT !.target = "star"], [PlainLine EXCEPT !.target = "bad"],
   [PlainLine EXCEPT !.target = "star", !.options = TRUE],
   [PlainLine EXCEPT !.query =
      <<Pair("q", TRUE, "b"), Pair("q", FALSE, ""), Pair("q", TRUE, "c")>>]}

BlockOf(size, terminated, line, fields) ==
  [size |-> size, terminated |-> terminated, line |-> line, fields |-> fields]

\* All field lists after a plain request line of either version, and all
\* request lines before a plain list.
MCBlocks ==
  {BlockOf(6, TRUE, line, f) : f \in FieldLists,
     line \in {PlainLine, [PlainLine EXCEPT !.version = "1.0"]}}
  \cup {BlockOf(n, t, line, <<Field("host", GoodValue)>>) :
          n \in {6, 7}, t \in BOOLEAN, line \in RequestLines}
=============================================================================
