----------------------------- MODULE HttpParser -----------------------------
(***************************************************************************)
(* HttpParser::parse_headers (include/HttpParser.h): one header block, one *)
(* line after the other, into a request or a status to refuse it with.     *)
(*                                                                         *)
(* A header block is the outcome of splitting its bytes:                   *)
(*   size        its length in bytes                                       *)
(*   terminated  it ends with an empty line                                *)
(*   line        the request line: the number of its spaces (up to two     *)
(*               matter), whether the method is a token, the version, the  *)
(*               kind of target and the pairs of its query                 *)
(*   fields      the field lines, each a name and a value                  *)
(* A name is "" for a line without a colon and "junk" for one that is not  *)
(* a token; two names that differ in case are the same name.  A value is   *)
(* already trimmed: empty, with a control character, or one that the check *)
(* of its own field accepts ("good") or not ("bad"); a Content-Length of   *)
(* digits has a number and a Connection field a set of tokens.  Cookies    *)
(* and the content type, which no check reads, are left out.               *)
(***************************************************************************)
EXTENDS HttpLimits, Sequences

CONSTANTS Blocks   \* the header blocks a client may send

Values == [text : {"empty", "control", "good", "bad"}, number : Nat,
           tokens : SUBSET {"keep-alive", "close"}]

Fields == [name : STRING, value : Values]
Pairs  == [key : STRING, hasValue : BOOLEAN, value : STRING]
Lines  == [spaces : 0 .. 2, token : BOOLEAN, version : {"1.0", "1.1", "other"},
           target : {"path", "star", "bad"}, options : BOOLEAN, query : Seq(Pairs)]

\* What stands for a missing field: an empty value has no number and no tokens.
NoField == [text |-> "empty", number |-> 0, tokens |-> {}]

IsBlock(b) ==
  /\ b.size \in Nat /\ b.terminated \in BOOLEAN
  /\ b.line \in Lines /\ b.fields \in Seq(Fields)
  /\ \A i \in 1 .. Len(b.fields) :
       b.fields[i].value.text = "empty" => b.fields[i].value = NoField

ASSUME BlockAssumption == \A b \in Blocks : IsBlock(b)

VARIABLES
  block,    \* raw
  at,       \* where the parser is: "start", "fields" or "done"
  next,     \* the number of the next field line
  headers,  \* req.headers: the values by name
  query,    \* req.query
  status,   \* the status thrown, 0 for none
  length,   \* req.content_length
  keep      \* req.keep_alive

vars == <<block, at, next, headers, query, status, length, keep>>

-----------------------------------------------------------------------------
\* req.header(name): an empty value stands for a missing field.
Header(name) == IF name \in DOMAIN headers THEN headers[name] ELSE NoField
Given(name)  == Header(name).text # "empty"

\* The fields that may not be repeated.
Unique == {"content-length", "host", "transfer-encoding"}

Throw(code) ==
  /\ at' = "done"
  /\ status' = code
  /\ UNCHANGED <<block, next, headers, query, length, keep>>

\* parseRequestLine(): the status it throws.
LineStatus(line) ==
  IF line.spaces = 0 \/ ~line.token \/ line.spaces = 1 THEN 400
  ELSE IF line.version = "other" THEN 505
  ELSE IF line.target = "bad" \/ (line.target = "star" /\ ~line.options) THEN 400
  ELSE 0

\* parseQueryString(): the last value of a key, as it was sent.
QueryOf(pairs) ==
  LET given == {i \in 1 .. Len(pairs) : pairs[i].hasValue}
      last(k) == CHOOSE i \in given : /\ pairs[i].key = k
                                      /\ \A j \in given : pairs[j].key = k => j <= i
  IN [k \in {pairs[i].key : i \in given} |-> pairs[last(k)].value]

\* The size, the end of the block and the request line.
ParseRequestLine ==
  /\ at = "start"
  /\ \/ block.size > MaxHeaderBytes /\ Throw(431)
     \/ block.size <= MaxHeaderBytes /\ ~block.terminated /\ Throw(400)
     \/ /\ block.size <= MaxHeaderBytes /\ block.terminated
        /\ LineStatus(block.line) # 0
        /\ Throw(LineStatus(block.line))
     \/ /\ block.size <= MaxHeaderBytes /\ block.terminated
        /\ LineStatus(block.line) = 0
        /\ at' = "fields"
        /\ query' = QueryOf(block.line.query)
        /\ UNCHANGED <<block, next, headers, status, length, keep>>

\* Mutant: a repeated field is ignored, whatever it is.
RefusesNoRepeat(field) == field.name \in {"", "junk"} \/ field.value.text = "control"

\* parseHeaderLine() throws: no colon, not a token, a control character, or a
\* repeated field that must be unique.
Refuses(field) ==
  \/ field.name \in {"", "junk"}
  \/ field.value.text = "control"
  \/ field.name \in DOMAIN headers /\ field.name \in Unique

\* try_emplace(): the first value of a name counts.
Put(field) ==
  [n \in DOMAIN headers \cup {field.name} |->
     IF n \in DOMAIN headers THEN headers[n] ELSE field.value]

ParseHeaderLine ==
  /\ at = "fields"
  /\ next <= Len(block.fields)
  /\ LET field == block.fields[next]
     IN \/ Refuses(field) /\ Throw(400)
        \/ /\ ~Refuses(field)
           /\ headers' = Put(field)
           /\ next' = next + 1
           /\ UNCHANGED <<block, at, query, status, length, keep>>

\* Mutant: one byte too many.
BodyTooLargeByTwo(n) == n > MaxBodyBytes + 1

BodyTooLarge(n) == n > MaxBodyBytes

\* Mutant: what from_chars reports is not looked at.
LengthUnchecked(value) == IF value.text = "bad" THEN 400 ELSE 0

\* Content-Length: the status thrown for it.  from_chars reports a number that
\* std::size_t does not hold.
LengthStatus(value) ==
  IF value.text = "bad" \/ value.number > SizeMax THEN 400
  ELSE IF BodyTooLarge(value.number) THEN 413
  ELSE 0

\* The checks on the complete set of fields: the first that fails.
FieldsStatus ==
  IF block.line.version = "1.1" /\ ~Given("host") THEN 400
  ELSE IF Given("host") /\ Header("host").text = "bad" THEN 400
  ELSE IF Given("transfer-encoding") THEN IF Given("content-length") THEN 400 ELSE 501
  ELSE IF Given("content-length") /\ LengthStatus(Header("content-length")) # 0
  THEN LengthStatus(Header("content-length"))
  ELSE IF Given("expect") THEN 417
  ELSE 0

\* Mutant: a request to keep the connection wins over one to close it.
PersistsUnlessOld(version, tokens) ==
  "keep-alive" \in tokens \/ (version = "1.1" /\ "close" \notin tokens)

\* The connection persists after the response.
Persists(version, tokens) ==
  "close" \notin tokens /\ (version = "1.1" \/ "keep-alive" \in tokens)

Finish ==
  /\ at = "fields"
  /\ next > Len(block.fields)
  /\ \/ FieldsStatus # 0 /\ Throw(FieldsStatus)
     \/ /\ FieldsStatus = 0
        /\ at' = "done"
        /\ length' = IF Given("content-length")
                     THEN Header("content-length").number ELSE 0
        /\ keep' = Persists(block.line.version, Header("connection").tokens)
        /\ UNCHANGED <<block, next, headers, query, status>>

Init ==
  /\ block \in Blocks
  /\ at = "start" /\ next = 1
  /\ headers = <<>> /\ query = <<>>
  /\ status = 0 /\ length = 0 /\ keep = TRUE

Next == ParseRequestLine \/ ParseHeaderLine \/ Finish

Spec == Init /\ [][Next]_vars

-----------------------------------------------------------------------------
(* Properties.                                                             *)

Accepted == at = "done" /\ status = 0

\* The field lines of the block with name n.
LinesOf(n) == {i \in 1 .. Len(block.fields) : block.fields[i].name = n}

\* Types: the position stays within the block, and a status is one of those
\* the transport knows how to answer.
TypeOK ==
  /\ block \in Blocks
  /\ at \in {"start", "fields", "done"}
  /\ next \in 1 .. Len(block.fields) + 1
  /\ \A n \in DOMAIN headers : headers[n] \in Values
  /\ status \in {0, 400, 413, 417, 431, 501, 505}
  /\ length \in 0 .. SizeMax /\ keep \in BOOLEAN

\* The body of an accepted request has one possible length, whatever the block
\* repeats: one field line at most speaks of it, the number it gives is the
\* length, and no transfer coding is named.  A field line with an empty value
\* gives no number; that it should not be accepted at all is LengthIsNumber for
\* Content-Length, and README.md:53 for Transfer-Encoding.
OneLength ==
  Accepted =>
    /\ \A i, j \in LinesOf("content-length") : i = j
    /\ \A i \in LinesOf("content-length") :
         block.fields[i].value.text # "empty" =>
           /\ block.fields[i].value.text = "good"
           /\ length = block.fields[i].value.number
    /\ (\A i \in LinesOf("content-length") : block.fields[i].value.text = "empty")
         => length = 0
    /\ \A i \in LinesOf("transfer-encoding") : block.fields[i].value.text = "empty"

\* The header block and the body of an accepted request, and their sum, are
\* within what the buffer of a connection is dimensioned for.
WithinLimits ==
  Accepted =>
    /\ block.size <= MaxHeaderBytes /\ length <= MaxBodyBytes
    /\ SizeSum(block.size, length) = block.size + length

\* What the client's first Connection field asks for, nothing without one.
Asked ==
  LET lines == LinesOf("connection")
      first == {i \in lines : \A j \in lines : i <= j}
  IN UNION {block.fields[i].value.tokens : i \in first}

\* The connection outlives an accepted request exactly when the client asks for
\* it: "close" ends it whatever else is asked, "keep-alive" keeps it, and
\* without either the version decides.
PersistenceAgrees ==
  Accepted =>
    /\ "close" \in Asked => ~keep
    /\ ("keep-alive" \in Asked /\ "close" \notin Asked) => keep
    /\ Asked = {} => (keep <=> block.line.version = "1.1")

-----------------------------------------------------------------------------
(* What the documentation says, and the code does not do.                  *)

\* tests/http_parser.cpp:22, where the empty one is among the Content-Length
\* values that a request is refused for.
LengthIsNumber ==
  Accepted => \A i \in LinesOf("content-length") : block.fields[i].value.text = "good"
=============================================================================
