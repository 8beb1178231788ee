--------------------------- MODULE HttpParser_proofs ------------------------
(***************************************************************************)
(* Theorems about parse_headers, for every set of header blocks and all    *)
(* limits.  The argument: what is stored under a name is the value of the  *)
(* first line with that name, and a name that must be unique has one line. *)
(***************************************************************************)
EXTENDS HttpParser, TLAPS

Name(i)  == block.fields[i].name
Value(i) == block.fields[i].value

\* The lines before the next one, and what is stored of them.
Stored ==
  /\ \A i \in 1 .. next - 1 : Name(i) \in DOMAIN headers /\ Value(i).text # "control"
  /\ \A n \in DOMAIN headers :
       \E i \in 1 .. next - 1 :
         /\ Name(i) = n /\ headers[n] = Value(i)
         /\ \A j \in 1 .. next - 1 : Name(j) = n => i <= j
  /\ \A i, j \in 1 .. next - 1 : (Name(i) \in Unique /\ Name(j) = Name(i)) => i = j

Positions ==
  /\ block \in Blocks
  /\ at \in {"start", "fields", "done"}
  /\ next \in 1 .. Len(block.fields) + 1
  /\ at = "start" => next = 1
  /\ at # "done" => status = 0 /\ length = 0 /\ keep = TRUE
  /\ at = "fields" => block.size <= MaxHeaderBytes
  /\ status \in {0, 400, 413, 417, 431, 501, 505}

\* What an accepted block was accepted for.
Verdict ==
  /\ Accepted =>
       /\ next = Len(block.fields) + 1
       /\ block.size <= MaxHeaderBytes
       /\ FieldsStatus = 0
       /\ length = IF Given("content-length")
                   THEN Header("content-length").number ELSE 0
       /\ keep = Persists(block.line.version, Header("connection").tokens)
  /\ ~Accepted => length = 0 /\ keep = TRUE

Parsing == Positions /\ Stored /\ Verdict

-----------------------------------------------------------------------------
\* The shape of a block, from the assumption on Blocks.
LEMMA BlockFacts ==
  ASSUME block \in Blocks
  PROVE  /\ block.size \in Nat
         /\ Len(block.fields) \in Nat
         /\ \A i \in 1 .. Len(block.fields) :
              /\ Value(i) \in Values
              /\ Value(i).text = "empty" => Value(i) = NoField
<1>1. IsBlock(block)
  BY BlockAssumption
<1>2. /\ block.size \in Nat /\ Len(block.fields) \in Nat
      /\ \A i \in 1 .. Len(block.fields) : block.fields[i] \in Fields
  BY <1>1 DEF IsBlock
<1>3. \A f \in Fields : f.value \in Values
  BY DEF Fields
<1>4. \A i \in 1 .. Len(block.fields) : Value(i).text = "empty" => Value(i) = NoField
  BY <1>1 DEF IsBlock, Value
<1>5. QED BY <1>2, <1>3, <1>4 DEF Value

\* A refusal leaves everything but the status as it was.
LEMMA ThrowKeeps ==
  ASSUME Parsing, at # "done", NEW code \in {400, 413, 417, 431, 501, 505}, Throw(code)
  PROVE  Parsing'
<1>1. Positions'
  BY DEF Parsing, Positions, Throw
<1>2. Stored'
  BY DEF Parsing, Stored, Throw, Name, Value
<1>3. Verdict'
  <2>1. length' = 0 /\ keep' = TRUE
    BY DEF Parsing, Positions, Throw
  <2>2. ~Accepted'
    BY DEF Throw, Accepted
  <2>3. QED BY <2>1, <2>2 DEF Verdict
<1>4. QED BY <1>1, <1>2, <1>3 DEF Parsing

\* The request line is accepted or refused.
LEMMA RequestLineStep == Parsing /\ ParseRequestLine => Parsing'
<1> SUFFICES ASSUME Parsing, ParseRequestLine PROVE Parsing'
  OBVIOUS
<1>1. at = "start"
  BY DEF ParseRequestLine
<1>2. ASSUME NEW code \in {400, 431, 505}, Throw(code)
      PROVE  Parsing'
  BY <1>1, <1>2, ThrowKeeps
<1>3. LineStatus(block.line) \in {0, 400, 505}
  BY DEF LineStatus
<1>4. CASE /\ block.size <= MaxHeaderBytes /\ at' = "fields"
           /\ UNCHANGED <<block, next, headers, status, length, keep>>
  <2>1. Positions'
    BY <1>1, <1>4 DEF Parsing, Positions
  <2>2. Stored'
    BY <1>4 DEF Parsing, Stored, Name, Value
  <2>3. Verdict'
    BY <1>1, <1>4 DEF Parsing, Positions, Verdict, Accepted
  <2>4. QED BY <2>1, <2>2, <2>3 DEF Parsing
<1>5. QED BY <1>2, <1>3, <1>4 DEF ParseRequestLine

\* One more line is stored.
LEMMA HeaderLineStep == Parsing /\ ParseHeaderLine => Parsing'
<1> SUFFICES ASSUME Parsing, ParseHeaderLine PROVE Parsing'
  OBVIOUS
<1>1. /\ at = "fields" /\ next \in 1 .. Len(block.fields)
      /\ Len(block.fields) \in Nat /\ next \in Nat /\ next >= 1
  BY BlockFacts DEF Parsing, Positions, ParseHeaderLine
<1>2. CASE Throw(400)
  BY <1>1, <1>2, ThrowKeeps
<1> DEFINE field == block.fields[next]
<1>3. CASE /\ ~Refuses(field) /\ headers' = Put(field) /\ next' = next + 1
           /\ UNCHANGED <<block, at, query, status, length, keep>>
  <2>1. Positions'
    BY <1>1, <1>3 DEF Parsing, Positions
  <2>2. /\ DOMAIN headers' = DOMAIN headers \cup {Name(next)}
        /\ \A n \in DOMAIN headers : headers'[n] = headers[n]
        /\ Name(next) \notin DOMAIN headers => headers'[Name(next)] = Value(next)
    BY <1>3 DEF Put, Name, Value
  <2>3. /\ Value(next).text # "control"
        /\ Name(next) \in Unique => Name(next) \notin DOMAIN headers
    BY <1>3 DEF Refuses, Name, Value
  <2>4. next' - 1 = next /\ \A i : i \in 1 .. next <=> i \in 1 .. next - 1 \/ i = next
    BY <1>1, <1>3
  <2>5. \A i : Name(i)' = Name(i) /\ Value(i)' = Value(i)
    BY <1>3 DEF Name, Value
  <2>6. \A i \in 1 .. next : Name(i) \in DOMAIN headers' /\ Value(i).text # "control"
    BY <2>2, <2>3, <2>4 DEF Parsing, Stored
  <2>7. ASSUME NEW n \in DOMAIN headers'
        PROVE  \E i \in 1 .. next :
                 /\ Name(i) = n /\ headers'[n] = Value(i)
                 /\ \A j \in 1 .. next : Name(j) = n => i <= j
    <3>1. CASE n \in DOMAIN headers
      <4>1. PICK i \in 1 .. next - 1 :
              /\ Name(i) = n /\ headers[n] = Value(i)
              /\ \A j \in 1 .. next - 1 : Name(j) = n => i <= j
        BY <3>1 DEF Parsing, Stored
      <4>2. i <= next /\ i \in 1 .. next
        BY <1>1
      <4>3. QED BY <2>2, <2>4, <3>1, <4>1, <4>2
    <3>2. CASE n \notin DOMAIN headers
      <4>1. n = Name(next) /\ headers'[n] = Value(next)
        BY <2>2, <3>2
      <4>2. \A j \in 1 .. next - 1 : Name(j) # n
        BY <3>2 DEF Parsing, Stored
      <4>3. next \in 1 .. next /\ next <= next
        BY <1>1
      <4>4. QED BY <2>4, <4>1, <4>2, <4>3
    <3>3. QED BY <3>1, <3>2
  <2>8. ASSUME NEW i \in 1 .. next, NEW j \in 1 .. next,
               Name(i) \in Unique, Name(j) = Name(i)
        PROVE  i = j
    <3>1. \A k \in 1 .. next - 1 : Name(k) \in DOMAIN headers
      BY DEF Parsing, Stored
    <3>2. QED BY <2>3, <2>4, <2>8, <3>1 DEF Parsing, Stored
  <2>9. Stored'
    BY <2>4, <2>5, <2>6, <2>7, <2>8 DEF Stored
  <2>10. Verdict'
    BY <1>1, <1>3 DEF Parsing, Positions, Verdict, Accepted
  <2>11. QED BY <2>1, <2>9, <2>10 DEF Parsing
<1>4. QED BY <1>2, <1>3 DEF ParseHeaderLine

\* The checks on the whole set of fields decide.
LEMMA FinishStep == Parsing /\ Finish => Parsing'
<1> SUFFICES ASSUME Parsing, Finish PROVE Parsing'
  OBVIOUS
<1>1. /\ at = "fields" /\ next = Len(block.fields) + 1
      /\ block.size <= MaxHeaderBytes
  BY BlockFacts DEF Parsing, Positions, Finish
<1>2. CASE FieldsStatus # 0 /\ Throw(FieldsStatus)
  <2>1. FieldsStatus \in {0, 400, 413, 417, 501}
    BY DEF FieldsStatus, LengthStatus
  <2>2. QED BY <1>1, <1>2, <2>1, ThrowKeeps
<1>3. CASE /\ FieldsStatus = 0 /\ at' = "done"
           /\ length' = IF Given("content-length")
                        THEN Header("content-length").number ELSE 0
           /\ keep' = Persists(block.line.version, Header("connection").tokens)
           /\ UNCHANGED <<block, next, headers, query, status>>
  <2>1. Positions'
    BY <1>1, <1>3 DEF Parsing, Positions
  <2>2. Stored'
    BY <1>3 DEF Parsing, Stored, Name, Value
  <2>3. /\ FieldsStatus' = FieldsStatus /\ Given("content-length")' = Given("content-length")
        /\ Header("content-length")' = Header("content-length")
        /\ Header("connection")' = Header("connection")
    BY <1>3 DEF FieldsStatus, Given, Header
  <2>4. Verdict'
    BY <1>1, <1>3, <2>3 DEF Parsing, Positions, Verdict, Accepted
  <2>5. QED BY <2>1, <2>2, <2>4 DEF Parsing
<1>4. QED BY <1>2, <1>3 DEF Finish

LEMMA ParsingInit == Init => Parsing
<1> SUFFICES ASSUME Init PROVE Parsing
  OBVIOUS
<1>1. block \in Blocks /\ Len(block.fields) \in Nat
  BY BlockFacts DEF Init
<1>2. Positions
  BY <1>1 DEF Init, Positions
<1>3. DOMAIN headers = {} /\ 1 .. next - 1 = {}
  BY DEF Init
<1>4. Stored
  BY <1>3 DEF Stored
<1>5. Verdict
  BY DEF Init, Verdict, Accepted
<1>6. QED BY <1>2, <1>4, <1>5 DEF Parsing

\* The invariant holds in every state of every parse.
LEMMA ParsingInvariant == Spec => []Parsing
<1>1. ASSUME Parsing, UNCHANGED vars
      PROVE  Parsing'
  BY <1>1 DEF vars, Parsing, Positions, Stored, Verdict, Accepted, Name, Value,
              FieldsStatus, Given, Header
<1>2. Parsing /\ [Next]_vars => Parsing'
  BY <1>1, RequestLineStep, HeaderLineStep, FinishStep DEF Next
<1>3. QED BY <1>2, ParsingInit, PTL DEF Spec

-----------------------------------------------------------------------------
\* What is stored under a name with a single line is the value of that line,
\* and nothing is stored under a name without lines.
LEMMA StoredIsTheLine ==
  ASSUME Parsing, Accepted, NEW n \in Unique
  PROVE  /\ \A i \in LinesOf(n) : Header(n) = Value(i) /\ Value(i).text # "control"
         /\ LinesOf(n) = {} => Header(n) = NoField
<1>1. next - 1 = Len(block.fields)
  BY BlockFacts DEF Parsing, Positions, Verdict
<1>2. ASSUME NEW i \in LinesOf(n)
      PROVE  Header(n) = Value(i) /\ Value(i).text # "control"
  <2>1. i \in 1 .. next - 1 /\ Name(i) = n
    BY <1>1, <1>2 DEF LinesOf, Name
  <2>2. n \in DOMAIN headers /\ Value(i).text # "control"
    BY <2>1 DEF Parsing, Stored
  <2>3. PICK j \in 1 .. next - 1 : Name(j) = n /\ headers[n] = Value(j)
    BY <2>2 DEF Parsing, Stored
  <2>4. j = i
    BY <2>1, <2>3 DEF Parsing, Stored
  <2>5. QED BY <2>2, <2>3, <2>4 DEF Header
<1>3. ASSUME LinesOf(n) = {}
      PROVE  Header(n) = NoField
  <2>1. n \notin DOMAIN headers
    BY <1>1, <1>3 DEF Parsing, Stored, LinesOf, Name
  <2>2. QED BY <2>1 DEF Header
<1>4. QED BY <1>2, <1>3

\* OneLength: an accepted block speaks of the length of its body once at most,
\* and the length is what it says there.
THEOREM AcceptedBodyHasOneLength == Spec => []OneLength
<1>1. Parsing => OneLength
  <2> SUFFICES ASSUME Parsing, Accepted
               PROVE  /\ \A i, j \in LinesOf("content-length") : i = j
                      /\ \A i \in LinesOf("content-length") :
                           Value(i).text # "empty" => /\ Value(i).text = "good"
                                                     /\ length = Value(i).number
                      /\ (\A i \in LinesOf("content-length") : Value(i).text = "empty")
                           => length = 0
                      /\ \A i \in LinesOf("transfer-encoding") : Value(i).text = "empty"
    BY DEF OneLength, Value
  <2> DEFINE cl == Header("content-length")
             te == Header("transfer-encoding")
  <2>1. /\ FieldsStatus = 0 /\ block \in Blocks
        /\ length = IF cl.text # "empty" THEN cl.number ELSE 0
    BY DEF Parsing, Positions, Verdict, Given
  <2>2. /\ te.text = "empty"
        /\ cl.text # "empty" => cl.text # "bad"
    BY <2>1 DEF FieldsStatus, LengthStatus, Given
  <2>3. "content-length" \in Unique /\ "transfer-encoding" \in Unique
    BY DEF Unique
  <2>4. ASSUME NEW i \in LinesOf("content-length"), Value(i).text # "empty"
        PROVE  Value(i).text = "good" /\ length = Value(i).number
    <3>1. cl = Value(i) /\ Value(i).text # "control"
      BY <2>3, StoredIsTheLine
    <3>2. Value(i) \in Values
      BY <2>1, BlockFacts DEF LinesOf
    <3>3. Value(i).text \in {"empty", "control", "good", "bad"}
      BY <3>2 DEF Values
    <3> HIDE DEF cl
    <3>4. QED BY <2>1, <2>2, <2>4, <3>1, <3>3
  <2>5. ASSUME \A i \in LinesOf("content-length") : Value(i).text = "empty"
        PROVE  length = 0
    <3>1. CASE LinesOf("content-length") = {}
      <4>1. cl = NoField
        BY <2>3, <3>1, StoredIsTheLine
      <4>2. QED BY <2>1, <4>1 DEF NoField
    <3>2. ASSUME NEW i \in LinesOf("content-length") PROVE length = 0
      <4>1. cl = Value(i)
        BY <2>3, StoredIsTheLine
      <4>2. QED BY <2>1, <2>5, <4>1
    <3>3. QED BY <3>1, <3>2
  <2>6. ASSUME NEW i \in LinesOf("transfer-encoding")
        PROVE  Value(i).text = "empty"
    <3>1. te = Value(i)
      BY <2>3, StoredIsTheLine
    <3>2. QED BY <2>2, <3>1
  <2>7. ASSUME NEW i \in LinesOf("content-length"), NEW j \in LinesOf("content-length")
        PROVE  i = j
    <3>1. next - 1 = Len(block.fields)
      BY <2>1, BlockFacts DEF Parsing, Positions, Verdict
    <3>2. /\ i \in 1 .. next - 1 /\ Name(i) = "content-length"
          /\ j \in 1 .. next - 1 /\ Name(j) = "content-length"
      BY <3>1 DEF LinesOf, Name
    <3>3. QED BY <2>3, <3>2 DEF Parsing, Stored
  <2>8. QED BY <2>4, <2>5, <2>6, <2>7
<1>2. QED BY <1>1, ParsingInvariant, PTL

\* The length that is accepted is a natural number within its limit.
LEMMA AcceptedLength ==
  ASSUME Parsing, Accepted
  PROVE  length \in Nat /\ length <= MaxBodyBytes
<1> DEFINE cl == Header("content-length")
<1>1. /\ FieldsStatus = 0 /\ block \in Blocks /\ block.size <= MaxHeaderBytes
      /\ length = IF cl.text # "empty" THEN cl.number ELSE 0
  BY DEF Parsing, Positions, Verdict, Given
<1>2. cl.text # "empty" => LengthStatus(cl) = 0
  BY <1>1 DEF FieldsStatus, Given
<1>3. cl \in Values
  <2>1. CASE "content-length" \in DOMAIN headers
    <3>1. PICK i \in 1 .. next - 1 : headers["content-length"] = Value(i)
      BY <2>1 DEF Parsing, Stored
    <3>2. i \in 1 .. Len(block.fields)
      BY BlockFacts DEF Parsing, Positions, Verdict
    <3>3. QED BY <1>1, <2>1, <3>1, <3>2, BlockFacts DEF Header
  <2>2. CASE "content-length" \notin DOMAIN headers
    BY <2>2 DEF Header, NoField, Values
  <2>3. QED BY <2>1, <2>2
<1>4. cl.number \in Nat
  BY <1>3 DEF Values
<1> HIDE DEF cl
<1>5. MaxBodyBytes \in Nat /\ MaxHeaderBytes \in Nat /\ SizeMax \in Nat
      /\ MaxBodyBytes <= SizeMax - MaxHeaderBytes
  BY LimitsAssumption DEF Validated
<1>6. QED
  <2>1. CASE cl.text = "empty"
    BY <1>1, <1>5, <2>1
  <2>2. CASE cl.text # "empty"
    <3>1. ~(cl.number > MaxBodyBytes)
      BY <1>2, <2>2 DEF LengthStatus, BodyTooLarge
    <3>2. QED BY <1>1, <1>4, <1>5, <2>2, <3>1
  <2>3. QED BY <2>1, <2>2

\* WithinLimits: the sum the connection computes of an accepted request is the
\* true one, and each part is within its limit.
THEOREM AcceptedRequestIsWithinLimits == Spec => []WithinLimits
<1>1. Parsing => WithinLimits
  <2> SUFFICES ASSUME Parsing, Accepted
               PROVE  /\ block.size <= MaxHeaderBytes /\ length <= MaxBodyBytes
                      /\ SizeSum(block.size, length) = block.size + length
    BY DEF WithinLimits
  <2>1. length \in Nat /\ length <= MaxBodyBytes
    BY AcceptedLength
  <2>2. block.size \in Nat /\ block.size <= MaxHeaderBytes
    BY BlockFacts DEF Parsing, Positions, Verdict
  <2>3. MaxBodyBytes \in Nat /\ MaxHeaderBytes \in Nat /\ SizeMax \in Nat
        /\ MaxBodyBytes <= SizeMax - MaxHeaderBytes
    BY LimitsAssumption DEF Validated
  <2>4. \A d \in Nat : \A x \in 0 .. d : x % (d + 1) = x
    OBVIOUS
  <2>5. block.size + length \in 0 .. SizeMax
    BY <2>1, <2>2, <2>3
  <2>6. QED BY <2>1, <2>2, <2>3, <2>4, <2>5 DEF SizeSum
<1>2. QED BY <1>1, ParsingInvariant, PTL

\* What is stored under Connection is its first field line.
LEMMA AskedIsStored ==
  ASSUME Parsing, Accepted
  PROVE  Asked = Header("connection").tokens
<1> DEFINE lines == LinesOf("connection")
           first == {i \in lines : \A j \in lines : i <= j}
<1>1. next - 1 = Len(block.fields) /\ next \in Int
  BY BlockFacts DEF Parsing, Positions, Verdict
<1>2. \A i : i \in lines <=> i \in 1 .. next - 1 /\ Name(i) = "connection"
  BY <1>1 DEF LinesOf, Name
<1>3. Asked = UNION {Value(i).tokens : i \in first}
  BY DEF Asked, Value
<1>4. CASE "connection" \in DOMAIN headers
  <2>1. PICK k \in 1 .. next - 1 :
          /\ Name(k) = "connection" /\ headers["connection"] = Value(k)
          /\ \A j \in 1 .. next - 1 : Name(j) = "connection" => k <= j
    BY <1>4 DEF Parsing, Stored
  <2>2. k \in first
    BY <1>2, <2>1
  <2>3. \A i \in first : i = k
    <3> SUFFICES ASSUME NEW i \in first PROVE i = k
      OBVIOUS
    <3>1. i \in 1 .. next - 1 /\ i <= k /\ k <= i
      BY <1>2, <2>1, <2>2
    <3>2. QED BY <1>1, <3>1
  <2> HIDE DEF first
  <2>4. {Value(i).tokens : i \in first} = {Value(k).tokens}
    BY <2>2, <2>3
  <2>5. Asked = Value(k).tokens
    BY <1>3, <2>4
  <2>6. QED BY <1>4, <2>1, <2>5 DEF Header
<1>5. CASE "connection" \notin DOMAIN headers
  <2>1. lines = {}
    BY <1>2, <1>5 DEF Parsing, Stored
  <2>2. Asked = {}
    BY <1>3, <2>1
  <2>3. QED BY <1>5, <2>2 DEF Header, NoField
<1>6. QED BY <1>4, <1>5

\* PersistenceAgrees: what the first Connection field asks for decides, and the
\* version where it asks for nothing or is missing.
THEOREM PersistenceAlwaysAgrees == Spec => []PersistenceAgrees
<1>1. Parsing => PersistenceAgrees
  <2> SUFFICES ASSUME Parsing, Accepted
               PROVE  /\ "close" \in Asked => ~keep
                      /\ ("keep-alive" \in Asked /\ "close" \notin Asked) => keep
                      /\ Asked = {} => (keep <=> block.line.version = "1.1")
    BY DEF PersistenceAgrees
  <2>1. keep = Persists(block.line.version, Asked)
    BY AskedIsStored DEF Parsing, Verdict
  <2>2. QED BY <2>1, Zenon DEF Persists
<1>2. QED BY <1>1, ParsingInvariant, PTL

\* TypeOK.
THEOREM ParserTypes == Spec => []TypeOK
<1>1. Parsing => TypeOK
  <2> SUFFICES ASSUME Parsing PROVE TypeOK
    OBVIOUS
  <2> USE DEF Parsing
  <2>1. ASSUME NEW n \in DOMAIN headers
        PROVE  headers[n] \in Values
    <3>1. PICK i \in 1 .. next - 1 : headers[n] = Value(i)
      BY DEF Stored
    <3>2. i \in 1 .. Len(block.fields)
      BY BlockFacts DEF Positions
    <3>3. QED BY <3>1, <3>2, BlockFacts DEF Positions
  <2>2. keep \in BOOLEAN
    BY DEF Verdict, Persists
  <2>3. length \in 0 .. SizeMax
    <3>1. MaxBodyBytes \in Nat /\ MaxHeaderBytes \in Nat /\ SizeMax \in Nat
          /\ MaxBodyBytes <= SizeMax - MaxHeaderBytes
      BY LimitsAssumption DEF Validated
    <3>2. length \in Nat /\ length <= MaxBodyBytes
      <4>1. CASE Accepted
        BY <4>1, AcceptedLength
      <4>2. CASE ~Accepted
        BY <3>1, <4>2 DEF Verdict
      <4>3. QED BY <4>1, <4>2
    <3>3. QED BY <3>1, <3>2
  <2>4. QED BY <2>1, <2>2, <2>3 DEF TypeOK, Positions
<1>2. QED BY <1>1, ParsingInvariant, PTL
=============================================================================
