---------------------------- MODULE HttpResponse ----------------------------
(***************************************************************************)
(* A response as the application builds it and as it is serialized         *)
(* (include/HttpResponse.h).  A response is a record with the fields of    *)
(* the struct.                                                             *)
(*                                                                         *)
(* A run of bytes is [at, text, len]: where it is stored, what it says and *)
(* how long it is.  The bytes of a std::string are stored on the Heap and  *)
(* are the response's own; those of a mapped body are wherever the         *)
(* application's string_view points.                                       *)
(*                                                                         *)
(* A header field's key is a name and one of its spellings: the map of     *)
(* application fields tells spellings apart, HTTP does not.  Keys and      *)
(* values are strings of any bytes: what a line break inside one makes is  *)
(* the set of the lines before the key's last one, and after the value's   *)
(* first one (a blank line, which would end the block, is left out).       *)
(***************************************************************************)
EXTENDS Integers, TLC

CONSTANT Heap   \* where the bytes of a std::string are

Text(text, len) == [at |-> Heap, text |-> text, len |-> len]
NoText          == ""
NoBytes         == Text(NoText, 0)

Framework == "framework"   \* in place of a spelling: the library's own line

\* Keys and values of one line.
Key(name, as) == [name |-> name, as |-> as, lines |-> {}]
Value(text)   == [text |-> text, lines |-> {}]

NewResponse ==
  [status |-> 200, type |-> "text/plain", headers |-> <<>>,
   bodyType |-> "Dynamic", body |-> NoBytes, owned |-> NoBytes,
   mapped |-> NoBytes]

-----------------------------------------------------------------------------
(* Building.                                                               *)

SetStatus(res, code) == [res EXCEPT !.status = code]

SetHeader(res, key, val) == [res EXCEPT !.headers = (key :> val) @@ @]

\* send(): a body copied into the response, whose content type stays.
Send(res, b) == [res EXCEPT !.body = b, !.bodyType = "Dynamic"]

\* json(), html(), text() and image().
SendTyped(res, b, type) == [Send(res, b) EXCEPT !.type = type]

\* Mutant: text() does not say which body is active.
TextBeside(res, b) == [res EXCEPT !.body = b, !.type = "text/plain"]

SendText(res, b) == SendTyped(res, b, "text/plain")

\* html_view() and image_view(): a body that stays where it is.
SendView(res, view, type) ==
  [res EXCEPT !.mapped = view, !.bodyType = "Mapped", !.type = type]

\* The application assigns owned_body and body_type itself.
SendOwned(res, b) == [res EXCEPT !.owned = b, !.bodyType = "Owned"]

-----------------------------------------------------------------------------
(* Serializing.                                                            *)

ActiveBody(res) ==
  CASE res.bodyType = "Dynamic" -> res.body
    [] res.bodyType = "Owned"   -> res.owned
    [] res.bodyType = "Mapped"  -> res.mapped

\* serialize_headers() throws for any other status.
Serializable(status) == status \in 200 .. 599

\* The statuses without a Content-Length.
Bodiless(status) == status \in {204, 304}

\* Mutant: a Connection field of the application is copied.
TransportFieldsButConnection == {"content-length", "transfer-encoding"}

\* Fields of the application that are not copied, in any spelling.
TransportFields == {"content-length", "transfer-encoding", "connection"}

Line(name, as, text, len) == [name |-> name, as |-> as, text |-> text, len |-> len]

\* CaseInsensitiveEqual compares a key as a whole.
Says(key, name) == key.name = name /\ key.lines = {}

CustomType(res) == \E key \in DOMAIN res.headers : Says(key, "content-type")

\* The lines that key + ": " + value is on the wire.
FieldLines(key, val) == key.lines \cup {Line(key.name, key.as, val.text, 0)} \cup val.lines

\* No field of the application has a line break in it.
OneLineFields(res) ==
  \A key \in DOMAIN res.headers : key.lines = {} /\ res.headers[key].lines = {}

\* The header block serialize_headers(close) writes, without its status line.
\* The order of the lines is that of a hash table and means nothing.
SerializeHeaders(res, close) ==
  {Line("connection", Framework, IF close THEN "close" ELSE "keep-alive", 0)}
    \cup (IF CustomType(res) THEN {}
          ELSE {Line("content-type", Framework, res.type, 0)})
    \cup (IF Bodiless(res.status) THEN {}
          ELSE {Line("content-length", Framework, NoText, ActiveBody(res).len)})
    \cup UNION {FieldLines(key, res.headers[key]) :
                  key \in {k \in DOMAIN res.headers :
                            \A name \in TransportFields : ~Says(k, name)}}

\* serialize(close, head): the header block and the body that follows it.
Serialize(res, close, head) ==
  [block |-> SerializeHeaders(res, close),
   payload |-> IF head \/ Bodiless(res.status) THEN NoBytes ELSE ActiveBody(res)]
=============================================================================
