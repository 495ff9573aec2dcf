----------------------------- MODULE HttpParser -----------------------------
(***************************************************************************)
(* HttpRequestParser and HttpResponseParser (HttpParser.cpp): execute on   *)
(* one buffer after another, the marks the generated scanners set, and the *)
(* callbacks that turn marks into tokens.                                  *)
(*                                                                         *)
(* Positions are abstracted.  A mark is the set of tokens of the message   *)
(* (see HttpTokens) that begin exactly where it points; a callback reports *)
(* the right bytes when its mark points to the token's first byte and the  *)
(* byte being scanned delimits it.  That keeps the model finite for        *)
(* messages of any length, cut into buffers in any way.                    *)
(***************************************************************************)
EXTENDS RequestMachine, HttpTokens

Resp == INSTANCE ResponseMachine

CONSTANT Kinds      \* the parsers explored: a subset of {"request", "response"}
ASSUME KindsAssumption == Kinds \subseteq {"request", "response"}

VARIABLES kind,     \* which of the two parsers this is
          relaxed,  \* http_parser.uri_relaxed, which http_parser_init leaves unset
          cs,       \* the scanner's state
          ptr,      \* mark, field_start, query_start: the tokens that begin there
          flen,     \* field_len: "zero", "name" (the name's length) or "cut"
          call,     \* "idle", "start" (execute entered), "scan" (some bytes scanned)
          m_error,  \* m_error is not 0
          out,      \* what the callbacks of the last byte reported
          ref,      \* HttpTokens: phase, open and unsplit tokens, last value empty
          ended     \* done has run

parserVars == <<kind, relaxed, cs, ptr, flen, call, m_error, out, ref, ended>>

Marks == {"mark", "field_start", "query_start"}
Unset == [m \in Marks |-> {}]
StartOf(k) == IF k = "request" THEN Start ELSE Resp!Start
ErrorOf(k) == IF k = "request" THEN Error ELSE Resp!Error
ScanOf(b) == IF kind = "request" THEN Scan(cs, b, relaxed) ELSE Resp!Scan(cs, b)
SplitOf(b) == IF kind = "request" THEN RequestSplit(ref.phase, b, b \in Alpha, b \in SchemeChar)
              ELSE ResponseSplit(ref.phase, b)
RefStart == [phase |-> "start", open |-> {}, whole |-> {}, empty |-> FALSE]

\* The constructors: http_parser_init leaves uri_relaxed as it finds it.
Init ==
    /\ kind \in Kinds
    /\ relaxed \in IF kind = "request" THEN BOOLEAN ELSE {FALSE}
    /\ cs = StartOf(kind)
    /\ ptr = Unset /\ flen = "zero"
    /\ call = "idle" /\ m_error = FALSE
    /\ out = {} /\ ref = RefStart /\ ended = FALSE

hasError == m_error \/ cs = ErrorOf(kind)
\* Variant of isFinished that knows the end of a header only.
isFinishedHeader == cs = IF kind = "request" THEN Finished ELSE Resp!Finished
isFinished == IF kind = "request" THEN cs \in {Finished, SocketFinished} ELSE cs = Resp!Finished

\* What a new buffer does to the marks: mark, field_start and field_len go to
\* 0; query_start keeps an index into the buffer that is gone.
ResetMarks == ptr' = Unset /\ flen' = "zero"

\* A call of execute with a new, non-empty buffer.  A token that is open is
\* split by it.
Execute ==
    /\ call = "idle" /\ ~hasError /\ ~isFinished
    /\ call' = "start"
    /\ ResetMarks
    /\ ref' = [ref EXCEPT !.whole = @ \ ref.open]
    /\ out' = {}
    /\ UNCHANGED <<kind, relaxed, cs, m_error, ended>>

\* HttpResponseParser::execute with chunck set: the scanner starts over.
ExecuteChunk ==
    /\ kind = "response" /\ call = "idle" /\ ~m_error
    /\ call' = "start"
    /\ ResetMarks
    /\ cs' = Resp!Start /\ ref' = RefStart /\ ended' = FALSE
    /\ out' = {}
    /\ UNCHANGED <<kind, relaxed, m_error>>

---------------------------------------------------------------------------
(* The actions of the scanner on one byte.                                 *)

\* Variant of MarkSet without the mark of a field's value.
MarkSetNoValue(do) ==
    (IF "mark" \in do THEN {"mark"} ELSE {})
    \cup (IF "start_field" \in do THEN {"field_start"} ELSE {})
    \cup (IF "start_query" \in do THEN {"query_start"} ELSE {})

\* Which mark an action sets.
MarkSet(do) ==
    (IF do \cap {"mark", "start_value"} # {} THEN {"mark"} ELSE {})
    \cup (IF "start_field" \in do THEN {"field_start"} ELSE {})
    \cup (IF "start_query" \in do THEN {"query_start"} ELSE {})

\* The marks that point to the byte being scanned: those set now, and those
\* execute has just set to 0.
MarksHere(do) == MarkSet(do) \cup IF call = "start" THEN {"mark", "field_start"} ELSE {}

MarksAfter(do, begins) ==
    [m \in Marks |-> IF m \in MarksHere(do) THEN begins ELSE ptr[m] \ begins]

\* write_field: the length of the name so far.
FieldLength(do, marks) ==
    CASE "write_field" \notin do -> flen
      [] "write_field" \in do /\ "field_start" \in MarksHere(do) -> "zero"
      [] "write_field" \in do /\ "name" \in marks["field_start"] -> "name"
      [] OTHER -> "cut"

\* The token each callback reports and the mark it starts from.
Callback == [request_method |-> <<"method", "mark">>, request_path |-> <<"path", "mark">>,
             request_uri |-> <<"uri", "mark">>, query_string |-> <<"query", "query_start">>,
             fragment |-> <<"fragment", "mark">>, http_version |-> <<"version", "mark">>,
             write_value |-> <<"field", "mark">>, write_content_len |-> <<"value", "mark">>,
             status_code |-> <<"status", "mark">>, reason_phrase |-> <<"reason", "mark">>,
             chunk_size |-> <<"chunk", "mark">>]

\* What callback c reports: `end', the byte delimits its token; `right', the
\* mark is at the token's first byte (and, for a field, so is field_start,
\* with the name's length); `zero', its length is 0; `whole', the token lies
\* in one buffer.
Reported(c, do, cut, marks, len) ==
    LET token == Callback[c][1]
        m == Callback[c][2]
        start == IF token = "field" THEN "value" ELSE token
    IN  [cb |-> c,
         end |-> token \in cut.ends,
         right |-> /\ start \in marks[m]
                   /\ token = "field" => len = "name" /\ "field" \in marks["field_start"],
         lost |-> token = "field" /\ len = "zero",
         zero |-> m \in MarksHere(do),
         whole |-> token \in ref.whole \cup cut.begins]

\* on_request_method, on_request_version and on_response_version refuse what
\* they do not know.  A cut version of length 0 passes strncmp and is taken
\* for HTTP/1.1; any other cut of it is refused.  `known' is whether the
\* bytes spell a method (or a response's version) of the table.
Refused(reports, known) ==
    \E r \in reports :
        \/ r.cb = "request_method" /\ ~known
        \/ r.cb = "http_version" /\ r.right /\ kind = "response" /\ ~known
        \/ r.cb = "http_version" /\ ~r.right /\ ~r.zero

ScanByte(b, known) ==
    /\ call \in {"start", "scan"}
    /\ \E step \in {ScanOf(b)}, cut \in {SplitOf(b)} :
       \E marks \in {MarksAfter(step.do, cut.begins)} :
       \E len \in {FieldLength(step.do, marks)} :
       \E reports \in {{Reported(c, step.do, cut, marks, len) : c \in step.do \cap DOMAIN Callback}} :
       \* a field may go on in the line after it
       \E open \in {(ref.open \cup cut.begins) \ (cut.ends \ {"field"})} :
           /\ known \/ reports # {}
           /\ cs' = step.to
           /\ ptr' = [m \in Marks |-> marks[m] \cap open]
           /\ flen' = len
           /\ out' = reports
           /\ m_error' = (m_error \/ Refused(reports, known))
           /\ ref' = [phase |-> cut.phase, open |-> open,
                      whole |-> (ref.whole \cup cut.begins) \cap open,
                      empty |-> IF "value" \in cut.ends THEN "value" \in cut.begins ELSE ref.empty]
           /\ ended' = (ended \/ "done" \in step.do)
           /\ call' = IF step.to = ErrorOf(kind) \/ "done" \in step.do THEN "idle" ELSE "scan"
    /\ UNCHANGED <<kind, relaxed>>

\* The buffer is scanned to its end; execute returns.
Return ==
    /\ call = "scan"
    /\ call' = "idle"
    /\ out' = {}
    /\ UNCHANGED <<kind, relaxed, cs, ptr, flen, m_error, ref, ended>>

Next ==
    \/ Execute
    \/ ExecuteChunk
    \/ \E b \in IF kind = "request" THEN Byte ELSE Resp!Byte, known \in BOOLEAN : ScanByte(b, known)
    \/ Return

Spec == Init /\ [][Next]_parserVars
=============================================================================
