------------------------------- MODULE MCHttp -------------------------------
(***************************************************************************)
(* The HTTP modules for TLC: either parser by itself, on messages of any   *)
(* length and any division into buffers, or a session with its request     *)
(* parser.  The session is given two requests, one with a body of two      *)
(* bytes that asks to keep the connection and one without fields.          *)
(***************************************************************************)
EXTENDS HttpSession

Line(version) == <<"upper", "P", "sp", "slash", "sp", "H", "T", "T", "P", "slash", "1", "dot", version>>
Bytes(bs, m, part, field) == [i \in DOMAIN bs |-> [b |-> bs[i], msg |-> m, part |-> part,
                              field |-> IF i = Len(bs) THEN field ELSE "none"]]
TwoRequests ==
    Bytes(Line("1") \o <<"cr", "lf">>, 1, "head", "none")
    \o Bytes(<<"lower", "af", "colon", "sp", "d", "cr">>, 1, "head", "length")
    \o Bytes(<<"lf">>, 1, "head", "none")
    \o Bytes(<<"lower", "colon", "af", "lf">>, 1, "head", "keep")
    \o Bytes(<<"cr", "lf">>, 1, "head", "none")
    \o Bytes(<<"upper", "upper">>, 1, "body", "none")
    \o Bytes(Line("0") \o <<"lf">>, 2, "head", "none")
    \o Bytes(<<"lf">>, 2, "head", "none")
MCWires == {TwoRequests}

\* A parser without a session around it.
Alone == pc = "none"

AloneInit ==
    /\ Init
    /\ wire = <<>> /\ keepalive = FALSE /\ pipelined = FALSE /\ gone = FALSE
    /\ pc = "none" /\ pos = 0 /\ scan = 0 /\ head = 1
    /\ fields = {} /\ wrong = FALSE /\ got = <<>> /\ dropped = 0

\* Its message is at its end, or refused.
AloneDone == Alone /\ call = "idle" /\ (isFinished \/ hasError) /\ UNCHANGED vars

HttpNext ==
    \/ Alone /\ Next /\ UNCHANGED sessionVars
    \/ AloneDone
    \/ ~Alone /\ SessionNext

HttpSpec ==
    /\ SessionInit \/ AloneInit
    /\ [][HttpNext]_vars
    /\ WF_vars(gone /\ SessionNext)

---------------------------------------------------------------------------
(* Properties of the parsers; those of the session are in HttpSession.     *)

\* A callback is called where its token ends, and it is given the token's
\* bytes if and only if no call of execute began inside the token.  The
\* response parser also calls back on lines that are no field (a number, or
\* "chunked", alone on the line after an empty field): nothing is said of
\* those.  PTR_TO/LEN and the resets at the head of http_parser_execute.
CallbacksExact ==
    \A r \in out : /\ kind = "request" => r.end
                   /\ r.end => (r.right <=> r.whole)

\* Once the blank line has been scanned (done has run) isFinished says so:
\* recvRequest leaves its loop.  The response parser fails to when the last
\* field's value is empty, because it compares with the first of four final
\* states.
EndReported == ended => isFinished \/ hasError \/ (kind = "response" /\ ref.empty)

\* The stage of a message, read off the state of the scanner.
RequestStage ==
    CASE cs = Start -> "start"
      [] cs = Error -> "error"
      [] cs \in {Finished, SocketFinished} -> "end"
      [] cs[1] = "line" -> cs[2]
      [] cs[1] = "head" -> "fields"
      [] cs[1] = "uri" -> CASE cs[2] \in {"query0", "query"} -> "query"
                            [] cs[2] \in {"fragment0", "fragment"} -> "fragment"
                            [] OTHER -> "target"
      [] cs[1] \in {"socket", "json"} ->
             IF cs[2] \in {"xml_data", "xml_end", "data", "data1", "data_end"}
             THEN "document" ELSE "tag"
ResponseStage ==
    CASE cs[1] \in {"start", "error", "version", "chunk"} -> cs[1]
      [] cs = Resp!Finished -> "end"
      [] cs[1] \in {"status0", "status"} -> "status"
      [] cs[1] \in {"reason0", "reason"} -> "reason"
      [] cs[1] \in {"ext", "ext_name", "ext_eq", "ext_val"} -> "extensions"
      [] cs[1] = "crlf" -> "last"
      [] OTHER -> "fields"

\* The parser by itself; a session makes a new one for every request.
Events == INSTANCE HttpEvents
          WITH stage <- CASE ~Alone -> "start"
                          [] Alone /\ kind = "request" -> RequestStage
                          [] OTHER -> ResponseStage,
               calls <- IF Alone THEN {r.cb : r \in out} ELSE {}

\* Every step of the scanners is a step of HttpEvents, or changes nothing
\* there: tokens are reported once each, in order, and nothing after the end.
ImplementsEvents == Events!Spec
=============================================================================
