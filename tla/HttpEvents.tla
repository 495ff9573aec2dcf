----------------------------- MODULE HttpEvents -----------------------------
(***************************************************************************)
(* What the users of the parsers rely on: the order of the callbacks.      *)
(* A message passes through stages; `calls' are the callbacks of the last  *)
(* step.  A request reports its method, its path, its query if it has one, *)
(* its URI, its fragment if it has one and its version, each once and in   *)
(* this order, then its fields; an XML or JSON document only its path.  A  *)
(* response reports version, status and reason, then fields; a chunk its   *)
(* size, then its extensions.                                              *)
(***************************************************************************)

VARIABLES kind, stage, calls

RequestMoves ==
    {<<"start", {}, "method">>, <<"method", {"request_method"}, "target">>,
     <<"target", {"request_path"}, "query">>,
     <<"target", {"request_path", "request_uri"}, "fragment">>,
     <<"target", {"request_path", "request_uri"}, "version">>,
     <<"query", {"query_string", "request_uri"}, "fragment">>,
     <<"query", {"query_string", "request_uri"}, "version">>,
     <<"fragment", {"fragment"}, "version">>,
     <<"version", {"http_version"}, "fields">>,
     <<"fields", {"write_value"}, "fields">>, <<"fields", {}, "end">>,
     <<"start", {}, "tag">>, <<"tag", {"request_path"}, "document">>, <<"document", {}, "end">>}

ResponseMoves ==
    {<<"start", {}, "version">>, <<"version", {"http_version"}, "status">>,
     <<"status", {"status_code"}, "reason">>, <<"reason", {"reason_phrase"}, "fields">>,
     <<"fields", {"write_value"}, "fields">>,
     <<"fields", {"write_value", "write_content_len"}, "fields">>, <<"fields", {}, "end">>,
     <<"start", {}, "chunk">>, <<"chunk", {"chunk_size"}, "extensions">>,
     <<"chunk", {"chunk_size"}, "end">>, <<"extensions", {"write_value"}, "extensions">>,
     <<"extensions", {"write_value"}, "end">>,
     \* between the CR and the LF that end the header
     <<"fields", {}, "last">>, <<"chunk", {"chunk_size"}, "last">>,
     <<"extensions", {"write_value"}, "last">>, <<"last", {}, "end">>}

Moves == IF kind = "request" THEN RequestMoves ELSE ResponseMoves

Init == kind \in {"request", "response"} /\ stage = "start" /\ calls = {}

Move == <<stage, calls', stage'>> \in Moves
Silent == stage' = stage /\ calls' = {}
Fail == stage \notin {"end", "error"} /\ stage' = "error" /\ calls' = {}
\* execute with chunck set begins a new message.
Restart == kind = "response" /\ stage' = "start" /\ calls' = {}

Next == (Move \/ Silent \/ Fail \/ Restart) /\ UNCHANGED kind
Spec == Init /\ [][Next]_<<kind, stage, calls>>
=============================================================================
