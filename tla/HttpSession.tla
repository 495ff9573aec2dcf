---------------------------- MODULE HttpSession ----------------------------
(***************************************************************************)
(* One HTTP connection: HttpServer::handleClient calling                   *)
(* HttpSession::recvRequest and sendResponse, around the request parser.   *)
(*                                                                         *)
(* The peer's bytes are the sequence `wire'.  Each is a record: `b', its   *)
(* class; `msg', the request it belongs to; `part', "head" or "body"; and  *)
(* `field', the header field it completes, if any: "length", or "keep" for *)
(* Connection: keep-alive.                                                 *)
(* A Content-Length field carries the size of its request's body.          *)
(***************************************************************************)
EXTENDS HttpParser

CONSTANTS Wires,    \* the byte sequences a peer may send
          BufSize   \* GetHttpRequestBufferSize()

ASSUME SessionAssumption == BufSize \in Nat \ {0} /\ "request" \in Kinds

VARIABLES wire,
          keepalive,  \* m_isKeepalive
          pipelined,  \* the peer sends without waiting for responses
          gone,       \* the peer has closed or reset the connection
          pc,         \* where handleClient is
          pos,        \* bytes taken from the socket
          scan,       \* bytes the parser has scanned (or the body taken)
          head,       \* first byte of the request being received
          fields,     \* the fields stored in the request
          wrong,      \* some token stored is not the one sent, or one is missing
          got,        \* the requests returned by recvRequest
          dropped     \* bytes taken from the socket and thrown away

sessionVars == <<wire, keepalive, pipelined, gone, pc, pos, scan, head, fields, wrong, got, dropped>>
vars == <<parserVars, sessionVars>>

SessionInit ==
    /\ Init /\ kind = "request"
    /\ wire \in Wires
    /\ keepalive \in BOOLEAN /\ pipelined \in BOOLEAN
    /\ gone = FALSE /\ pc = "recv"
    /\ pos = 0 /\ scan = 0 /\ head = 1
    /\ fields = {} /\ wrong = FALSE
    /\ got = <<>> /\ dropped = 0

\* What the peer has sent: the requests up to the one it waits to be
\* answered, or everything.
Sent == IF pipelined THEN Len(wire)
        ELSE Cardinality({i \in DOMAIN wire : wire[i].msg <= Len(got) + 1})
BodySize(m) == Cardinality({i \in DOMAIN wire : wire[i].msg = m /\ wire[i].part = "body"})

KeepConnection == UNCHANGED <<wire, keepalive, pipelined, gone>>

PeerCloses ==
    /\ ~gone /\ pc # "closed"
    /\ gone' = TRUE
    /\ UNCHANGED <<parserVars, wire, keepalive, pipelined, pc, pos, scan, head, fields, wrong,
                   got, dropped>>

\* resv into the whole buffer, and the call of execute on what came.
Recv(n) ==
    /\ pc = "recv" /\ n <= BufSize /\ pos + n <= Sent
    /\ pos' = pos + n
    /\ Execute
    /\ pc' = "parse"
    /\ KeepConnection /\ UNCHANGED <<scan, head, fields, wrong, got, dropped>>

\* Variant of RecvFails that takes 0 for "nothing yet".
RecvFailsRetries == pc \in {"recv", "body"} /\ UNCHANGED vars

\* resv returns 0 or -1: the peer closed, an error, a timeout that raced.
RecvFails ==
    /\ pc \in {"recv", "body"}
    /\ pc' = "closed"
    /\ KeepConnection
    /\ UNCHANGED <<parserVars, pos, scan, head, fields, wrong, got, dropped>>

\* The parser's next byte.  on_request_http_field stores a field it is given
\* with the right bytes, drops one of length 0, and stores something else
\* otherwise.  A method that arrives whole is one the server knows; a piece
\* of one may or may not be.
Parse(known) ==
    /\ pc = "parse" /\ scan < pos /\ call # "idle"
    /\ ScanByte(wire[scan + 1].b, known)
    /\ scan' = scan + 1
    /\ (\E r \in out' : r.cb = "request_method" /\ r.right) => known
    /\ LET stored == {r \in out' : r.cb = "write_value"}
       IN  /\ fields' = fields \cup {wire[scan + 1].field : r \in {x \in stored : x.right}}
           /\ wrong' = (wrong \/ \E r \in out' : ~r.right)
    /\ KeepConnection /\ UNCHANGED <<pc, pos, head, got, dropped>>

\* execute returns at the end of the buffer; on an error the connection is
\* closed, and unless the header is complete recvRequest reads again.  The
\* parser took everything, so nothing stays in the buffer.
Parsed ==
    /\ pc = "parse"
    /\ \/ Return /\ scan = pos
       \/ call = "idle" /\ UNCHANGED parserVars
    /\ pc' = CASE hasError -> "closed" [] isFinished -> "header" [] OTHER -> "recv"
    /\ KeepConnection /\ UNCHANGED <<pos, scan, head, fields, wrong, got, dropped>>

\* getContentLength: the field, if it was stored.
ContentLength == IF "length" \in fields THEN BodySize(wire[head].msg) ELSE 0
\* What is left in the buffer after the header.
offset == pos - scan

\* The request recvRequest returns: its first byte, the bytes of its body and
\* how many bytes the body has room for.
Request(last, size) == [head |-> head, body |-> (scan + 1) .. last, size |-> size, wrong |-> wrong]

\* A response is sent and the loop goes on with a new parser, if the server
\* keeps connections and the request asks for it: HttpRequest is made with
\* m_close = true, and only init() of a keep-alive field clears it.
Answer(req) ==
    /\ got' = Append(got, req)
    /\ pc' = IF keepalive /\ "keep" \in fields THEN "recv" ELSE "closed"
    /\ cs' = Start /\ ptr' = Unset /\ flen' = "zero" /\ call' = "idle" /\ m_error' = FALSE
    /\ out' = {} /\ ref' = RefStart /\ ended' = FALSE
    /\ fields' = {} /\ wrong' = FALSE
    /\ UNCHANGED <<kind, relaxed>>

\* Variant of BodyInBuffer that leaves the last byte of the body behind.
BodyInBufferShort ==
    /\ pc = "header" /\ ContentLength <= offset
    /\ Answer(Request(scan + ContentLength - 1, ContentLength - 1))
    /\ scan' = pos /\ head' = pos + 1
    /\ dropped' = dropped + (offset - (ContentLength - 1))
    /\ KeepConnection /\ UNCHANGED pos

\* The whole body, or no body: it was in the buffer.  What the buffer holds
\* after it is thrown away.
BodyInBuffer ==
    /\ pc = "header" /\ ContentLength <= offset
    /\ Answer(Request(scan + ContentLength, ContentLength))
    /\ scan' = pos /\ head' = pos + 1
    /\ dropped' = dropped + (offset - ContentLength)
    /\ KeepConnection /\ UNCHANGED pos

NeedBody ==
    /\ pc = "header" /\ ContentLength > offset
    /\ pc' = "body"
    /\ KeepConnection
    /\ UNCHANGED <<parserVars, pos, scan, head, fields, wrong, got, dropped>>

\* Variant of RecvBody that asks for the whole body again.
RecvBodyWhole(n) ==
    /\ pc = "body" /\ n <= ContentLength /\ pos + n <= Sent
    /\ Answer(Request(pos + n, ContentLength))
    /\ pos' = pos + n /\ scan' = pos + n /\ head' = pos + n + 1
    /\ KeepConnection /\ UNCHANGED dropped

\* One resv for the rest of the body; whatever it returns, the body is taken
\* for complete.
RecvBody(n) ==
    /\ pc = "body" /\ n <= ContentLength - offset /\ pos + n <= Sent
    /\ Answer(Request(pos + n, ContentLength))
    /\ pos' = pos + n /\ scan' = pos + n /\ head' = pos + n + 1
    /\ KeepConnection /\ UNCHANGED dropped

Done == pc = "closed" /\ UNCHANGED vars

SessionNext ==
    \/ \E n \in 1 .. Len(wire) : Recv(n) \/ RecvBody(n)
    \/ \E known \in BOOLEAN : Parse(known)
    \/ RecvFails \/ Parsed \/ BodyInBuffer \/ NeedBody
    \/ PeerCloses \/ Done

\* The loop runs on a processor that keeps resuming it, and the hooked recv
\* returns what was sent and the end of the stream.  As long as the peer is
\* there nothing need happen: the timeout resumes nobody (IoWait).
SessionSpec == SessionInit /\ [][SessionNext]_vars /\ WF_vars(gone /\ SessionNext)

---------------------------------------------------------------------------
(* Properties.                                                             *)

FirstOf(m) == CHOOSE i \in DOMAIN wire : wire[i].msg = m /\ \A j \in 1 .. (i - 1) : wire[j].msg # m
BodyOf(m) == {i \in DOMAIN wire : wire[i].msg = m /\ wire[i].part = "body"}
Short(r) == Cardinality(r.body) < r.size

\* The i-th request returned is the i-th sent, with its body and its fields,
\* unless before it (or in it) a token was cut by a buffer's end, a body came
\* in a short read, or bytes behind a body were thrown away.  recvRequest.
RequestsInOrder ==
    \A i \in DOMAIN got :
        \/ dropped > 0 \/ \E j \in 1 .. i : got[j].wrong \/ Short(got[j])
        \/ got[i].head = FirstOf(i) /\ got[i].body = BodyOf(i)

\* A peer that waits for each response loses nothing in the buffer as long
\* as no field was cut: what follows the body is thrown away only when the
\* peer pipelines or the length was lost.  recvRequest's local buffer.
DroppedOnlyPipelined ==
    dropped > 0 => pipelined \/ \E j \in DOMAIN got : got[j].wrong \/ Short(got[j])

\* A connection whose peer has gone is closed, wherever recvRequest is and
\* whatever is still in its buffer: the loop neither waits nor spins for more.
EventuallyClosed == gone ~> pc = "closed"
=============================================================================
