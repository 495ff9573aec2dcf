--------------------------- MODULE ResponseMachine ---------------------------
(***************************************************************************)
(* The state machine of httpclient_parser.cpp, the generated scanner of    *)
(* HTTP responses and chunk headers.  Rules and action sets are those of   *)
(* RequestMachine.  Letters are folded to lower case, except H, T and P,   *)
(* which the version text matches by case.                                 *)
(*                                                                         *)
(* The generated code spells Connection, Content-Length and                *)
(* Transfer-Encoding, and the values close and chunked, one state per      *)
(* letter.  Here such a state is <<base, words, k>>: k letters are read    *)
(* and `words' are the spellings still possible.  base says what else the  *)
(* bytes may be: a field name ("name"), a field value ("value"), or        *)
(* nothing ("only").  <<base, {}, 0>> is the plain state.                  *)
(***************************************************************************)
EXTENDS Naturals, Sequences, FiniteSets

Folded == {"a", "b", "c", "d", "e", "f", "g", "i", "k", "l", "n", "o", "r", "s", "u"}
Letter == Folded \cup {"H", "h", "T", "t"}
XDigit == {"digit", "a", "b", "c", "d", "e", "f"}
Token == Letter \cup {"P", "tok", "dash", "dot", "digit"}
Byte == Token \cup {"other", "ht", "lf", "cr", "sp", "slash", "colon", "semi", "eq"}
Blank == {"ht", "sp"}
Text == Byte \ {"lf", "cr"}
Fold(b) == CASE b = "H" -> "h" [] b = "T" -> "t" [] OTHER -> b

Spelling == [connection |-> <<"c","o","n","n","e","c","t","i","o","n">>,
             length |-> <<"c","o","n","t","e","n","t","dash","l","e","n","g","t","h">>,
             encoding |-> <<"t","r","a","n","s","f","e","r","dash","e","n","c","o","d","i","n","g">>,
             close |-> <<"c","l","o","s","e">>,
             chunked |-> <<"c","h","u","n","k","e","d">>,
             number |-> <<"digit">>]
Special == {"connection", "length", "encoding"}
\* The value a special field is watched for.
Expected == [connection |-> "close", length |-> "number", encoding |-> "chunked"]

On(from, bytes, to, do) == [from |-> from, on |-> bytes, to |-> to, do |-> do]
Fail == [to |-> <<"error", {}, 0>>, do |-> {}]
At(name) == <<name, {}, 0>>
For(name, h) == <<name, {h}, 0>>

Start == At("start")
Error == At("error")
Finished == At("finished")        \* state 120, first_final

---------------------------------------------------------------------------
(* The status line and the header of a chunk.                              *)

ChunkRules ==
    LET size == At("chunk") cr == At("crlf") ext == At("ext") name == At("ext_name")
        eq == At("ext_eq") val == At("ext_val")
        end(s, do) == {On(s, {"lf"}, Finished, do \cup {"done"}), On(s, {"cr"}, cr, do),
                       On(s, {"semi"}, ext, do)}
        named == {"write_field", "start_value", "write_value"}
    IN  {On(Start, XDigit, size, {"mark"}), On(size, XDigit, size, {}),
         On(cr, {"lf"}, Finished, {"done"}),
         On(ext, Token, name, {"start_field"}), On(name, Token, name, {}),
         On(name, {"eq"}, eq, {"write_field", "start_value"}),
         On(eq, Token, val, {"start_value"}), On(val, Token, val, {})}
        \cup end(size, {"chunk_size"}) \cup end(name, named) \cup end(val, {"write_value"})

VersionText == <<{"H"}, {"T"}, {"T"}, {"P"}, {"slash"}, {"digit"}>>
Version(n) == <<"version", {}, n>>
VersionRules ==
    {On(IF n = 1 THEN Start ELSE Version(n), VersionText[n], Version(n + 1),
        IF n = 1 THEN {"mark"} ELSE {}) : n \in 1 .. Len(VersionText)}
    \cup {On(Version(7), {"digit"}, Version(7), {}), On(Version(7), {"dot"}, Version(8), {}),
          On(Version(8), {"digit"}, Version(9), {}), On(Version(9), {"digit"}, Version(9), {}),
          On(Version(9), {"sp"}, At("status0"), {"http_version"})}

StatusRules ==
    {On(At("status0"), {"digit"}, At("status"), {"mark"}),
     On(At("status"), {"digit"}, At("status"), {}),
     On(At("status"), {"sp"}, At("reason0"), {"status_code"}),
     On(At("reason0"), Byte \ {"lf"}, At("reason"), {"mark"}),
     On(At("reason"), Text, At("reason"), {}),
     On(At("reason"), {"lf"}, At("line"), {"reason_phrase"}),
     On(At("reason"), {"cr"}, At("eol"), {"reason_phrase"})}

---------------------------------------------------------------------------
(* Words: one letter more of the spellings still possible.                 *)

Spells(w, k, b) == k < Len(Spelling[w]) /\ Spelling[w][k + 1] = Fold(b)
Read(words, k, b) ==
    {w \in words : Spells(w, k, b) \/ (w = "number" /\ k >= 1 /\ b = "digit")}
Complete(words, k) == {w \in words : w = "number" \/ k = Len(Spelling[w])}

\* To the state after letter b of base, its words narrowed to `left'.
Narrow(base, left, k) == IF left = {} THEN At(base) ELSE <<base, left, k>>
\* The digits of a number are not counted.
Count(left, k) == IF "number" \in left THEN 1 ELSE k + 1

\* The first byte of a field name: the special names, or the rest of a
\* value that began with an empty line (`extra').
EnterName(b, extra, do) ==
    LET left == Read(Special \cup extra, 0, b)
    IN  [to |-> Narrow("name", left, 1), do |-> do \cup {"start_field"}]

NameLetter(words, k, b) ==
    LET left == Read(words, k, b)
    IN  [to |-> Narrow("name", left, Count(left, k)), do |-> {}]

\* The colon ends the name; a special name leads to a watched value.
NameColon(words, k) ==
    LET named == Complete(words, k) \cap Special
    IN  [to |-> <<"lws", named, 0>>, do |-> {"write_field"}]

ValueLetter(words, k, b) ==
    LET left == Read(words, k, b)
    IN  [to |-> Narrow("value", left, Count(left, k)), do |-> {}]

OnlyLetter(words, k, b) ==
    LET left == Read(words, k, b)
    IN  IF left = {} THEN Fail ELSE [to |-> <<"only", left, Count(left, k)>>, do |-> {}]

\* A line end after a complete word of a special value.
WordEnd(base, words, k, b) ==
    LET full == Complete(words, k)
    IN  CASE "close" \in full ->
                 [to |-> At(IF b = "lf" THEN "closed" ELSE "closed_cr"),
                  do |-> IF base = "value" THEN {"write_value"} ELSE {}]
          [] "chunked" \in full ->
                 [to |-> At(IF b = "lf" THEN "line" ELSE "chunked_cr"),
                  do |-> {"write_value"} \cup IF b = "lf" THEN {"trans_chunked"} ELSE {}]
          [] "number" \in full ->
                 [to |-> At(IF b = "lf" THEN "line" ELSE "eol"),
                  do |-> {"write_content_len", "write_value"}]
          [] full \cap {"close", "chunked", "number"} = {} /\ base = "value" ->
                 [to |-> At(IF b = "lf" THEN "line" ELSE "eol"), do |-> {"write_value"}]
          [] OTHER -> Fail

WordScan(base, words, k, b) ==
    CASE b \in {"lf", "cr"} -> WordEnd(base, words, k, b)
      [] base = "name" /\ b = "colon" -> NameColon(words, k)
      [] base = "name" /\ b \in Token -> NameLetter(words, k, b)
      [] base = "value" /\ b \in Text -> ValueLetter(words, k, b)
      [] base = "only" /\ b \in Token -> OnlyLetter(words, k, b)
      [] OTHER -> Fail

---------------------------------------------------------------------------
(* Between the words.                                                      *)

\* 20: the first byte of a header line.
LineScan(b, extra, do) ==
    CASE b = "lf" -> [to |-> Finished, do |-> do \cup {"done"}]
      [] b = "cr" -> [to |-> At("crlf"), do |-> do]
      [] b \in Token -> EnterName(b, extra, do)
      [] OTHER -> Fail

\* 22, 35, 61, 112: after the colon.
LwsScan(named, b) ==
    LET want == {Expected[h] : h \in named}
        end == [do |-> {"start_value", "write_value"}]
    IN  CASE b \in Blank -> [to |-> <<"lws", named, 0>>, do |-> {"start_value"}]
          [] b = "lf" -> [to |-> IF named = {} THEN At("line") ELSE <<"empty", named, 0>>,
                          do |-> end.do]
          [] b = "cr" -> [to |-> IF named = {} THEN At("eol") ELSE <<"empty_cr", named, 0>>,
                          do |-> end.do]
          [] OTHER -> [to |-> Narrow("value", Read(want, 0, b), 1), do |-> {"start_value"}]

\* The first letter of a watched value that follows blanks and line ends.
\* Connection's value is not marked.
OnlyStart(h, b) ==
    LET left == Read({Expected[h]}, 0, b)
    IN  IF left = {} THEN Fail
        ELSE [to |-> <<"only", left, 1>>, do |-> IF h = "connection" THEN {} ELSE {"start_value"}]

\* 37, 63, 114 and the three finals 121 to 123: `space*' takes line ends too.
SpaceScan(h, b) ==
    IF b \in Blank \cup {"lf", "cr"} THEN [to |-> For("space", h), do |-> {}] ELSE OnlyStart(h, b)

\* 36, 62, 113: a special field had an empty value; the line that follows is
\* a field, the end of the header, or still the value.
EmptyScan(h, b) ==
    CASE b \in Blank -> [to |-> For("space", h), do |-> {}]
      [] b = "lf" -> [to |-> For("finished", h), do |-> {"done"}]
      [] b = "cr" -> [to |-> For("empty_crlf", h), do |-> {}]
      [] b \in Token /\ (h # "connection") /\ Spells(Expected[h], 0, b) ->
             EnterName(b, {Expected[h]}, {"start_value"})
      [] OTHER -> LineScan(b, {Expected[h]}, {})

\* 80, 95, 118 and 72, 89, 116: after a CR.
EmptyCrScan(name, h, b) ==
    CASE b = "lf" /\ name = "empty_cr" -> [to |-> For("empty", h), do |-> {}]
      [] b = "lf" /\ name = "empty_crlf" -> [to |-> For("finished", h), do |-> {"done"}]
      [] b \in Blank \cup {"cr"} -> [to |-> For("space", h), do |-> {}]
      [] OTHER -> OnlyStart(h, b)

EolRules ==
    {On(At("eol"), {"lf"}, At("line"), {}), On(At("closed_cr"), {"lf"}, At("closed"), {}),
     On(At("chunked_cr"), {"lf"}, At("line"), {"trans_chunked"})}

Rules == ChunkRules \cup VersionRules \cup StatusRules \cup EolRules
RuleScan(s, b) ==
    LET fits == {r \in Rules : r.from = s /\ b \in r.on}
    IN  IF fits = {} THEN Fail
        ELSE LET r == CHOOSE r \in fits : TRUE IN [to |-> r.to, do |-> r.do]

Scan(s, b) ==
    CASE s[1] \in {"name", "value", "only"} -> WordScan(s[1], s[2], s[3], b)
      [] s[1] = "line" -> LineScan(b, {}, {})
      [] s[1] = "closed" -> LineScan(b, {}, {"connection_close"})
      [] s[1] = "lws" -> LwsScan(s[2], b)
      [] s[1] = "space" \/ (s[1] = "finished" /\ s[2] # {}) ->
             SpaceScan(CHOOSE h \in s[2] : TRUE, b)
      [] s[1] = "empty" -> EmptyScan(CHOOSE h \in s[2] : TRUE, b)
      [] s[1] \in {"empty_cr", "empty_crlf"} -> EmptyCrScan(s[1], CHOOSE h \in s[2] : TRUE, b)
      [] OTHER -> RuleScan(s, b)
=============================================================================
