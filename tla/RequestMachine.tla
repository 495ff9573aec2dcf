--------------------------- MODULE RequestMachine ---------------------------
(***************************************************************************)
(* The state machine of http11_parser.cpp, the generated scanner of HTTP   *)
(* requests: its 348 states, the bytes each accepts, and the actions run   *)
(* on the way.  A rule says: in state `from', on a byte of `on', run the   *)
(* actions `do' and go to `to'; a byte no rule names is an error, as the   *)
(* final `goto st0' of every case of the generated switch.  Where several  *)
(* actions run on one byte the code sets marks first, then calls back,     *)
(* then runs done, so `do' is a set.                                       *)
(*                                                                         *)
(* Bytes are grouped into the classes that no state tells apart.  A state  *)
(* is <<part, name, k, o>>: the part of the request, the name of the state *)
(* inside it, a counter and, in an address literal, the progress of a      *)
(* decimal octet.  "more" stands for the bytes { } ^ where the generated   *)
(* code widens them (_widec) when parser->uri_relaxed is set.              *)
(***************************************************************************)
EXTENDS Naturals, Sequences, FiniteSets

Digit == {"0", "1", "2", "5", "d"}
XDigit == Digit \cup {"AF", "af"}
Upper == {"AF", "upper", "H", "P", "T"}
Lower == {"af", "lower", "v"}
Alpha == Upper \cup Lower
MoreDelims == {"caret", "lbrace", "rbrace"}
Control == {"x2", "x3", "x4", "x5", "x6", "other"}
Byte == Alpha \cup Digit \cup MoreDelims \cup Control \cup
        {"hi", "nul", "ht", "lf", "vt", "cr", "sp", "mark", "quote", "hash",
         "pct", "delim", "plus", "dash", "dot", "slash", "colon", "lt", "gt",
         "qm", "at", "lbr", "rbr", "del"}

\* The character sets of the URI and of the header grammar.
RegChar == Alpha \cup Digit \cup {"dash", "dot", "plus", "mark", "delim", "more"}
SegmentNc == RegChar \cup {"at"}
PChar == SegmentNc \cup {"hi", "colon"}
QueryChar == PChar \cup {"slash", "qm"}
SchemeChar == Alpha \cup Digit \cup {"plus", "dash", "dot"}
\* 0 - 31 in the grammar removes the byte 0 only: control bytes stay tokens.
Token == Alpha \cup Digit \cup Control \cup
         {"vt", "mark", "caret", "hash", "pct", "plus", "dash", "dot"}
ValueChar == Byte \ {"nul", "lf", "cr", "del"}

On(from, bytes, to, do) == [from |-> from, on |-> bytes, to |-> to, do |-> do]
At(part, name) == <<part, name, 0, "">>

Start == At("line", "start")
Error == At("line", "error")
Finished == At("line", "finished")        \* state 348
SocketFinished == At("socket", "finished") \* state 349

\* A percent-encoded byte: "%" and two hexadecimal digits, back to s.
Escape(s, i) == <<s[1], s[2], i, "%">>
Escaped(s) == {On(Escape(s, 1), XDigit, Escape(s, 2), {}),
               On(Escape(s, 2), XDigit, s, {})}
\* From `from', one more character of s, plain or percent-encoded.
Char(from, chars, s, do) == {On(from, chars, s, do), On(from, {"pct"}, Escape(s, 1), do)}

---------------------------------------------------------------------------
(* The request line.                                                       *)

MaxMethod == 20
Method(n) == <<"line", "method", n, "">>

StartRules ==
    {On(Start, Upper \cup Digit, Method(1), {"mark"}),
     On(Start, {"lt"}, At("socket", "xml"), {"mark"}),
     On(Start, {"at"}, At("json", "start"), {"mark"})}

MethodRules ==
    {On(Method(n), {"sp"}, At("uri", "start"), {"request_method"}) : n \in 1 .. MaxMethod}
    \cup {On(Method(n), Upper \cup Digit, Method(n + 1), {}) : n \in 1 .. MaxMethod - 1}

VersionText == <<{"H"}, {"T"}, {"T"}, {"P"}, {"slash"}, {"1"}, {"dot"}, {"0", "1"}>>
Version(n) == <<"line", "version", n, "">>

VersionRules ==
    {On(Version(n), VersionText[n], Version(n + 1), IF n = 1 THEN {"mark"} ELSE {}) :
        n \in 1 .. Len(VersionText)}
    \cup {On(Version(9), {"lf"}, At("head", "start"), {"http_version"}),
          On(Version(9), {"cr"}, At("head", "eol"), {"http_version"})}

---------------------------------------------------------------------------
(* The header fields and the end of the request.                           *)

Name == At("head", "name")
Value == At("head", "value")

\* 13 and 18: the first byte of a line; a CR may still begin a field name.
LineRules ==
    {On(At("head", "start"), Token, Name, {"start_field"}),
     On(At("head", "start"), {"lf"}, Finished, {"start_field", "done"}),
     On(At("head", "start"), {"cr"}, At("head", "cr"), {"start_field"}),
     On(At("head", "cr"), Token \cup {"cr"}, Name, {}),
     On(At("head", "cr"), {"lf"}, Finished, {"done"}),
     On(At("head", "cr"), {"colon"}, At("head", "lws"), {"write_field"})}

NameRules ==
    {On(Name, Token \cup {"lf", "cr"}, Name, {}),
     On(Name, {"colon"}, At("head", "lws"), {"write_field"})}

ValueRules ==
    {On(At("head", "lws"), {"ht", "sp"}, At("head", "lws"), {"start_value"}),
     On(At("head", "lws"), ValueChar \ {"ht", "sp"}, Value, {"start_value"}),
     On(At("head", "lws"), {"lf"}, At("head", "start"), {"start_value", "write_value"}),
     On(At("head", "lws"), {"cr"}, At("head", "eol"), {"start_value", "write_value"}),
     On(Value, ValueChar, Value, {}),
     On(Value, {"lf"}, At("head", "start"), {"write_value"}),
     On(Value, {"cr"}, At("head", "eol"), {"write_value"})}

EolRules == {On(At("head", "eol"), {"lf"}, At("head", "start"), {})}

---------------------------------------------------------------------------
(* The request target.  The same states exist twice: after the method      *)
(* (part "uri") and after "@" (part "json"), where neither a query nor a   *)
(* fragment may follow.                                                    *)

Path(w) == At(w, "path")

\* Variant of EndRules that reports no URI when a fragment follows.
EndRulesNoUri(w, s, do) ==
    IF w = "uri"
    THEN {On(s, {"sp"}, Version(1), do \cup {"request_path", "request_uri"}),
          On(s, {"hash"}, At("uri", "fragment0"), do \cup {"request_path"}),
          On(s, {"qm"}, At("uri", "query0"), do \cup {"request_path"})}
    ELSE {On(s, {"sp"}, At("json", "data"), {"request_path"})}

\* What may follow the hierarchical part, when it may end in state s.
EndRules(w, s, do) ==
    IF w = "uri"
    THEN {On(s, {"sp"}, Version(1), do \cup {"request_path", "request_uri"}),
          On(s, {"hash"}, At("uri", "fragment0"), do \cup {"request_path", "request_uri"}),
          On(s, {"qm"}, At("uri", "query0"), do \cup {"request_path"})}
    ELSE {On(s, {"sp"}, At("json", "data"), {"request_path"})}

UriStartRules ==
    Char(At("uri", "start"), SegmentNc \ Alpha, At("uri", "noscheme"), {"mark"})
    \cup {On(At("uri", "start"), Alpha, At("uri", "scheme"), {"mark"}),
          On(At("uri", "start"), {"slash"}, At("uri", "slash"), {"mark"})}
    \cup EndRules("uri", At("uri", "start"), {"mark"})

SchemeRules ==
    LET s == At("uri", "scheme")
        after == At("uri", "after_scheme")
    IN  {On(s, SchemeChar, s, {}), On(s, {"colon"}, after, {}),
         On(s, {"slash"}, Path("uri"), {}), On(after, {"slash"}, At("uri", "slash"), {"mark"})}
        \cup Char(s, SegmentNc \ SchemeChar, At("uri", "noscheme"), {})
        \cup Char(after, PChar, Path("uri"), {"mark"})
        \cup EndRules("uri", s, {}) \cup EndRules("uri", after, {"mark"})

NoSchemeRules(w) ==
    LET s == At(w, "noscheme")
    IN  Char(s, SegmentNc, s, {}) \cup Escaped(s)
        \cup {On(s, {"slash"}, Path(w), {})} \cup EndRules(w, s, {})

PathRules(w) ==
    Char(Path(w), PChar \cup {"slash"}, Path(w), {}) \cup Escaped(Path(w))
    \cup EndRules(w, Path(w), {})

\* 33: after one slash; a second one begins an authority.
SlashRules(w) ==
    Char(At(w, "slash"), PChar, Path(w), {})
    \cup {On(At(w, "slash"), {"slash"}, At(w, "authority"), {})}
    \cup EndRules(w, At(w, "slash"), {})

FragmentRules ==
    LET s == At("uri", "fragment")
        s0 == At("uri", "fragment0")
    IN  Char(s0, QueryChar, s, {"mark"}) \cup Char(s, QueryChar, s, {}) \cup Escaped(s)
        \cup {On(s0, {"sp"}, Version(1), {"mark", "fragment"}),
              On(s, {"sp"}, Version(1), {"fragment"})}

QueryRules ==
    LET s == At("uri", "query")
        s0 == At("uri", "query0")
        end(from, do) ==
            {On(from, {"sp"}, Version(1), do \cup {"query_string", "request_uri"}),
             On(from, {"hash"}, At("uri", "fragment0"), do \cup {"query_string", "request_uri"})}
    IN  Char(s0, QueryChar, s, {"start_query"}) \cup Char(s, QueryChar, s, {})
        \cup Escaped(s) \cup end(s0, {"start_query"}) \cup end(s, {})

---------------------------------------------------------------------------
(* The authority: user information, host, port.                            *)

\* 34, 35: a host, or user information before a colon or an @.
AuthorityRules(w) ==
    LET s == At(w, "host")
        from == {At(w, "authority"), s}
    IN  UNION {Char(f, RegChar, s, {}) \cup EndRules(w, f, {}) : f \in from}
        \cup {On(f, {"slash"}, Path(w), {}) : f \in from}
        \cup {On(f, {"colon"}, At(w, "port_or_user"), {}) : f \in from}
        \cup {On(f, {"at"}, At(w, "at"), {}) : f \in from}
        \cup {On(At(w, "authority"), {"lbr"}, At(w, "literal"), {})}
        \cup Escaped(s)

\* 38, 39: after a colon, a port as long as only digits come, or the rest of
\* the user information.
UserInfoRules(w) ==
    LET s == At(w, "port_or_user")
        user == At(w, "user")
    IN  {On(s, Digit, s, {}), On(s, {"slash"}, Path(w), {}),
         On(s, {"at"}, At(w, "at"), {}), On(user, {"at"}, At(w, "at"), {})}
        \cup Char(s, (RegChar \ Digit) \cup {"colon"}, user, {})
        \cup Char(user, RegChar \cup {"colon"}, user, {})
        \cup Escaped(user) \cup EndRules(w, s, {})

\* 42, 43, 46: the host after an @, and the port after it.
HostRules(w) ==
    LET s == At(w, "host_only")
        port == At(w, "port")
        from == {At(w, "at"), s}
    IN  UNION {Char(f, RegChar, s, {}) : f \in from} \cup Escaped(s)
        \cup UNION {EndRules(w, f, {}) : f \in from \cup {port}}
        \cup {On(f, {"slash"}, Path(w), {}) : f \in from \cup {port}}
        \cup {On(f, {"colon"}, port, {}) : f \in from}
        \cup {On(port, Digit, port, {}), On(At(w, "at"), {"lbr"}, At(w, "literal"), {})}

---------------------------------------------------------------------------
(* Address literals.  A group of hexadecimal digits is <<w, grp, d, o>>   *)
(* with d digits read; o follows the decimal octet the digits may also be, *)
(* in the groups where an IPv4 address may stand.                           *)

Octet == {"start", "full", "1", "1d", "2", "20", "25", "no"}
OctetNext(o, b) ==
    CASE o = "start" /\ b \in {"0", "5", "d"} -> "full"
      [] o = "start" /\ b \in {"1", "2"} -> b
      [] o = "1" /\ b \in Digit -> "1d"
      [] o = "2" /\ b = "0" -> "20"
      [] o = "2" /\ b = "5" -> "25"
      [] o \in {"1d", "20"} /\ b \in Digit -> "full"
      [] o = "25" /\ b = "0" -> "full"
      [] OTHER -> "no"
OctetEnd == {"full", "1", "1d", "2"}

Close(w) == At(w, "literal_end")
Group(w, grp, v4) == <<w, grp, 0, IF v4 THEN "start" ELSE "no">>

\* One to four digits; then a state of `next' after a colon, the second octet
\* after a dot, the end of the literal after a bracket.
GroupRules(w, grp, v4, next, close) ==
    {On(<<w, grp, d, o>>, {b}, <<w, grp, d + 1, OctetNext(o, b)>>, {}) :
        d \in 0 .. 3, o \in IF v4 THEN Octet ELSE {"no"}, b \in XDigit}
    \cup {On(<<w, grp, d, o>>, {"colon"}, n, {}) : d \in 1 .. 4, o \in Octet, n \in next}
    \cup {On(<<w, grp, d, o>>, {"dot"}, <<w, "octet", 1, "start">>, {}) :
            d \in 1 .. 3, o \in IF v4 THEN OctetEnd ELSE {}}
    \cup {On(<<w, grp, d, o>>, {"rbr"}, Close(w), {}) :
            d \in 1 .. 4, o \in IF close THEN Octet ELSE {}}

LiteralRules(w) ==
    {On(At(w, "literal"), {"x6"}, Group(w, "six", FALSE), {}),
     On(At(w, "literal"), XDigit, <<w, "g1", 1, "no">>, {}),
     On(At(w, "literal"), {"colon"}, At(w, "colon"), {}),
     On(At(w, "colon"), {"colon"}, <<w, "elide", 0, "start">>, {}),
     On(At(w, "literal"), {"v"}, <<w, "future", 0, "">>, {})}

SixRules(w) == GroupRules(w, "six", FALSE, {Group(w, "ls32", TRUE)}, FALSE)
LastRules(w) == GroupRules(w, "last", FALSE, {}, TRUE)
Ls32Rules(w) == GroupRules(w, "ls32", TRUE, {Group(w, "last", FALSE)}, FALSE)

\* The second, third and fourth octets of an IPv4 address.
OctetRules(w) ==
    {r \in {On(<<w, "octet", i, o>>, {b}, <<w, "octet", i, OctetNext(o, b)>>, {}) :
                i \in 1 .. 3, o \in Octet, b \in Digit} : r.to[4] # "no"}
    \cup {On(<<w, "octet", i, o>>, {"dot"}, <<w, "octet", i + 1, "start">>, {}) :
            i \in 1 .. 2, o \in OctetEnd}
    \cup {On(<<w, "octet", 3, o>>, {"rbr"}, Close(w), {}) : o \in OctetEnd}

\* The groups before a "::"; the seventh repeats.
GroupName == <<"g1", "g2", "g3", "g4", "g5", "g6", "g7", "g8">>
LeadingRules(w) ==
    UNION {GroupRules(w, GroupName[g], FALSE, {Group(w, GroupName[g + 1], FALSE)}, FALSE) :
              g \in 1 .. 7}
    \cup {On(Group(w, "g8", FALSE), XDigit, <<w, "g7", 1, "no">>, {})}
    \cup {On(Group(w, GroupName[g + 1], FALSE), {"colon"}, <<w, "elide", g, "start">>, {}) :
            g \in 1 .. 7}

\* After g groups and a "::".  "5(" in the grammar is the byte 5, not five
\* repetitions: the counts of RFC 3986 became control bytes.
ElideCount(g) == CASE g = 0 -> {"x2", "x3", "x4", "x5"} [] g = 1 -> {"x4"}
                   [] g = 2 -> {"x3"} [] OTHER -> {"x2", "x3"}
ElideTail(g) == CASE g = 4 -> "six" [] g = 5 -> "c1" [] OTHER -> "a1"
ElideRules(w) ==
    {On(<<w, "elide", g, "start">>, ElideCount(g), Group(w, "six", FALSE), {}) : g \in 0 .. 7}
    \cup {On(<<w, "elide", g, "start">>, {b},
             <<w, ElideTail(g), 1, IF g = 4 THEN "no" ELSE OctetNext("start", b)>>, {}) :
            g \in {0, 4, 5, 6, 7}, b \in XDigit}
    \cup {On(<<w, "elide", g, "start">>, {"rbr"}, Close(w), {}) : g \in {0, 7}}

\* The groups after a "::".
TailRules1(w) == GroupRules(w, "a1", TRUE, {Group(w, "a2", TRUE)}, TRUE)
TailRules2(w) == GroupRules(w, "a2", TRUE, {Group(w, "last", FALSE)}, TRUE)
TailRules3(w) == GroupRules(w, "c1", TRUE, {Group(w, "a2", TRUE)}, FALSE)

FutureRules(w) ==
    LET f(i) == <<w, "future", i, "">>
    IN  {On(f(0), XDigit, f(1), {}), On(f(1), XDigit, f(1), {}), On(f(1), {"dot"}, f(2), {}),
         On(f(2), RegChar \cup {"colon"}, f(3), {}), On(f(3), RegChar \cup {"colon"}, f(3), {}),
         On(f(3), {"rbr"}, Close(w), {})}

CloseRules(w) ==
    {On(Close(w), {"slash"}, Path(w), {}), On(Close(w), {"colon"}, At(w, "port"), {})}
    \cup EndRules(w, Close(w), {})

---------------------------------------------------------------------------
(* The two socket forms: an XML or a JSON document closed by a NUL.        *)

XmlRules ==
    LET tag == At("socket", "tag")
        xml == At("socket", "xml_data")
        end == At("socket", "xml_end")
        TagChar == Alpha \cup Digit \cup {"dash", "dot"}
    IN  {On(At("socket", "xml"), TagChar, tag, {}), On(tag, TagChar, tag, {}),
         On(tag, {"ht", "lf", "vt", "cr", "sp", "slash", "gt"}, xml, {"request_path"}),
         On(xml, Byte \ {"gt"}, xml, {}), On(xml, {"gt"}, end, {}),
         On(end, Byte \ {"gt", "nul"}, xml, {}), On(end, {"gt"}, end, {}),
         On(end, {"nul"}, SocketFinished, {"xml", "done"})}

JsonDataRules ==
    LET data == At("json", "data1")
        end == At("json", "data_end")
    IN  {On(At("json", "data"), {"lbrace"}, data, {"mark"}),
         On(data, Byte \ {"rbrace"}, data, {}), On(data, {"rbrace"}, end, {}),
         On(end, Byte \ {"rbrace", "nul"}, data, {}), On(end, {"rbrace"}, end, {}),
         On(end, {"nul"}, SocketFinished, {"json", "done"})}

JsonStartRules ==
    Char(At("json", "start"), SegmentNc, At("json", "noscheme"), {})
    \cup {On(At("json", "start"), {"slash"}, At("json", "slash"), {})}
    \cup EndRules("json", At("json", "start"), {})
JsonPathRules == NoSchemeRules("json") \cup PathRules("json") \cup SlashRules("json")
JsonAuthorityRules == AuthorityRules("json") \cup UserInfoRules("json")
JsonHostRules == HostRules("json")
JsonLiteralRules == LiteralRules("json") \cup SixRules("json") \cup CloseRules("json")
JsonOctetRules == OctetRules("json")
JsonLs32Rules == Ls32Rules("json") \cup LastRules("json")
JsonLeadingRules == LeadingRules("json")
JsonTailRules == TailRules1("json") \cup TailRules2("json")
JsonElideRules == ElideRules("json") \cup TailRules3("json") \cup FutureRules("json")

---------------------------------------------------------------------------

UriRules ==
    UriStartRules \cup SchemeRules \cup FragmentRules \cup QueryRules
    \cup NoSchemeRules("uri") \cup PathRules("uri") \cup SlashRules("uri")
    \cup AuthorityRules("uri") \cup UserInfoRules("uri") \cup HostRules("uri")
    \cup LiteralRules("uri") \cup SixRules("uri") \cup LastRules("uri") \cup Ls32Rules("uri")
    \cup OctetRules("uri") \cup LeadingRules("uri") \cup ElideRules("uri")
    \cup TailRules1("uri") \cup TailRules2("uri") \cup TailRules3("uri")
    \cup FutureRules("uri") \cup CloseRules("uri")
JsonRules ==
    JsonStartRules \cup JsonPathRules \cup JsonAuthorityRules \cup JsonHostRules
    \cup JsonLiteralRules \cup JsonOctetRules \cup JsonLs32Rules \cup JsonLeadingRules
    \cup JsonTailRules \cup JsonElideRules \cup JsonDataRules
Rules == StartRules \cup MethodRules \cup VersionRules \cup LineRules \cup NameRules
         \cup ValueRules \cup EolRules \cup UriRules \cup JsonRules \cup XmlRules

State == {r.from : r \in Rules} \cup {r.to : r \in Rules} \cup {Error}
RulesOf == [s \in State |-> {r \in Rules : r.from = s}]

\* The steps the rules give for byte b in state s; no more than one.
Steps(s, b, relaxed) ==
    {[to |-> r.to, do |-> r.do] : r \in {x \in RulesOf[s] :
        b \in x.on \/ (relaxed /\ b \in MoreDelims /\ "more" \in x.on)}}
Scan(s, b, relaxed) ==
    LET fits == Steps(s, b, relaxed)
    IN  IF fits = {} THEN [to |-> Error, do |-> {}] ELSE CHOOSE step \in fits : TRUE
=============================================================================
