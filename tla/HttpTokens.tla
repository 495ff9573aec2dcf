----------------------------- MODULE HttpTokens -----------------------------
(***************************************************************************)
(* The reference the parsers are compared with: where the tokens of a      *)
(* message begin and end, told by its delimiters alone.  It accepts more   *)
(* than the parsers do; of a message they accept it says which bytes are   *)
(* the method, the path, a field name and so on.                           *)
(*                                                                         *)
(* Split(phase, b) is the phase after byte b, the tokens whose first byte  *)
(* is b (or that are empty and would begin there), and the tokens that b   *)
(* delimits.  "field" runs from a field's name to the end of its value.    *)
(***************************************************************************)
EXTENDS FiniteSets

Cut(phase, begins, ends) == [phase |-> phase, begins |-> begins, ends |-> ends]
LineEnd == {"lf", "cr"}
AfterLine(b) == IF b = "lf" THEN "line" ELSE "eol"
White == {"sp", "ht"}

\* The lines of fields, the same in both directions.
FieldSplit(phase, b) ==
    CASE phase = "eol" -> Cut("line", {}, {})
      [] phase = "line" /\ b = "lf" -> Cut("end", {}, {})
      [] phase = "line" /\ b = "cr" -> Cut("blank", {"name", "field"}, {})
      [] phase = "blank" /\ b = "lf" -> Cut("end", {}, {})
      \* a line that begins with a blank continues the field before it
      [] phase = "line" /\ b \in White -> Cut("ows", {}, {})
      [] phase = "line" -> Cut("name", {"name", "field"}, {})
      [] phase \in {"name", "blank"} /\ b = "colon" -> Cut("ows", {}, {"name"})
      [] phase \in {"name", "blank"} -> Cut("name", {}, {})
      [] phase = "ows" /\ b \in White -> Cut("ows", {}, {})
      [] phase = "ows" /\ b \in LineEnd -> Cut(AfterLine(b), {"value"}, {"value", "field"})
      [] phase = "ows" -> Cut("value", {"value"}, {})
      [] phase = "value" /\ b \in LineEnd -> Cut(AfterLine(b), {}, {"value", "field"})
      [] OTHER -> Cut(phase, {}, {})

\* Inside the target: phase "scheme" while the bytes may still be a scheme.
TargetSplit(phase, b, begins, schemeChar) ==
    CASE b = "sp" -> Cut("version0", begins, {"path", "uri"})
      [] b = "hash" -> Cut("fragment0", begins, {"path", "uri"})
      [] b = "qm" -> Cut("query0", begins, {"path"})
      [] phase = "scheme" /\ b = "colon" -> Cut("rest0", begins, {})
      [] phase = "scheme" /\ schemeChar -> Cut("scheme", begins, {})
      [] OTHER -> Cut("target", begins, {})

RequestSplit(phase, b, alpha, schemeChar) ==
    CASE phase = "start" -> Cut(CASE b = "lt" -> "tag" [] b = "at" -> "json" [] OTHER -> "method",
                                IF b \in {"lt", "at"} THEN {"path"} ELSE {"method"}, {})
      [] phase = "method" /\ b = "sp" -> Cut("target0", {}, {"method"})
      [] phase = "target0" -> TargetSplit("scheme", b, {"path", "uri"}, alpha)
      [] phase = "rest0" -> TargetSplit("target", b, {"path", "uri"}, FALSE)
      [] phase \in {"scheme", "target"} -> TargetSplit(phase, b, {}, schemeChar)
      [] phase \in {"query0", "query"} ->
             Cut(CASE b = "sp" -> "version0" [] b = "hash" -> "fragment0" [] OTHER -> "query",
                 IF phase = "query0" THEN {"query"} ELSE {},
                 IF b \in {"sp", "hash"} THEN {"query", "uri"} ELSE {})
      [] phase \in {"fragment0", "fragment"} ->
             Cut(IF b = "sp" THEN "version0" ELSE "fragment",
                 IF phase = "fragment0" THEN {"fragment"} ELSE {},
                 IF b = "sp" THEN {"fragment"} ELSE {})
      [] phase = "version0" -> Cut("version", {"version"}, {})
      [] phase = "version" /\ b \in LineEnd -> Cut(AfterLine(b), {}, {"version"})
      [] phase = "tag" /\ b \in White \cup LineEnd \cup {"vt", "slash", "gt"} ->
             Cut("document", {}, {"path"})
      [] phase = "json" /\ b = "sp" -> Cut("document", {}, {"path"})
      [] phase \in {"method", "version", "tag", "json", "document"} -> Cut(phase, {}, {})
      [] OTHER -> FieldSplit(phase, b)

ResponseSplit(phase, b) ==
    CASE phase = "start" -> IF b = "H" THEN Cut("version", {"version"}, {})
                            ELSE Cut("chunk", {"chunk"}, {})
      [] phase = "version" /\ b = "sp" -> Cut("status0", {}, {"version"})
      [] phase = "status0" -> Cut("status", {"status"}, {})
      [] phase = "status" /\ b = "sp" -> Cut("reason0", {}, {"status"})
      [] phase = "reason0" -> Cut("reason", {"reason"}, {})
      [] phase = "reason" /\ b \in LineEnd -> Cut(AfterLine(b), {}, {"reason"})
      [] phase = "chunk" /\ b = "semi" -> Cut("ext0", {}, {"chunk"})
      [] phase = "chunk" /\ b \in LineEnd -> Cut("end", {}, {"chunk"})
      [] phase = "ext0" -> Cut("ext", {"name", "field"}, {})
      [] phase = "ext" /\ b = "eq" -> Cut("extval0", {}, {"name"})
      [] phase = "ext" /\ b \in LineEnd \cup {"semi"} ->
             Cut(IF b = "semi" THEN "ext0" ELSE "end", {"value"}, {"name", "value", "field"})
      [] phase = "extval0" -> Cut("extval", {"value"}, {})
      [] phase = "extval" /\ b \in LineEnd \cup {"semi"} ->
             Cut(IF b = "semi" THEN "ext0" ELSE "end", {}, {"value", "field"})
      [] phase = "name" /\ b \in LineEnd -> Cut(AfterLine(b), {}, {})
      [] phase = "line" /\ b = "cr" -> Cut("blank", {}, {})
      \* a lone CR is no line end: malformed from here on
      [] phase = "blank" -> Cut("end", {}, {})
      [] phase \in {"version", "status", "reason", "chunk", "ext", "extval"} -> Cut(phase, {}, {})
      [] OTHER -> FieldSplit(phase, b)
=============================================================================
