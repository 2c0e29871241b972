------------------------------ MODULE MCExchange ------------------------------
(***************************************************************************)
(* Instances of Exchange for TLC.  "raw" is the text that is not UTF-8: it *)
(* occurs as a method, a parameter's name, a topic and a payload, and      *)
(* "bytes" is a string value that holds such text.                         *)
(***************************************************************************)
EXTENDS Exchange

MCText == {"add", "raw", "x", "y"}
MCUtf8 == MCText \ {"raw"}
MCValue == {"one", "two", "text", "bytes"}
MCKindCase(v) == IF v \in {"one", "two"} THEN "number" ELSE "string"

MCAddr == [ip |-> "x", port |-> 9]

\* The text service describes its parameter twice.
Add == Build("add", <<Described("x", "INTEGRAL")>>)
AddText == Build("add", <<Described("x", "STRING"), Described("x", "BOOL")>>)
Raw == Build("raw", <<>>)
MCService == {Add, AddText, Raw}

\* A number is doubled unless it is "two"; text comes back beside a number.
MCResult(s, ps) ==
  CASE s = Add -> IF ps["x"] = "two" THEN Throws ELSE [x |-> "two"]
    [] s = AddText -> [x |-> ps["x"], y |-> "one"]
    [] s = Raw -> [y |-> "one"]

MCParams == {[x |-> "one"], [x |-> "two"], [x |-> "bytes"],
             [x |-> "one", y |-> "text"], [x |-> "one", raw |-> "one"]}
MCMethod == {"add", "raw"}
MCTopic == {"y", "raw"}
MCPayload == {NoText, "raw"}
=============================================================================
