------------------------------ MODULE Messages ------------------------------
(***************************************************************************)
(* The bodies of the messages (network/pb_message.hpp over the protobuf    *)
(* code generated from network/proto/message.proto) and their way over the *)
(* wire.                                                                   *)
(*                                                                         *)
(* A message is a record of its fields.  On the wire are the fields that   *)
(* differ from their default (a sub-message: that are present), in the     *)
(* order of their numbers.  Parsing starts from the defaults and takes the *)
(* fields in that order; it gives up at the first one that holds text      *)
(* which is not UTF-8, and leaves behind what it has stored by then.       *)
(* Serializing checks the text too but only logs.  RpcProtocol ignores     *)
(* that deserialize() failed (network.hpp:98), so what was left behind is  *)
(* the message that the receiver gets.                                     *)
(*                                                                         *)
(* Abstractions.  Strings are constants of which only emptiness and being  *)
(* UTF-8 count; a google.protobuf.Struct is a function from its keys to    *)
(* values.  Fields that the receiver does not know do not occur.           *)
(***************************************************************************)
EXTENDS Integers, Sequences

CONSTANTS
  Text,      \* strings that are not empty
  Utf8,      \* those of them that are UTF-8
  NoText,    \* the empty string
  Value,     \* google.protobuf.Value: what a key of a Struct stands for
  Utf8Value, \* those of them whose strings are all UTF-8
  Absent     \* a sub-message that is not there

ASSUME MessagesAssumption ==
  /\ Utf8 \subseteq Text
  /\ NoText \notin Text
  /\ Utf8Value \subseteq Value

String == Text \cup {NoText}

Host == [ip : String, port : Int]

NoHost == [ip |-> NoText, port |-> 0]

Struct == UNION {[K -> Value] : K \in SUBSET Text}

NoStruct == [k \in {} |-> k]

ASSUME AbsentAssumption == Absent \notin Struct /\ Absent \notin Host

-----------------------------------------------------------------------------
(* The messages: their fields in the order of the field numbers, and what   *)
(* each holds.                                                              *)

Field(name, kind) == [name |-> name, kind |-> kind]

RpcRequestPb == <<Field("method", "string"), Field("parameters", "struct")>>

RpcResponsePb == <<Field("rcode", "int"), Field("result", "struct")>>

\* Mutated TopicRequestPb: the fields in the order the wrapper sets them in.
TopicRequestPb_OptypeLast ==
  <<Field("topic_key", "string"), Field("topic_msg", "string"), Field("optype", "int")>>

TopicRequestPb ==
  <<Field("topic_key", "string"), Field("optype", "int"), Field("topic_msg", "string")>>

TopicResponsePb == <<Field("rcode", "int")>>

ServiceRequestPb ==
  <<Field("method", "string"), Field("optype", "int"), Field("host", "host")>>

ServiceResponsePb ==
  <<Field("rcode", "int"), Field("optype", "int"), Field("method", "string"),
    Field("hosts", "hosts")>>

Schemas == {RpcRequestPb, RpcResponsePb, TopicRequestPb, TopicResponsePb,
            ServiceRequestPb, ServiceResponsePb}

Names(schema) == {schema[i].name : i \in DOMAIN schema}

Position(schema, name) == CHOOSE i \in DOMAIN schema : schema[i].name = name

KindOf(schema, name) == schema[Position(schema, name)].kind

\* What a field of a kind holds.
Content(kind) ==
  CASE kind = "string" -> String
    [] kind = "int"    -> Int
    [] kind = "struct" -> Struct \cup {Absent}
    [] kind = "host"   -> Host \cup {Absent}
    [] kind = "hosts"  -> Seq(Host)

\* What Clear() leaves in a field.
Default(kind) ==
  CASE kind = "string" -> NoText
    [] kind = "int"    -> 0
    [] kind = "struct" -> Absent
    [] kind = "host"   -> Absent
    [] kind = "hosts"  -> <<>>

Messages(schema) ==
  {m \in [Names(schema) -> UNION {Content(schema[i].kind) : i \in DOMAIN schema}] :
     \A n \in Names(schema) : m[n] \in Content(KindOf(schema, n))}

-----------------------------------------------------------------------------
(* Which content parses, and what is left of one that does not.             *)

TextOK(s) == s \in Utf8 \cup {NoText}

\* The entries of a Struct that parse.
GoodKeys(s) == {k \in DOMAIN s : k \in Utf8 /\ s[k] \in Utf8Value}

Parses(kind, v) ==
  CASE kind = "string" -> TextOK(v)
    [] kind = "int"    -> TRUE
    [] kind = "struct" -> GoodKeys(v) = DOMAIN v
    [] kind = "host"   -> TextOK(v.ip)
    [] kind = "hosts"  -> \A i \in DOMAIN v : TextOK(v[i].ip)

\* A string is stored before it is checked.  The entries of a Struct come in
\* the order of a hash table, and the one that fails is taken out again.  Of
\* a host the ip comes before the port.
LeftOf(kind, v) ==
  CASE kind = "string" -> {v}
    [] kind = "int"    -> {v}
    [] kind = "struct" -> {[k \in K |-> v[k]] : K \in SUBSET GoodKeys(v)}
    [] kind = "host"   -> {[ip |-> v.ip, port |-> 0]}
    [] kind = "hosts"  ->
         {[j \in 1..i |-> IF j < i THEN v[j] ELSE [ip |-> v[i].ip, port |-> 0]] :
            i \in {i \in DOMAIN v : ~TextOK(v[i].ip) /\ \A j \in 1..(i-1) : TextOK(v[j].ip)}}

-----------------------------------------------------------------------------
\* SerializeAsString: the fields that go on the wire.
Serialize(schema, m) ==
  [n \in {n \in Names(schema) : m[n] # Default(KindOf(schema, n))} |-> m[n]]

\* The field of the wire that the parser cannot take.
Fails(schema, wire, n) == n \in DOMAIN wire /\ ~Parses(KindOf(schema, n), wire[n])

\* Nothing in m stops the parser.
WellFormed(schema, m) ==
  \A n \in Names(schema) : ~Fails(schema, Serialize(schema, m), n)

\* The parser gets to n: no field before n fails.
Reached(schema, wire, n) ==
  \A f \in Names(schema) :
    Position(schema, f) < Position(schema, n) => ~Fails(schema, wire, f)

\* What the parser has in field n, if that is not the field it gives up at.
Kept(schema, wire, n) ==
  IF n \in DOMAIN wire /\ Reached(schema, wire, n) THEN wire[n]
  ELSE Default(KindOf(schema, n))

\* The field it gives up at.
GivesUpAt(schema, wire, n) ==
  n \in Names(schema) /\ Fails(schema, wire, n) /\ Reached(schema, wire, n)

\* ParseFromString: the messages that may be there afterwards, whether it
\* succeeded or not.
Parse(schema, wire) ==
  IF \A n \in Names(schema) : ~Fails(schema, wire, n)
    THEN {[n \in Names(schema) |-> Kept(schema, wire, n)]}
    ELSE LET bad == CHOOSE n \in Names(schema) : GivesUpAt(schema, wire, n)
         IN {[n \in Names(schema) |-> IF n = bad THEN v ELSE Kept(schema, wire, n)] :
               v \in LeftOf(KindOf(schema, bad), wire[bad])}

-----------------------------------------------------------------------------
(* The numbers of message.proto.                                            *)

RCODE_OK == 0
RCODE_INVALID_PARAMS == 5
RCODE_NOT_FOUND_SERVICE == 6
RCODE_INVALID_OPTYPE == 7
RCODE_INVALID_RESULT == 10

TOPIC_CREATE == 0
TOPIC_REMOVE == 1
TOPIC_SUBSCRIBE == 2
TOPIC_CANCEL == 3
TOPIC_PUBLISH == 4

SERVICE_REGISTRY == 0
SERVICE_DISCOVERY == 1
SERVICE_ONLINE == 2
SERVICE_OFFLINE == 3
SERVICE_UNKNOW_PB == 4

-----------------------------------------------------------------------------
(* What the wrappers of pb_message.hpp make of the fields.                  *)

\* parameters() and result() of a message without them are empty.
StructIn(v) == IF v = Absent THEN NoStruct ELSE v

\* host() of a message without one is that of the default Host.
HostIn(v) == IF v = Absent THEN NoHost ELSE v

\* ServiceRequest::check, which only Discoverer::onServiceRequest calls.
ServiceRequestCheck(m) ==
  /\ m.method # NoText
  /\ m.optype # SERVICE_DISCOVERY => m.host # Absent
=============================================================================
