---------------------------- MODULE MessagesProofs ----------------------------
(***************************************************************************)
(* What survives the wire, for every message of every type: everything, if *)
(* all of its text is UTF-8; otherwise whatever comes before the first     *)
(* field that is not, and that field itself if it is a plain string.       *)
(***************************************************************************)
EXTENDS Messages, TLAPS

-----------------------------------------------------------------------------
(* Schemas: at most four fields, whose names differ.                        *)

LEMMA SchemaShape ==
  ASSUME NEW schema \in Schemas
  PROVE  /\ DOMAIN schema \subseteq 1..4
         /\ \A i, j \in DOMAIN schema : schema[i].name = schema[j].name => i = j
BY DEF Schemas, RpcRequestPb, RpcResponsePb, TopicRequestPb, TopicResponsePb,
       ServiceRequestPb, ServiceResponsePb, Field

LEMMA PositionOf ==
  ASSUME NEW schema \in Schemas, NEW n \in Names(schema)
  PROVE  Position(schema, n) \in DOMAIN schema /\ schema[Position(schema, n)].name = n
BY DEF Position, Names

LEMMA PositionAt ==
  ASSUME NEW schema \in Schemas, NEW i \in DOMAIN schema
  PROVE  schema[i].name \in Names(schema) /\ Position(schema, schema[i].name) = i
<1>1. schema[i].name \in Names(schema)
  BY DEF Names
<1> QED  BY <1>1, PositionOf, SchemaShape

\* A set of the first four positions that is not empty has a least element.
LEMMA LeastPosition ==
  ASSUME NEW S \in SUBSET (1..4), S # {}
  PROVE  \E i \in S : \A j \in S : i <= j
<1>1. CASE 1 \in S
  BY <1>1
<1>2. CASE 1 \notin S /\ 2 \in S
  BY <1>2
<1>3. CASE 1 \notin S /\ 2 \notin S /\ 3 \in S
  BY <1>3
<1>4. CASE 1 \notin S /\ 2 \notin S /\ 3 \notin S
  <2>1. PICK i \in S : TRUE
    OBVIOUS
  <2>2. \A j \in S : j = 4
    BY <1>4
  <2> QED  BY <2>1, <2>2
<1> QED  BY <1>1, <1>2, <1>3, <1>4

\* If a field fails there is one that the parser gives up at.
LEMMA GivesUpSomewhere ==
  ASSUME NEW schema \in Schemas, NEW wire, NEW n \in Names(schema), Fails(schema, wire, n)
  PROVE  \E bad \in Names(schema) : GivesUpAt(schema, wire, bad)
<1> DEFINE S == {i \in DOMAIN schema : Fails(schema, wire, schema[i].name)}
<1>1. S \in SUBSET (1..4) /\ S # {}
  BY SchemaShape, PositionOf
<1>2. PICK i \in S : \A j \in S : i <= j
  BY <1>1, LeastPosition
<1> DEFINE bad == schema[i].name
<1>3. bad \in Names(schema) /\ Position(schema, bad) = i
  BY PositionAt
<1>4. ASSUME NEW f \in Names(schema), Position(schema, f) < i
      PROVE  ~Fails(schema, wire, f)
  <2>1. Position(schema, f) \in DOMAIN schema /\ schema[Position(schema, f)].name = f
    BY PositionOf
  <2>2. Position(schema, f) \notin S
    BY <1>1, <1>2, <1>4, <2>1
  <2> QED  BY <2>1, <2>2
<1>5. GivesUpAt(schema, wire, bad)
  BY <1>3, <1>4 DEF GivesUpAt, Reached
<1> QED  BY <1>3, <1>5

-----------------------------------------------------------------------------
\* A message whose text is all UTF-8 arrives as it was sent, whatever its type
\* (message.pb.cc, the pairs of _InternalSerialize and _InternalParse).
THEOREM RoundTrip ==
  ASSUME NEW schema \in Schemas, NEW m \in Messages(schema), WellFormed(schema, m)
  PROVE  Parse(schema, Serialize(schema, m)) = {m}
<1> DEFINE wire == Serialize(schema, m)
<1>1. \A n \in Names(schema) : ~Fails(schema, wire, n)
  BY DEF WellFormed
<1>2. ASSUME NEW n \in Names(schema)
      PROVE  Kept(schema, wire, n) = m[n]
  BY <1>1 DEF Kept, Reached, Serialize
<1>3. m = [n \in Names(schema) |-> m[n]]
  BY DEF Messages
<1>4. Parse(schema, wire) = {[n \in Names(schema) |-> Kept(schema, wire, n)]}
  BY <1>1 DEF Parse
<1> QED  BY <1>2, <1>3, <1>4

\* What the receiver has in a field that is not the one the parser gives up at,
\* and in the one that is.
LEMMA Arrived ==
  ASSUME NEW schema \in Schemas, NEW wire, NEW got \in Parse(schema, wire),
         NEW n \in Names(schema)
  PROVE  IF GivesUpAt(schema, wire, n) THEN got[n] \in LeftOf(KindOf(schema, n), wire[n])
         ELSE got[n] = Kept(schema, wire, n)
<1>1. CASE \A f \in Names(schema) : ~Fails(schema, wire, f)
  <2>1. got = [f \in Names(schema) |-> Kept(schema, wire, f)]
    BY <1>1 DEF Parse
  <2>2. ~GivesUpAt(schema, wire, n)
    BY <1>1 DEF GivesUpAt
  <2> QED  BY <2>1, <2>2
<1>2. CASE ~\A f \in Names(schema) : ~Fails(schema, wire, f)
  <2> DEFINE bad == CHOOSE f \in Names(schema) : GivesUpAt(schema, wire, f)
  <2>1. \E f \in Names(schema) : GivesUpAt(schema, wire, f)
    BY <1>2, GivesUpSomewhere
  <2>2. bad \in Names(schema) /\ GivesUpAt(schema, wire, bad)
    BY <2>1
  <2>3. PICK v \in LeftOf(KindOf(schema, bad), wire[bad]) :
          got = [f \in Names(schema) |-> IF f = bad THEN v ELSE Kept(schema, wire, f)]
    BY <1>2 DEF Parse
  <2>4. GivesUpAt(schema, wire, n) => n = bad
    <3>1. SUFFICES ASSUME GivesUpAt(schema, wire, n), n # bad
                   PROVE  FALSE
      OBVIOUS
    <3>2. /\ Position(schema, n) \in 1..4 /\ Position(schema, bad) \in 1..4
          /\ Position(schema, n) # Position(schema, bad)
      BY <2>2, <3>1, PositionOf, SchemaShape
    <3>3. ~(Position(schema, n) < Position(schema, bad)) /\ ~(Position(schema, bad) < Position(schema, n))
      BY <2>2, <3>1 DEF GivesUpAt, Reached
    <3> QED  BY <3>2, <3>3
  <2>5. n = bad => got[n] \in LeftOf(KindOf(schema, n), wire[n])
    BY <2>3
  <2>6. n # bad => got[n] = Kept(schema, wire, n)
    BY <2>3
  <2> QED  BY <2>2, <2>4, <2>5, <2>6
<1> QED  BY <1>1, <1>2
-----------------------------------------------------------------------------
\* What comes before anything that is not UTF-8 arrives as it was sent.
THEOREM PrefixArrives ==
  ASSUME NEW schema \in Schemas, NEW m \in Messages(schema),
         NEW got \in Parse(schema, Serialize(schema, m)), NEW n \in Names(schema),
         \A f \in Names(schema) :
           Position(schema, f) <= Position(schema, n) => ~Fails(schema, Serialize(schema, m), f)
  PROVE  got[n] = m[n]
<1> DEFINE wire == Serialize(schema, m)
<1>1. \A f \in Names(schema) : Position(schema, f) \in 1..4
  BY PositionOf, SchemaShape
<1>2. ~Fails(schema, wire, n) /\ Reached(schema, wire, n)
  BY <1>1 DEF Reached
<1>3. got[n] = Kept(schema, wire, n)
  BY <1>2, Arrived DEF GivesUpAt
<1> QED  BY <1>2, <1>3 DEF Kept, Serialize

\* A string in front is stored before it is looked at: it arrives whatever it is.
THEOREM FirstStringArrives ==
  ASSUME NEW schema \in Schemas, NEW m \in Messages(schema),
         NEW got \in Parse(schema, Serialize(schema, m)), NEW n \in Names(schema),
         Position(schema, n) = 1, KindOf(schema, n) = "string"
  PROVE  got[n] = m[n]
<1> DEFINE wire == Serialize(schema, m)
<1>1. Reached(schema, wire, n)
  BY PositionOf, SchemaShape DEF Reached
<1>2. CASE GivesUpAt(schema, wire, n)
  <2>1. n \in DOMAIN wire /\ got[n] \in LeftOf("string", wire[n])
    BY <1>2, Arrived DEF GivesUpAt, Fails
  <2>2. wire[n] = m[n]
    BY <2>1 DEF Serialize
  <2> QED  BY <2>1, <2>2 DEF LeftOf
<1>3. CASE ~GivesUpAt(schema, wire, n)
  <2>1. got[n] = Kept(schema, wire, n)
    BY <1>3, Arrived
  <2> QED  BY <1>1, <2>1 DEF Kept, Serialize
<1> QED  BY <1>2, <1>3

\* A number arrives as it was sent or is lost, which reads as 0: that is
\* RCODE_OK, TOPIC_CREATE and SERVICE_REGISTRY.
THEOREM NumberArrivesOrIsZero ==
  ASSUME NEW schema \in Schemas, NEW m \in Messages(schema),
         NEW got \in Parse(schema, Serialize(schema, m)), NEW n \in Names(schema),
         KindOf(schema, n) = "int"
  PROVE  got[n] \in {m[n], 0}
<1> DEFINE wire == Serialize(schema, m)
<1>1. ~GivesUpAt(schema, wire, n)
  BY DEF GivesUpAt, Fails, Parses
<1>2. got[n] = Kept(schema, wire, n)
  BY <1>1, Arrived
<1> QED  BY <1>2 DEF Kept, Serialize, Default

\* The positions and kinds of the fields the next two theorems are about.
LEMMA FirstFields ==
  /\ \A schema \in {RpcResponsePb, TopicResponsePb, ServiceResponsePb} :
       schema \in Schemas /\ schema[1] = Field("rcode", "int")
  /\ \A schema \in {RpcRequestPb, ServiceRequestPb} :
       schema \in Schemas /\ schema[1] = Field("method", "string")
  /\ TopicRequestPb \in Schemas /\ TopicRequestPb[1] = Field("topic_key", "string")
BY DEF Schemas, RpcRequestPb, RpcResponsePb, TopicRequestPb, TopicResponsePb,
       ServiceRequestPb, ServiceResponsePb

LEMMA FirstIs ==
  ASSUME NEW schema \in Schemas, NEW name, NEW kind, schema[1] = Field(name, kind)
  PROVE  name \in Names(schema) /\ Position(schema, name) = 1 /\ KindOf(schema, name) = kind
<1>1. 1 \in DOMAIN schema
  BY DEF Schemas, RpcRequestPb, RpcResponsePb, TopicRequestPb, TopicResponsePb,
         ServiceRequestPb, ServiceResponsePb
<1>2. schema[1].name = name /\ schema[1].kind = kind
  BY DEF Field
<1> QED  BY <1>1, <1>2, PositionAt DEF KindOf

\* The code of an answer always arrives, so that losing a part of an answer
\* never makes a success of an error (rpc_caller.hpp:36, topic.hpp:87,
\* client/service_manager.hpp:124).
THEOREM RcodeArrives ==
  ASSUME NEW schema \in {RpcResponsePb, TopicResponsePb, ServiceResponsePb},
         NEW m \in Messages(schema), NEW got \in Parse(schema, Serialize(schema, m))
  PROVE  got.rcode = m.rcode
<1> DEFINE wire == Serialize(schema, m)
<1>1. /\ schema \in Schemas /\ "rcode" \in Names(schema)
      /\ Position(schema, "rcode") = 1 /\ KindOf(schema, "rcode") = "int"
  BY FirstFields, FirstIs
<1>2. ~Fails(schema, wire, "rcode")
  BY <1>1 DEF Fails, Parses
<1>3. \A f \in Names(schema) :
        Position(schema, f) <= Position(schema, "rcode") => ~Fails(schema, wire, f)
  BY <1>1, <1>2, PositionOf, SchemaShape
<1> QED  BY <1>1, <1>3, PrefixArrives

\* The name a request is about always arrives.
THEOREM NameArrives ==
  /\ \A schema \in {RpcRequestPb, ServiceRequestPb} : \A m \in Messages(schema) :
       \A got \in Parse(schema, Serialize(schema, m)) : got.method = m.method
  /\ \A m \in Messages(TopicRequestPb) :
       \A got \in Parse(TopicRequestPb, Serialize(TopicRequestPb, m)) :
         got.topic_key = m.topic_key
<1>1. ASSUME NEW schema \in {RpcRequestPb, ServiceRequestPb}, NEW m \in Messages(schema),
             NEW got \in Parse(schema, Serialize(schema, m))
      PROVE  got.method = m.method
  BY FirstFields, FirstIs, FirstStringArrives
<1>2. ASSUME NEW m \in Messages(TopicRequestPb),
             NEW got \in Parse(TopicRequestPb, Serialize(TopicRequestPb, m))
      PROVE  got.topic_key = m.topic_key
  BY FirstFields, FirstIs, FirstStringArrives
<1> QED  BY <1>1, <1>2

-----------------------------------------------------------------------------
LEMMA ParsedHasFields ==
  ASSUME NEW schema \in Schemas, NEW wire, NEW got \in Parse(schema, wire)
  PROVE  got = [n \in Names(schema) |-> got[n]]
BY DEF Parse

\* If the string in front is not UTF-8 everything else reads as its default,
\* whatever was sent.
THEOREM RestIsLost ==
  ASSUME NEW schema \in Schemas, NEW m \in Messages(schema),
         NEW got \in Parse(schema, Serialize(schema, m)),
         NEW n \in Names(schema), Position(schema, n) = 1, KindOf(schema, n) = "string",
         ~TextOK(m[n]), NEW f \in Names(schema), f # n
  PROVE  got[f] = Default(KindOf(schema, f))
<1> DEFINE wire == Serialize(schema, m)
<1>1. Fails(schema, wire, n)
  BY DEF Fails, Serialize, Parses, Default, TextOK
<1>2. Position(schema, f) \in 1..4 /\ Position(schema, f) # 1
  BY PositionOf, SchemaShape
<1>3. ~Reached(schema, wire, f)
  BY <1>1, <1>2 DEF Reached
<1> QED  BY <1>3, Arrived DEF GivesUpAt, Kept

\* A Struct arrives as it was sent or, if it is what stops the parser, with
\* fewer entries.
THEOREM StructArrives ==
  ASSUME NEW schema \in Schemas, NEW m \in Messages(schema),
         NEW got \in Parse(schema, Serialize(schema, m)), NEW n \in Names(schema),
         KindOf(schema, n) = "struct", m[n] \in Struct,
         \A f \in Names(schema) :
           Position(schema, f) < Position(schema, n) => ~Fails(schema, Serialize(schema, m), f)
  PROVE  IF GoodKeys(m[n]) = DOMAIN m[n] THEN got[n] = m[n]
         ELSE got[n] \in LeftOf("struct", m[n])
<1> DEFINE wire == Serialize(schema, m)
<1>1. Reached(schema, wire, n)
  BY DEF Reached
<1>2. n \in DOMAIN wire /\ wire[n] = m[n]
  BY AbsentAssumption DEF Serialize, Default
<1>3. GivesUpAt(schema, wire, n) <=> GoodKeys(m[n]) # DOMAIN m[n]
  BY <1>1, <1>2 DEF GivesUpAt, Fails, Parses
<1>4. IF GivesUpAt(schema, wire, n) THEN got[n] \in LeftOf("struct", wire[n])
      ELSE got[n] = Kept(schema, wire, n)
  BY Arrived
<1> QED  BY <1>1, <1>2, <1>3, <1>4 DEF Kept
=============================================================================
