---------------------------- MODULE ExchangeProofs ----------------------------
(***************************************************************************)
(* For any clients, services, topics and texts: every message meets a      *)
(* handler, a server does what it was asked unless the name in the request *)
(* is not UTF-8, a call that succeeds returns what its service made of its *)
(* parameters, and what users discover is served.                          *)
(*                                                                         *)
(* All rest on the same invariant, XInv: a client of the model has one     *)
(* request under way at a time, which is in the server's inbox, or taken   *)
(* and on its way back as the one answer in the client's.  RInv adds which *)
(* service that answer is from, and DInv what the registry has been told   *)
(* and what it tells.                                                      *)
(***************************************************************************)
EXTENDS Exchange, MessagesProofs, FiniteSetTheorems

\* What the clients ask, by their front.
Requests(front) ==
  CASE front = "RegisterClient" -> {ServiceRequest(s.name, SERVICE_REGISTRY, Addr) : s \in Service}
    [] front = "DiscoverClient" -> {ServiceRequest(n, SERVICE_DISCOVERY, Absent) : n \in Method}
    [] front = "RpcClient"      -> {RpcRequest(n, ps) : n \in Method, ps \in Params}
    [] front = "TopicClient"    -> {TopicRequest(key, op, msg) : key \in Topic,
                                      op \in TOPIC_CREATE..TOPIC_PUBLISH, msg \in Payload}

\* The types of a request and of its answer.
RequestType(front) ==
  CASE front \in {"RegisterClient", "DiscoverClient"} -> "REQ_SERVICE"
    [] front = "RpcClient"                            -> "REQ_RPC"
    [] front = "TopicClient"                          -> "REQ_TOPIC"

AnswerType(front) ==
  CASE front \in {"RegisterClient", "DiscoverClient"} -> "RSP_SERVICE"
    [] front = "RpcClient"                            -> "RSP_RPC"
    [] front = "TopicClient"                          -> "RSP_TOPIC"

Asked(l) == Envelope(RequestType(l[1]), asked[l])

\* A client's inbox, of frames that it handles, and where the answers are in it.
Inbox(l, W) == [mtype : ClientHandles(l[1]), wire : W]
Fine(l, s) == \E W : s \in Seq(Inbox(l, W))
Answers(l, s) == {i \in DOMAIN s : s[i].mtype = AnswerType(l[1])}

TrafficOK ==
  /\ asked = [l \in Link |-> asked[l]]
  /\ handled = [l \in Link |-> handled[l]]
  /\ toServer = [l \in Link |-> toServer[l]]
  /\ toClient = [l \in Link |-> toClient[l]]
  /\ \A l \in Link : asked[l] \in Requests(l[1]) \cup {None}
  /\ \A l \in Link : Fine(l, toClient[l])

CallTypeOK ==
  /\ announcing \in Service \cup {None}
  /\ calls = [u \in User |-> calls[u]]
  /\ \A u \in User : \E H : calls[u] \in [method : Method, params : Params, host : H] \cup {None}

\* What the server has of a request, and what it took it for.
RequestOK(l) ==
  /\ toServer[l] # <<>> => toServer[l] = <<Asked(l)>> /\ asked[l] # None /\ handled[l] = None
  /\ asked[l] # None /\ handled[l] # None => handled[l] \in Received(Asked(l))

\* There is at most one answer, to the request that was taken.
AnswerOK(l) ==
  \A i \in Answers(l, toClient[l]) :
    /\ toServer[l] = <<>> /\ asked[l] # None
    /\ \A j \in Answers(l, toClient[l]) : i = j

FlowOK == \A l \in Link : RequestOK(l) /\ AnswerOK(l)

\* Who has to ask has not asked yet.
CallsOK ==
  /\ announcing # None => asked[Registrar] = None
  /\ \A u \in User \ Direct :
       /\ asked[Finder(u)] # None => calls[u] # None /\ calls[u].host = None
       /\ asked[Caller(u)] # None => asked[Finder(u)] = None
  /\ \A u \in User : asked[Caller(u)] # None => calls[u] # None

\* Whom the servers write to on their own account.
TellsOK ==
  /\ \A p \in discoverers : p[1][1] = "DiscoverClient"
  /\ \A p \in members : p[1][1] = "TopicClient"

XInv == TrafficOK /\ FlowOK /\ CallTypeOK /\ CallsOK /\ TellsOK

-----------------------------------------------------------------------------
(* Links and requests.                                                      *)

LEMMA Fronts ==
  \A l \in Link : \/ l = Registrar /\ l[1] = "RegisterClient"
                  \/ \E u \in User \ Direct : l = Finder(u) /\ l[1] = "DiscoverClient"
                  \/ \E u \in User : l = Caller(u) /\ l[1] = "RpcClient"
                  \/ \E t \in Member : l = Topics(t) /\ l[1] = "TopicClient"
BY DEF Link, Registrar, Finder, Caller, Topics

LEMMA Links ==
  /\ Registrar \in Link /\ Registrar[1] = "RegisterClient"
  /\ \A u \in User \ Direct : Finder(u) \in Link
  /\ \A u : Finder(u)[1] = "DiscoverClient" /\ (Finder(u) \in Link => u \in User \ Direct)
  /\ \A u : Caller(u)[1] = "RpcClient" /\ (Caller(u) \in Link <=> u \in User)
  /\ \A t : Topics(t)[1] = "TopicClient" /\ (Topics(t) \in Link <=> t \in Member)
  /\ \A u, v : (Finder(u) = Finder(v) => u = v) /\ (Caller(u) = Caller(v) => u = v)
BY DEF Link, Registrar, Finder, Caller, Topics

LEMMA FrontTypes ==
  /\ RequestType("RegisterClient") = "REQ_SERVICE" /\ AnswerType("RegisterClient") = "RSP_SERVICE"
  /\ RequestType("DiscoverClient") = "REQ_SERVICE" /\ AnswerType("DiscoverClient") = "RSP_SERVICE"
  /\ RequestType("RpcClient") = "REQ_RPC" /\ AnswerType("RpcClient") = "RSP_RPC"
  /\ RequestType("TopicClient") = "REQ_TOPIC" /\ AnswerType("TopicClient") = "RSP_TOPIC"
  /\ ClientHandles("RegisterClient") = {"RSP_SERVICE"}
  /\ ClientHandles("DiscoverClient") = {"RSP_SERVICE", "REQ_SERVICE"}
  /\ ClientHandles("RpcClient") = {"RSP_RPC"}
  /\ ClientHandles("TopicClient") = {"RSP_TOPIC", "REQ_TOPIC"}
  /\ ServerHandles("RegisterClient") = {"REQ_SERVICE"}
  /\ ServerHandles("DiscoverClient") = {"REQ_SERVICE"}
  /\ ServerHandles("RpcClient") = {"REQ_RPC"}
  /\ ServerHandles("TopicClient") = {"REQ_TOPIC"}
BY DEF RequestType, AnswerType, ClientHandles, ServerHandles, RegisterClientHandles,
       DiscoverClientHandles, RpcClientHandles, TopicClientHandles, RegisterServerHandles,
       RpcServerHandles, TopicServerHandles

LEMMA FrontRequests ==
  /\ Requests("RegisterClient") = {ServiceRequest(s.name, SERVICE_REGISTRY, Addr) : s \in Service}
  /\ Requests("DiscoverClient") = {ServiceRequest(n, SERVICE_DISCOVERY, Absent) : n \in Method}
  /\ Requests("RpcClient") = {RpcRequest(n, ps) : n \in Method, ps \in Params}
  /\ Requests("TopicClient") = {TopicRequest(key, op, msg) : key \in Topic,
                                  op \in TOPIC_CREATE..TOPIC_PUBLISH, msg \in Payload}
BY DEF Requests

LEMMA NoneIsNoRequest == \A l \in Link : None \notin Requests(l[1])
<1>1. /\ None \notin Requests("RegisterClient") /\ None \notin Requests("DiscoverClient")
      /\ None \notin Requests("RpcClient") /\ None \notin Requests("TopicClient")
  BY FrontRequests, NoneAssumption
<1> QED  BY <1>1, Fronts

-----------------------------------------------------------------------------
(* What becomes of a request on the way.                                    *)

LEMMA RequestSchemas ==
  /\ Schema("REQ_SERVICE") = ServiceRequestPb /\ Schema("REQ_RPC") = RpcRequestPb
  /\ Schema("REQ_TOPIC") = TopicRequestPb
  /\ Names(ServiceRequestPb) = {"method", "optype", "host"}
  /\ Names(RpcRequestPb) = {"method", "parameters"}
  /\ Names(TopicRequestPb) = {"topic_key", "optype", "topic_msg"}
BY DEF Schema, Names, ServiceRequestPb, RpcRequestPb, TopicRequestPb, Field

LEMMA FieldsAt ==
  /\ Position(ServiceRequestPb, "method") = 1 /\ KindOf(ServiceRequestPb, "method") = "string"
  /\ Position(ServiceRequestPb, "optype") = 2 /\ KindOf(ServiceRequestPb, "optype") = "int"
  /\ Position(ServiceRequestPb, "host") = 3 /\ KindOf(ServiceRequestPb, "host") = "host"
  /\ Position(RpcRequestPb, "method") = 1 /\ KindOf(RpcRequestPb, "method") = "string"
  /\ Position(RpcRequestPb, "parameters") = 2 /\ KindOf(RpcRequestPb, "parameters") = "struct"
  /\ Position(TopicRequestPb, "topic_key") = 1 /\ KindOf(TopicRequestPb, "topic_key") = "string"
  /\ Position(TopicRequestPb, "optype") = 2 /\ KindOf(TopicRequestPb, "optype") = "int"
  /\ Position(TopicRequestPb, "topic_msg") = 3 /\ KindOf(TopicRequestPb, "topic_msg") = "string"
<1>1. ASSUME NEW schema \in Schemas, NEW i \in DOMAIN schema, NEW name, schema[i].name = name
      PROVE  Position(schema, name) = i /\ KindOf(schema, name) = schema[i].kind
  BY <1>1, PositionAt DEF KindOf
<1>2. /\ ServiceRequestPb \in Schemas /\ RpcRequestPb \in Schemas /\ TopicRequestPb \in Schemas
      /\ DOMAIN ServiceRequestPb = 1..3 /\ DOMAIN RpcRequestPb = 1..2 /\ DOMAIN TopicRequestPb = 1..3
  BY DEF Schemas, ServiceRequestPb, RpcRequestPb, TopicRequestPb
<1>3. /\ ServiceRequestPb[1] = Field("method", "string") /\ ServiceRequestPb[2] = Field("optype", "int")
      /\ ServiceRequestPb[3] = Field("host", "host")
      /\ RpcRequestPb[1] = Field("method", "string") /\ RpcRequestPb[2] = Field("parameters", "struct")
      /\ TopicRequestPb[1] = Field("topic_key", "string") /\ TopicRequestPb[2] = Field("optype", "int")
      /\ TopicRequestPb[3] = Field("topic_msg", "string")
  BY DEF ServiceRequestPb, RpcRequestPb, TopicRequestPb
<1> QED  BY <1>1, <1>2, <1>3 DEF Field

LEMMA IsMessage ==
  ASSUME NEW schema \in Schemas, NEW r, r = [f \in Names(schema) |-> r[f]],
         \A f \in Names(schema) : r[f] \in Content(KindOf(schema, f))
  PROVE  r \in Messages(schema)
<1> DEFINE contents == UNION {Content(schema[i].kind) : i \in DOMAIN schema}
<1>1. ASSUME NEW f \in Names(schema)
      PROVE  r[f] \in contents
  <2>1. Position(schema, f) \in DOMAIN schema
    BY PositionOf
  <2>2. Content(KindOf(schema, f)) \in {Content(schema[i].kind) : i \in DOMAIN schema}
    BY <2>1 DEF KindOf
  <2> QED  BY <2>2
<1>2. r \in [Names(schema) -> contents]
  <2> HIDE DEF contents
  <2> QED  BY <1>1
<1> QED  BY <1>2 DEF Messages

\* Every request is a message of its type.
LEMMA ServiceMessages ==
  ASSUME NEW n \in Text, NEW op \in Int, NEW h \in {Addr, Absent}
  PROVE  ServiceRequest(n, op, h) \in Messages(ServiceRequestPb)
<1> DEFINE r == ServiceRequest(n, op, h)
<1>1. r = [f \in Names(ServiceRequestPb) |-> r[f]]
  BY RequestSchemas DEF ServiceRequest
<1>2. \A f \in Names(ServiceRequestPb) : r[f] \in Content(KindOf(ServiceRequestPb, f))
  BY RequestSchemas, FieldsAt, ExchangeAssumption DEF Content, ServiceRequest, String
<1>3. ServiceRequestPb \in Schemas
  BY DEF Schemas
<1>4. r \in Messages(ServiceRequestPb)
  <2> HIDE DEF r
  <2> QED  BY <1>1, <1>2, <1>3, IsMessage
<1> QED  BY <1>4

LEMMA RpcMessages ==
  ASSUME NEW n \in Text, NEW ps \in Struct
  PROVE  RpcRequest(n, ps) \in Messages(RpcRequestPb)
<1> DEFINE r == RpcRequest(n, ps)
<1>1. r = [f \in Names(RpcRequestPb) |-> r[f]]
  BY RequestSchemas DEF RpcRequest
<1>2. \A f \in Names(RpcRequestPb) : r[f] \in Content(KindOf(RpcRequestPb, f))
  BY RequestSchemas, FieldsAt DEF Content, RpcRequest, String
<1>3. RpcRequestPb \in Schemas
  BY DEF Schemas
<1>4. r \in Messages(RpcRequestPb)
  <2> HIDE DEF r
  <2> QED  BY <1>1, <1>2, <1>3, IsMessage
<1> QED  BY <1>4

LEMMA TopicMessages ==
  ASSUME NEW key \in Text, NEW op \in Int, NEW msg \in String
  PROVE  TopicRequest(key, op, msg) \in Messages(TopicRequestPb)
<1> DEFINE r == TopicRequest(key, op, msg)
<1>1. r = [f \in Names(TopicRequestPb) |-> r[f]]
  BY RequestSchemas DEF TopicRequest
<1>2. \A f \in Names(TopicRequestPb) : r[f] \in Content(KindOf(TopicRequestPb, f))
  BY RequestSchemas, FieldsAt DEF Content, TopicRequest, String
<1>3. TopicRequestPb \in Schemas
  BY DEF Schemas
<1>4. r \in Messages(TopicRequestPb)
  <2> HIDE DEF r
  <2> QED  BY <1>1, <1>2, <1>3, IsMessage
<1> QED  BY <1>4

\* What the server makes of a request.
LEMMA ServiceAsAsked ==
  ASSUME NEW n \in Text, NEW op \in Int, NEW h \in {Addr, Absent},
         NEW got \in Received(Envelope("REQ_SERVICE", ServiceRequest(n, op, h)))
  PROVE  /\ got.method = n
         /\ IF TextOK(n) THEN got = ServiceRequest(n, op, h)
            ELSE got.optype = SERVICE_REGISTRY /\ got.host = Absent
<1> DEFINE r == ServiceRequest(n, op, h)
<1>1. /\ r \in Messages(ServiceRequestPb) /\ ServiceRequestPb \in Schemas
      /\ got \in Parse(ServiceRequestPb, Serialize(ServiceRequestPb, r))
  BY ServiceMessages, RequestSchemas DEF Received, Envelope, Frame, Schemas
<1>2. r.method = n /\ r.optype = op /\ r.host = h
  BY DEF ServiceRequest
<1>3. got.method = n
  BY <1>1, <1>2, NameArrives
<1>4. CASE TextOK(n)
  <2>1. WellFormed(ServiceRequestPb, r)
    BY <1>2, <1>4, RequestSchemas, FieldsAt, ExchangeAssumption
       DEF WellFormed, Fails, Serialize, Parses, Default
  <2> QED  BY <1>1, <1>3, <1>4, <2>1, RoundTrip
<1>5. CASE ~TextOK(n)
  <2>1. got["optype"] = Default("int") /\ got["host"] = Default("host")
    BY <1>1, <1>2, <1>5, RestIsLost, RequestSchemas, FieldsAt
  <2> QED  BY <1>3, <1>5, <2>1 DEF Default, SERVICE_REGISTRY
<1> QED  BY <1>4, <1>5

LEMMA TopicAsAsked ==
  ASSUME NEW key \in Text, NEW op \in Int, NEW msg \in String,
         NEW got \in Received(Envelope("REQ_TOPIC", TopicRequest(key, op, msg)))
  PROVE  /\ got.topic_key = key
         /\ IF TextOK(key) THEN got = TopicRequest(key, op, msg)
            ELSE got.optype = TOPIC_CREATE /\ got.topic_msg = NoText
<1> DEFINE r == TopicRequest(key, op, msg)
<1> DEFINE wire == Serialize(TopicRequestPb, r)
<1>1. /\ r \in Messages(TopicRequestPb) /\ TopicRequestPb \in Schemas
      /\ got \in Parse(TopicRequestPb, wire)
  BY TopicMessages, RequestSchemas DEF Received, Envelope, Frame, Schemas
<1>2. r.topic_key = key /\ r.optype = op /\ r.topic_msg = msg
  BY DEF TopicRequest
<1>3. got.topic_key = key
  BY <1>1, <1>2, NameArrives
<1>4. CASE TextOK(key)
  <2>1. ~Fails(TopicRequestPb, wire, "topic_key") /\ ~Fails(TopicRequestPb, wire, "optype")
    BY <1>2, <1>4, RequestSchemas, FieldsAt DEF Fails, Serialize, Parses
  <2>2. Reached(TopicRequestPb, wire, "optype") /\ Reached(TopicRequestPb, wire, "topic_msg")
    BY <2>1, RequestSchemas, FieldsAt DEF Reached
  <2>3. got["optype"] = op
    <3>1. got["optype"] = Kept(TopicRequestPb, wire, "optype")
      BY <1>1, <2>1, Arrived, RequestSchemas DEF GivesUpAt
    <3> QED  BY <1>2, <2>2, <3>1, RequestSchemas DEF Kept, Serialize
  <2>4. got["topic_msg"] = msg
    <3>1. CASE GivesUpAt(TopicRequestPb, wire, "topic_msg")
      <4>1. /\ got["topic_msg"] \in LeftOf("string", wire["topic_msg"])
            /\ "topic_msg" \in DOMAIN wire
        BY <1>1, <3>1, Arrived, RequestSchemas, FieldsAt DEF GivesUpAt, Fails
      <4> QED  BY <1>2, <4>1 DEF LeftOf, Serialize
    <3>2. CASE ~GivesUpAt(TopicRequestPb, wire, "topic_msg")
      <4>1. got["topic_msg"] = Kept(TopicRequestPb, wire, "topic_msg")
        BY <1>1, <3>2, Arrived, RequestSchemas
      <4> QED  BY <1>2, <2>2, <4>1, RequestSchemas DEF Kept, Serialize
    <3> QED  BY <3>1, <3>2
  <2>5. got = [f \in {"topic_key", "optype", "topic_msg"} |-> got[f]]
    BY <1>1, ParsedHasFields, RequestSchemas
  <2>6. got = r
    BY <1>3, <2>3, <2>4, <2>5 DEF TopicRequest
  <2> QED  BY <1>3, <1>4, <2>6
<1>5. CASE ~TextOK(key)
  <2>1. got["optype"] = Default("int") /\ got["topic_msg"] = Default("string")
    BY <1>1, <1>2, <1>5, RestIsLost, RequestSchemas, FieldsAt
  <2> QED  BY <1>3, <1>5, <2>1 DEF Default, TOPIC_CREATE
<1> QED  BY <1>4, <1>5

LEMMA CallAsAsked ==
  ASSUME NEW n \in Text, NEW ps \in Struct,
         NEW got \in Received(Envelope("REQ_RPC", RpcRequest(n, ps)))
  PROVE  got.method = n
<1>1. /\ RpcRequest(n, ps) \in Messages(RpcRequestPb)
      /\ got \in Parse(RpcRequestPb, Serialize(RpcRequestPb, RpcRequest(n, ps)))
  BY RpcMessages, RequestSchemas DEF Received, Envelope, Frame
<1> QED  BY <1>1, NameArrives DEF RpcRequest

-----------------------------------------------------------------------------
(* Inboxes.                                                                 *)

LEMMA Grows ==
  ASSUME NEW l, NEW s, Fine(l, s), NEW t \in ClientHandles(l[1]), NEW w
  PROVE  /\ Fine(l, s \o <<Frame(t, w)>>)
         /\ Len(s) \in Nat /\ DOMAIN s = 1..Len(s)
         /\ DOMAIN (s \o <<Frame(t, w)>>) = 1..(Len(s) + 1)
         /\ \A i \in 1..Len(s) : (s \o <<Frame(t, w)>>)[i] = s[i]
         /\ (s \o <<Frame(t, w)>>)[Len(s) + 1] = Frame(t, w)
<1>1. PICK W : s \in Seq(Inbox(l, W))
  BY DEF Fine
<1> DEFINE S == Inbox(l, W)
<1> DEFINE T == Inbox(l, W \cup {w})
<1> DEFINE x == Frame(t, w)
<1>2. x \in T /\ S \subseteq T
  BY DEF Inbox, Frame
<1> HIDE DEF S, T, x
<1>3. s \in Seq(T)
  <2>1. s \in Seq(S)
    BY <1>1 DEF S
  <2> QED  BY <1>2, <2>1
<1>4. Len(s) \in Nat /\ DOMAIN s = 1..Len(s)
  BY <1>3
<1>5. <<x>> \in Seq(T) /\ Len(<<x>>) = 1 /\ <<x>>[1] = x
  BY <1>2
<1>6. s \o <<x>> \in Seq(T) /\ Len(s \o <<x>>) = Len(s) + 1
  BY <1>3, <1>5
<1>7. DOMAIN (s \o <<x>>) = 1..(Len(s) + 1)
  BY <1>4, <1>6
<1>8. /\ \A i \in 1..Len(s) : (s \o <<x>>)[i] = s[i]
      /\ (s \o <<x>>)[Len(s) + 1] = x
  BY <1>3, <1>4, <1>5
<1>9. Fine(l, s \o <<x>>)
  BY <1>6 DEF Fine, T
<1> QED  BY <1>4, <1>7, <1>8, <1>9 DEF x

LEMMA AddNotice ==
  ASSUME NEW l, NEW s, Fine(l, s), NEW t \in ClientHandles(l[1]), t # AnswerType(l[1]), NEW w
  PROVE  Fine(l, s \o <<Frame(t, w)>>) /\ Answers(l, s \o <<Frame(t, w)>>) = Answers(l, s)
<1> DEFINE q == s \o <<Frame(t, w)>>
<1>1. Frame(t, w).mtype # AnswerType(l[1])
  BY DEF Frame
<1>2. /\ Fine(l, q) /\ Len(s) \in Nat /\ DOMAIN s = 1..Len(s) /\ DOMAIN q = 1..(Len(s) + 1)
      /\ \A i \in 1..Len(s) : q[i] = s[i]
      /\ q[Len(s) + 1].mtype # AnswerType(l[1])
  BY <1>1, Grows
<1>3. Answers(l, q) = Answers(l, s)
  <2> HIDE DEF q
  <2> QED  BY <1>2 DEF Answers
<1> QED  BY <1>2, <1>3

LEMMA AddAnswer ==
  ASSUME NEW l, NEW s, Fine(l, s), Answers(l, s) = {}, AnswerType(l[1]) \in ClientHandles(l[1]),
         NEW w
  PROVE  /\ Fine(l, s \o <<Frame(AnswerType(l[1]), w)>>)
         /\ \A i, j \in Answers(l, s \o <<Frame(AnswerType(l[1]), w)>>) : i = j
<1> DEFINE q == s \o <<Frame(AnswerType(l[1]), w)>>
<1>1. /\ Fine(l, q) /\ Len(s) \in Nat /\ DOMAIN s = 1..Len(s) /\ DOMAIN q = 1..(Len(s) + 1)
      /\ \A i \in 1..Len(s) : q[i] = s[i]
  BY Grows
<1>2. \A i, j \in Answers(l, q) : i = j
  <2> HIDE DEF q
  <2> QED  BY <1>1 DEF Answers
<1> QED  BY <1>1, <1>2

LEMMA AddNothing == ASSUME NEW l, NEW s, Fine(l, s) PROVE s \o <<>> = s
<1>1. PICK W : s \in Seq(Inbox(l, W))
  BY DEF Fine
<1> QED  BY <1>1

LEMMA Drops ==
  ASSUME NEW l, NEW s, Fine(l, s), s # <<>>
  PROVE  /\ Fine(l, Tail(s))
         /\ Head(s).mtype \in ClientHandles(l[1])
         /\ Head(s).mtype = AnswerType(l[1]) <=> 1 \in Answers(l, s)
         /\ \A i \in Answers(l, Tail(s)) : i \in Nat \ {0} /\ i + 1 \in Answers(l, s)
<1>1. PICK W : s \in Seq(Inbox(l, W))
  BY DEF Fine
<1> DEFINE S == Inbox(l, W)
<1>2. \A x \in S : x.mtype \in ClientHandles(l[1])
  BY DEF Inbox
<1> HIDE DEF S
<1>3. /\ Tail(s) \in Seq(S) /\ Head(s) \in S /\ Head(s) = s[1] /\ 1 \in DOMAIN s
      /\ \A i \in DOMAIN Tail(s) : i \in Nat \ {0} /\ i + 1 \in DOMAIN s /\ Tail(s)[i] = s[i + 1]
  <2>1. s \in Seq(S)
    BY <1>1 DEF S
  <2> QED  BY <2>1
<1>4. Fine(l, Tail(s))
  BY <1>3 DEF Fine, S
<1> QED  BY <1>2, <1>3, <1>4 DEF Answers

-----------------------------------------------------------------------------
(* What a client sends, what a server takes, what a client gets.            *)

LEMMA Sends ==
  ASSUME TrafficOK, FlowOK, NEW l \in Link, NEW r \in Requests(l[1]), asked[l] = None,
         Send(l, RequestType(l[1]), r), toClient' = toClient
  PROVE  /\ TrafficOK' /\ FlowOK' /\ asked' = [asked EXCEPT ![l] = r]
<1>1. /\ asked' = [asked EXCEPT ![l] = r] /\ handled' = [handled EXCEPT ![l] = None]
      /\ toServer' = [toServer EXCEPT ![l] = Append(@, Envelope(RequestType(l[1]), r))]
  BY DEF Send
<1>2. toServer[l] = <<>>
  BY DEF FlowOK, RequestOK
<1>3. asked'[l] = r /\ handled'[l] = None /\ r # None
  BY <1>1, NoneIsNoRequest DEF TrafficOK
<1>4. toServer'[l] = <<Envelope(RequestType(l[1]), r)>>
  BY <1>1, <1>2 DEF TrafficOK
<1>5. \A k \in Link \ {l} : asked'[k] = asked[k] /\ handled'[k] = handled[k] /\ toServer'[k] = toServer[k]
  BY <1>1 DEF TrafficOK
<1>6. TrafficOK'
  BY <1>1, <1>3, <1>5 DEF TrafficOK
<1>7. RequestOK(l)' /\ AnswerOK(l)'
  BY <1>2, <1>3, <1>4 DEF RequestOK, AnswerOK, Asked, FlowOK
<1>8. \A k \in Link \ {l} : RequestOK(k)' /\ AnswerOK(k)'
  BY <1>5 DEF RequestOK, AnswerOK, Asked, FlowOK
<1> QED  BY <1>1, <1>6, <1>7, <1>8 DEF FlowOK

LEMMA Taken ==
  ASSUME TrafficOK, FlowOK, NEW l \in Link, NEW t, NEW m, Takes(l, t, m)
  PROVE  /\ t = RequestType(l[1]) /\ asked[l] \in Requests(l[1])
         /\ m \in Received(Asked(l)) /\ Answers(l, toClient[l]) = {}
         /\ toServer'[l] = <<>> /\ handled'[l] = m
         /\ \A k \in Link \ {l} : toServer'[k] = toServer[k] /\ handled'[k] = handled[k]
<1>1. toServer[l] = <<Asked(l)>> /\ asked[l] # None
  BY DEF FlowOK, RequestOK, Takes
<1>2. Head(toServer[l]) = Asked(l) /\ Tail(toServer[l]) = <<>>
  BY <1>1
<1>3. Asked(l).mtype = RequestType(l[1])
  BY DEF Asked, Envelope, Frame
<1>4. Answers(l, toClient[l]) = {}
  BY <1>1 DEF FlowOK, AnswerOK
<1>5. /\ toServer'[l] = Tail(toServer[l]) /\ handled'[l] = m
      /\ \A k \in Link \ {l} : toServer'[k] = toServer[k] /\ handled'[k] = handled[k]
  BY DEF Takes, TrafficOK
<1> QED  BY <1>1, <1>2, <1>3, <1>4, <1>5 DEF Takes, TrafficOK

\* The server that has taken a request answers it, and tells others what it
\* has to.
LEMMA Served ==
  ASSUME TrafficOK, FlowOK, NEW l \in Link, NEW t, NEW m, Takes(l, t, m), asked' = asked,
         toClient' = [k \in Link |-> toClient'[k]],
         \A k \in Link : Fine(k, toClient'[k]),
         \A i, j \in Answers(l, toClient'[l]) : i = j,
         \A k \in Link \ {l} : Answers(k, toClient'[k]) = Answers(k, toClient[k]) /\
           \A i, j \in Answers(k, toClient'[k]) : i = j
  PROVE  TrafficOK' /\ FlowOK'
<1>1. /\ asked[l] \in Requests(l[1]) /\ m \in Received(Asked(l))
      /\ toServer'[l] = <<>> /\ handled'[l] = m
      /\ \A k \in Link \ {l} : toServer'[k] = toServer[k] /\ handled'[k] = handled[k]
  BY Taken
<1>2. TrafficOK'
  BY DEF TrafficOK, Takes
<1>3. RequestOK(l)' /\ AnswerOK(l)'
  BY <1>1, NoneIsNoRequest DEF RequestOK, AnswerOK, Asked
<1>4. ASSUME NEW k \in Link \ {l}
      PROVE  RequestOK(k)' /\ AnswerOK(k)'
  <2>1. RequestOK(k) /\ AnswerOK(k)
    BY DEF FlowOK
  <2> QED  BY <1>1, <2>1 DEF RequestOK, AnswerOK, Asked
<1> QED  BY <1>2, <1>3, <1>4 DEF FlowOK

LEMMA Gotten ==
  ASSUME TrafficOK, FlowOK, NEW l \in Link, NEW t, NEW m, Gets(l, t, m),
         UNCHANGED <<toServer, handled>>,
         \/ t # AnswerType(l[1]) /\ asked' = asked
         \/ t = AnswerType(l[1]) /\ Answered(l)
  PROVE  /\ TrafficOK' /\ FlowOK' /\ t \in ClientHandles(l[1])
         /\ t = AnswerType(l[1]) => asked[l] # None /\ asked' = [asked EXCEPT ![l] = None]
<1>1. /\ toClient[l] # <<>> /\ Head(toClient[l]).mtype = t
      /\ toClient' = [toClient EXCEPT ![l] = Tail(@)]
  BY DEF Gets
<1>2. /\ Fine(l, Tail(toClient[l])) /\ t \in ClientHandles(l[1])
      /\ t = AnswerType(l[1]) <=> 1 \in Answers(l, toClient[l])
      /\ \A i \in Answers(l, Tail(toClient[l])) : i \in Nat \ {0} /\ i + 1 \in Answers(l, toClient[l])
  BY <1>1, Drops DEF TrafficOK
<1>3. toClient'[l] = Tail(toClient[l]) /\ (\A k \in Link \ {l} : toClient'[k] = toClient[k])
  BY <1>1 DEF TrafficOK
<1>4. RequestOK(l) /\ AnswerOK(l)
  BY DEF FlowOK
<1>5. CASE t # AnswerType(l[1]) /\ asked' = asked
  <2>1. TrafficOK'
    BY <1>1, <1>2, <1>3, <1>5 DEF TrafficOK
  <2>2. \A k \in Link : RequestOK(k)'
    BY <1>5 DEF FlowOK, RequestOK, Asked
  <2>3. AnswerOK(l)'
    BY <1>2, <1>3, <1>4, <1>5 DEF AnswerOK
  <2>4. \A k \in Link \ {l} : AnswerOK(k)'
    BY <1>3, <1>5 DEF FlowOK, AnswerOK
  <2> QED  BY <1>2, <1>5, <2>1, <2>2, <2>3, <2>4 DEF FlowOK
<1>6. CASE t = AnswerType(l[1]) /\ Answered(l)
  <2>1. asked' = [asked EXCEPT ![l] = None] /\ toServer[l] = <<>> /\ asked[l] # None
    BY <1>2, <1>4, <1>6 DEF Answered, AnswerOK
  <2>2. asked'[l] = None /\ (\A k \in Link \ {l} : asked'[k] = asked[k])
    BY <2>1 DEF TrafficOK
  <2>3. TrafficOK'
    BY <1>1, <1>2, <1>3, <2>1, <2>2 DEF TrafficOK
  <2>4. Answers(l, toClient'[l]) = {}
    <3>1. SUFFICES ASSUME NEW i \in Answers(l, toClient'[l]) PROVE FALSE
      OBVIOUS
    <3>2. i \in Nat \ {0} /\ i + 1 \in Answers(l, toClient[l]) /\ 1 \in Answers(l, toClient[l])
      BY <1>2, <1>3, <1>6, <3>1
    <3> QED  BY <1>4, <3>2 DEF AnswerOK
  <2>5. RequestOK(l)' /\ AnswerOK(l)'
    BY <2>1, <2>2, <2>4 DEF RequestOK, AnswerOK
  <2>6. \A k \in Link \ {l} : RequestOK(k)' /\ AnswerOK(k)'
    BY <1>3, <2>2 DEF FlowOK, RequestOK, AnswerOK, Asked
  <2> QED  BY <1>2, <2>1, <2>3, <2>5, <2>6 DEF FlowOK
<1> QED  BY <1>5, <1>6

-----------------------------------------------------------------------------
(* The actions.                                                             *)

LEMMA InitXInv == Init => XInv
<1>1. SUFFICES ASSUME Init PROVE XInv
  OBVIOUS
<1>2. TrafficOK
  <2>1. \A l \in Link : toClient[l] \in Seq(Inbox(l, {}))
    BY <1>1 DEF Init
  <2> QED  BY <1>1, <2>1 DEF Init, TrafficOK, Fine
<1>3. FlowOK
  BY <1>1 DEF Init, FlowOK, RequestOK, AnswerOK, Answers
<1>4. CallTypeOK /\ CallsOK /\ TellsOK
  BY <1>1, Links DEF Init, CallTypeOK, CallsOK, TellsOK
<1> QED  BY <1>2, <1>3, <1>4 DEF XInv

LEMMA RegisterServiceXInv == ASSUME XInv, NEW s \in Service, RegisterService(s) PROVE XInv'
<1>1. /\ UNCHANGED <<discoverers, members, calls, asked, toServer, toClient, handled>>
      /\ announcing' = s /\ asked[Registrar] = None
  BY DEF RegisterService, registryVars, topicVars, userVars
<1>2. TrafficOK' /\ FlowOK'
  BY <1>1 DEF XInv, TrafficOK, FlowOK, RequestOK, AnswerOK, Asked
<1> QED  BY <1>1, <1>2 DEF XInv, CallTypeOK, CallsOK, TellsOK

LEMMA AnnounceXInv == ASSUME XInv, Announce PROVE XInv'
<1> DEFINE r == ServiceRequest(announcing.name, SERVICE_REGISTRY, Addr)
<1>1. /\ UNCHANGED <<discoverers, members, calls, toClient>>
      /\ announcing # None /\ announcing' = None /\ Send(Registrar, "REQ_SERVICE", r)
  BY DEF Announce, registryVars, topicVars, userVars
<1>2. announcing \in Service /\ asked[Registrar] = None
  BY <1>1 DEF XInv, CallTypeOK, CallsOK
<1>3. r \in Requests(Registrar[1]) /\ RequestType(Registrar[1]) = "REQ_SERVICE" /\ Registrar \in Link
  BY <1>2, Links, FrontRequests, FrontTypes
<1> HIDE DEF r
<1>4. TrafficOK' /\ FlowOK' /\ asked' = [asked EXCEPT ![Registrar] = r]
  BY <1>1, <1>2, <1>3, Sends DEF XInv
<1>5. CallsOK'
  <2>1. \A u : Finder(u) # Registrar /\ Caller(u) # Registrar
    BY Links
  <2> QED  BY <1>1, <1>4, <2>1 DEF XInv, CallsOK
<1> QED  BY <1>1, <1>4, <1>5 DEF XInv, CallTypeOK, TellsOK

LEMMA CallKnownXInv ==
  ASSUME XInv, NEW u \in User, NEW n \in Method, NEW ps \in Params, NEW h, CallKnown(u, n, ps, h)
  PROVE  XInv'
<1> DEFINE c == [method |-> n, params |-> ps, host |-> h]
<1>1. /\ UNCHANGED <<announcing, discoverers, members, asked, toServer, toClient, handled>>
      /\ calls[u] = None /\ calls' = [calls EXCEPT ![u] = c]
  BY DEF CallKnown, registryVars, topicVars
<1>2. c \in [method : Method, params : Params, host : {h}]
  OBVIOUS
<1> HIDE DEF c
<1>3. calls'[u] = c /\ (\A v \in User \ {u} : calls'[v] = calls[v])
  BY <1>1 DEF XInv, CallTypeOK
<1>4. CallTypeOK'
  BY <1>1, <1>2, <1>3 DEF XInv, CallTypeOK
<1>5. TrafficOK' /\ FlowOK'
  BY <1>1 DEF XInv, TrafficOK, FlowOK, RequestOK, AnswerOK, Asked
<1>6. CallsOK'
  BY <1>1, <1>3 DEF XInv, CallsOK
<1> QED  BY <1>1, <1>4, <1>5, <1>6 DEF XInv, TellsOK

LEMMA CallUnknownXInv ==
  ASSUME XInv, NEW u \in User, NEW n \in Method, NEW ps \in Params, CallUnknown(u, n, ps)
  PROVE  XInv'
<1> DEFINE c == Hostless(n, ps)
<1> DEFINE r == ServiceRequest(n, SERVICE_DISCOVERY, Absent)
<1>1. /\ UNCHANGED <<announcing, discoverers, members, toClient>>
      /\ calls[u] = None /\ calls' = [calls EXCEPT ![u] = c] /\ u \in User \ Direct
      /\ Send(Finder(u), "REQ_SERVICE", r)
  BY DEF CallUnknown, registryVars, topicVars
<1>2. c \in [method : Method, params : Params, host : {None}] /\ c # None /\ c.host = None
  BY NoneAssumption DEF Hostless
<1>3. /\ r \in Requests(Finder(u)[1]) /\ RequestType(Finder(u)[1]) = "REQ_SERVICE"
      /\ Finder(u) \in Link /\ asked[Finder(u)] = None /\ asked[Caller(u)] = None
  BY <1>1, Links, FrontRequests, FrontTypes DEF XInv, CallsOK
<1> HIDE DEF c, r
<1>4. calls'[u] = c /\ (\A v \in User \ {u} : calls'[v] = calls[v])
  BY <1>1 DEF XInv, CallTypeOK
<1>5. TrafficOK' /\ FlowOK' /\ asked' = [asked EXCEPT ![Finder(u)] = r]
  BY <1>1, <1>3, Sends DEF XInv
<1>6. CallTypeOK'
  BY <1>1, <1>2, <1>4 DEF XInv, CallTypeOK
<1>7. \A k \in Link \ {Finder(u)} : asked'[k] = asked[k]
  BY <1>5 DEF XInv, TrafficOK
<1>8. CallsOK'
  <2>1. Registrar # Finder(u) /\ (\A v : Caller(v) # Finder(u)) /\ (\A v : Finder(v) = Finder(u) => v = u)
    BY Links
  <2> QED  BY <1>1, <1>2, <1>3, <1>4, <1>7, <2>1, Links DEF XInv, CallsOK
<1> QED  BY <1>1, <1>5, <1>6, <1>8 DEF XInv, TellsOK

LEMMA SendCallXInv == ASSUME XInv, NEW u \in User, SendCall(u) PROVE XInv'
<1> DEFINE r == RpcRequest(calls[u].method, calls[u].params)
<1>1. /\ UNCHANGED <<announcing, discoverers, members, calls, toClient>>
      /\ calls[u] # None /\ asked[Caller(u)] = None /\ calls[u].host = Addr
      /\ Send(Caller(u), "REQ_RPC", r)
  BY DEF SendCall, registryVars, topicVars, userVars
<1>2. calls[u].method \in Method /\ calls[u].params \in Params
  BY <1>1 DEF XInv, CallTypeOK
<1>3. r \in Requests(Caller(u)[1]) /\ RequestType(Caller(u)[1]) = "REQ_RPC" /\ Caller(u) \in Link
  BY <1>2, Links, FrontRequests, FrontTypes
<1> HIDE DEF r
<1>4. TrafficOK' /\ FlowOK' /\ asked' = [asked EXCEPT ![Caller(u)] = r]
  BY <1>1, <1>3, Sends DEF XInv
<1>5. \A k \in Link \ {Caller(u)} : asked'[k] = asked[k]
  BY <1>4 DEF XInv, TrafficOK
<1>6. CallsOK'
  <2>1. u \in User \ Direct => asked[Finder(u)] = None
    BY <1>1, NoneAssumption DEF XInv, CallsOK
  <2>2. Registrar # Caller(u) /\ (\A v : Finder(v) # Caller(u)) /\ (\A v : Caller(v) = Caller(u) => v = u)
    BY Links
  <2> QED  BY <1>1, <1>5, <2>1, <2>2, Links DEF XInv, CallsOK
<1> QED  BY <1>1, <1>4, <1>6 DEF XInv, CallTypeOK, TellsOK

LEMMA AskTopicXInv ==
  ASSUME XInv, NEW t \in Member, NEW key \in Topic, NEW op \in TOPIC_CREATE..TOPIC_PUBLISH,
         NEW msg \in Payload, AskTopic(t, key, op, msg)
  PROVE  XInv'
<1> DEFINE r == TopicRequest(key, op, msg)
<1>1. /\ UNCHANGED <<announcing, discoverers, members, calls, toClient>>
      /\ asked[Topics(t)] = None /\ Send(Topics(t), "REQ_TOPIC", r)
  BY DEF AskTopic, registryVars, topicVars, userVars
<1>2. r \in Requests(Topics(t)[1]) /\ RequestType(Topics(t)[1]) = "REQ_TOPIC" /\ Topics(t) \in Link
  BY Links, FrontRequests, FrontTypes
<1> HIDE DEF r
<1>3. TrafficOK' /\ FlowOK' /\ asked' = [asked EXCEPT ![Topics(t)] = r]
  BY <1>1, <1>2, Sends DEF XInv
<1>4. CallsOK'
  <2>1. Registrar # Topics(t) /\ (\A v : Finder(v) # Topics(t) /\ Caller(v) # Topics(t))
    BY Links
  <2> QED  BY <1>1, <1>3, <2>1 DEF XInv, CallsOK
<1> QED  BY <1>1, <1>3, <1>4 DEF XInv, CallTypeOK, TellsOK

\* What a server's handler leaves alone.
LEMMA ServedXInv ==
  ASSUME XInv, TrafficOK', FlowOK', UNCHANGED <<announcing, calls, asked>>, TellsOK'
  PROVE  XInv'
BY DEF XInv, CallTypeOK, CallsOK

\* A handler that only answers.
LEMMA Replies ==
  ASSUME XInv, NEW l \in Link, NEW t, NEW m, Takes(l, t, m), UNCHANGED asked,
         AnswerType(l[1]) \in ClientHandles(l[1]), NEW a, Reply(l, AnswerType(l[1]), a)
  PROVE  TrafficOK' /\ FlowOK'
<1> DEFINE w == Serialize(Schema(AnswerType(l[1])), a)
<1> DEFINE q == toClient[l] \o <<Frame(AnswerType(l[1]), w)>>
<1>1. Fine(l, toClient[l]) /\ Answers(l, toClient[l]) = {}
  BY Taken DEF XInv, TrafficOK
<1>2. toClient' = [toClient EXCEPT ![l] = q]
  <2>1. PICK W : toClient[l] \in Seq(Inbox(l, W))
    BY <1>1 DEF Fine
  <2>2. \A x : Append(toClient[l], x) = toClient[l] \o <<x>>
    BY <2>1
  <2> QED  BY <2>2 DEF Reply, Envelope
<1> HIDE DEF w
<1>3. Fine(l, q) /\ (\A i, j \in Answers(l, q) : i = j)
  BY <1>1, AddAnswer
<1> HIDE DEF q
<1>4. toClient'[l] = q /\ (\A k \in Link \ {l} : toClient'[k] = toClient[k])
  BY <1>2 DEF XInv, TrafficOK
<1>5. toClient' = [k \in Link |-> toClient'[k]]
  BY <1>2 DEF XInv, TrafficOK
<1>6. \A k \in Link : Fine(k, toClient'[k])
  BY <1>3, <1>4 DEF XInv, TrafficOK
<1>7. ASSUME NEW k \in Link \ {l}
      PROVE  /\ Answers(k, toClient'[k]) = Answers(k, toClient[k])
             /\ \A i, j \in Answers(k, toClient'[k]) : i = j
  BY <1>4 DEF XInv, FlowOK, AnswerOK
<1> QED  BY <1>3, <1>4, <1>5, <1>6, <1>7, Served DEF XInv

\* A handler tells some clients of what happened and then answers.
Tells(l, told, notice, v, w) ==
  /\ \A k \in Link : k \in told => notice \in ClientHandles(k[1]) /\ notice # AnswerType(k[1])
  /\ toClient' = [k \in Link |->
       toClient[k] \o (IF k \in told THEN <<Frame(notice, v)>> ELSE <<>>)
                   \o (IF k = l THEN <<Frame(AnswerType(l[1]), w)>> ELSE <<>>)]

LEMMA TellsAndAnswers ==
  ASSUME XInv, NEW l \in Link, NEW t, NEW m, Takes(l, t, m), UNCHANGED asked,
         AnswerType(l[1]) \in ClientHandles(l[1]),
         NEW told, NEW notice, NEW v, NEW w, Tells(l, told, notice, v, w)
  PROVE  TrafficOK' /\ FlowOK'
<1> USE DEF Tells
<1> DEFINE q(k) == toClient[k] \o (IF k \in told THEN <<Frame(notice, v)>> ELSE <<>>)
<1>1. \A k \in Link : Fine(k, toClient[k])
  BY DEF XInv, TrafficOK
<1>2. ASSUME NEW k \in Link
      PROVE  Fine(k, q(k)) /\ Answers(k, q(k)) = Answers(k, toClient[k])
  <2>1. CASE k \in told
    <3>1. q(k) = toClient[k] \o <<Frame(notice, v)>>
      BY <2>1
    <3> HIDE DEF q
    <3> QED  BY <1>1, <2>1, <3>1, AddNotice
  <2>2. CASE k \notin told
    <3>1. q(k) = toClient[k]
      BY <1>1, <2>2, AddNothing
    <3> HIDE DEF q
    <3> QED  BY <1>1, <3>1
  <2> QED  BY <2>1, <2>2
<1>3. /\ toClient'[l] = q(l) \o <<Frame(AnswerType(l[1]), w)>>
      /\ \A k \in Link \ {l} : toClient'[k] = q(k) \o <<>>
  OBVIOUS
<1> HIDE DEF q
<1>5. \A k \in Link \ {l} : toClient'[k] = q(k)
  BY <1>2, <1>3, AddNothing
<1>6. Fine(l, toClient'[l]) /\ (\A i, j \in Answers(l, toClient'[l]) : i = j)
  <2>1. Answers(l, q(l)) = {}
    BY <1>2, Taken DEF XInv
  <2> DEFINE s == q(l)
  <2>2. Fine(l, s) /\ Answers(l, s) = {} /\ toClient'[l] = s \o <<Frame(AnswerType(l[1]), w)>>
    BY <1>2, <1>3, <2>1
  <2> HIDE DEF s
  <2> QED  BY <2>2, AddAnswer
<1>7. \A k \in Link : Fine(k, toClient'[k])
  BY <1>2, <1>5, <1>6
<1>8. ASSUME NEW k \in Link \ {l}
      PROVE  /\ Answers(k, toClient'[k]) = Answers(k, toClient[k])
             /\ \A i, j \in Answers(k, toClient'[k]) : i = j
  BY <1>2, <1>5 DEF XInv, FlowOK, AnswerOK
<1>9. toClient' = [k \in Link |-> toClient'[k]]
  OBVIOUS
<1> QED  BY <1>6, <1>7, <1>8, <1>9, Served DEF XInv

LEMMA RouterXInv == ASSUME XInv, NEW l \in Link, NEW m, RouterHandles(l, m) PROVE XInv'
<1>1. /\ UNCHANGED <<announcing, discoverers, members, calls, asked>>
      /\ Takes(l, "REQ_RPC", m) /\ Reply(l, "RSP_RPC", OnRpcRequest(m))
  BY DEF RouterHandles, registryVars, topicVars, userVars
<1>2. l[1] = "RpcClient"
  BY <1>1, Taken, Fronts, FrontTypes DEF XInv
<1>3. AnswerType(l[1]) = "RSP_RPC" /\ "RSP_RPC" \in ClientHandles(l[1])
  BY <1>2, FrontTypes
<1>4. TrafficOK' /\ FlowOK'
  BY <1>1, <1>3, Replies
<1>5. TellsOK'
  BY <1>1 DEF XInv, TellsOK
<1> QED  BY <1>1, <1>4, <1>5, ServedXInv

\* The registry is told of methods by RpcServers and asked by RpcClients.
LEMMA RegistryTakes ==
  ASSUME XInv, NEW l \in Link, NEW m, Takes(l, "REQ_SERVICE", m)
  PROVE  /\ AnswerType(l[1]) = "RSP_SERVICE" /\ "RSP_SERVICE" \in ClientHandles(l[1])
         /\ m.optype = SERVICE_DISCOVERY => l[1] = "DiscoverClient"
<1>1. /\ RequestType(l[1]) = "REQ_SERVICE" /\ asked[l] \in Requests(l[1])
      /\ m \in Received(Envelope("REQ_SERVICE", asked[l]))
  BY Taken DEF XInv, Asked
<1>2. l[1] \in {"RegisterClient", "DiscoverClient"}
  BY <1>1, Fronts, FrontTypes
<1>3. ASSUME l[1] = "RegisterClient"
      PROVE  m.optype = SERVICE_REGISTRY
  <2>1. PICK s \in Service : asked[l] = ServiceRequest(s.name, SERVICE_REGISTRY, Addr)
    BY <1>1, <1>3, FrontRequests
  <2>2. s.name \in Text
    BY RouterAssumption
  <2>3. m = ServiceRequest(s.name, SERVICE_REGISTRY, Addr) \/ m.optype = SERVICE_REGISTRY
    BY <1>1, <2>1, <2>2, ServiceAsAsked DEF SERVICE_REGISTRY
  <2> QED  BY <2>3 DEF ServiceRequest
<1> QED  BY <1>2, <1>3, FrontTypes DEF SERVICE_REGISTRY, SERVICE_DISCOVERY

LEMMA RegistryXInv == ASSUME XInv, NEW l \in Link, NEW m, RegistryHandles(l, m) PROVE XInv'
<1>1. /\ UNCHANGED <<announcing, members, calls, asked>>
      /\ Takes(l, "REQ_SERVICE", m) /\ (Registers(l, m) \/ Discovers(l, m))
  BY DEF RegistryHandles, topicVars, userVars
<1>2. /\ AnswerType(l[1]) = "RSP_SERVICE" /\ "RSP_SERVICE" \in ClientHandles(l[1])
      /\ m.optype = SERVICE_DISCOVERY => l[1] = "DiscoverClient"
  BY <1>1, RegistryTakes
<1>3. CASE Registers(l, m)
  <2> DEFINE v == Serialize(Schema("REQ_SERVICE"), ServiceRequest(m.method, SERVICE_ONLINE, HostIn(m.host)))
  <2> DEFINE w == Serialize(Schema("RSP_SERVICE"), ServiceAnswer(RCODE_OK, SERVICE_REGISTRY, NoText, <<>>))
  <2> DEFINE told == Told(m.method)
  <2>1. UNCHANGED discoverers /\
        toClient' = [k \in Link |->
          toClient[k] \o (IF k \in told THEN <<Frame("REQ_SERVICE", v)>> ELSE <<>>)
                      \o (IF k = l THEN <<Frame(AnswerType(l[1]), w)>> ELSE <<>>)]
    <3>1. told = Told(m.method)
      OBVIOUS
    <3> HIDE DEF told
    <3> QED  BY <1>2, <1>3, <3>1 DEF Registers, Envelope
  <2>2. \A k \in Link : k \in told =>
          "REQ_SERVICE" \in ClientHandles(k[1]) /\ "REQ_SERVICE" # AnswerType(k[1])
    <3>1. \A k \in Link : k \in told => k[1] = "DiscoverClient"
      BY DEF Told, XInv, TellsOK
    <3> QED  BY <3>1, FrontTypes
  <2>3. Tells(l, told, "REQ_SERVICE", v, w)
    BY <2>1, <2>2 DEF Tells
  <2> HIDE DEF v, w, told
  <2>4. TrafficOK' /\ FlowOK'
    BY <1>1, <1>2, <2>3, TellsAndAnswers
  <2>5. TellsOK'
    BY <1>1, <2>1 DEF XInv, TellsOK
  <2> QED  BY <1>1, <2>4, <2>5, ServedXInv
<1>4. CASE Discovers(l, m)
  <2>1. PICK a : Reply(l, "RSP_SERVICE", a)
    BY <1>4 DEF Discovers
  <2>2. TrafficOK' /\ FlowOK'
    BY <1>1, <1>2, <2>1, Replies
  <2>3. TellsOK'
    BY <1>1, <1>2, <1>4 DEF XInv, TellsOK, Discovers
  <2> QED  BY <1>1, <2>2, <2>3, ServedXInv
<1> QED  BY <1>1, <1>3, <1>4

LEMMA TopicXInv == ASSUME XInv, NEW l \in Link, NEW m, TopicHandles(l, m) PROVE XInv'
<1>1. /\ UNCHANGED <<announcing, discoverers, calls, asked>>
      /\ Takes(l, "REQ_TOPIC", m) /\ members' = MembersAfter(l, m)
  BY DEF TopicHandles, registryVars, userVars
<1>2. l[1] = "TopicClient"
  BY <1>1, Taken, Fronts, FrontTypes DEF XInv
<1>3. AnswerType(l[1]) = "RSP_TOPIC" /\ "RSP_TOPIC" \in ClientHandles(l[1])
  BY <1>2, FrontTypes
<1> DEFINE v == Serialize(Schema("REQ_TOPIC"), m)
<1> DEFINE w == Serialize(Schema("RSP_TOPIC"), TopicAnswer(TopicRcode(m)))
<1> DEFINE told == {k \in Link : m.optype = TOPIC_PUBLISH /\ <<k, m.topic_key>> \in members}
<1>4. toClient' = [k \in Link |->
        toClient[k] \o (IF k \in told THEN <<Frame("REQ_TOPIC", v)>> ELSE <<>>)
                    \o (IF k = l THEN <<Frame(AnswerType(l[1]), w)>> ELSE <<>>)]
  <2>1. \A k : k \in told <=> k \in {j \in Link : m.optype = TOPIC_PUBLISH /\ <<j, m.topic_key>> \in members}
    OBVIOUS
  <2> HIDE DEF told
  <2> QED  BY <1>3, <2>1 DEF TopicHandles, Envelope
<1>5. \A k \in Link : k \in told =>
        "REQ_TOPIC" \in ClientHandles(k[1]) /\ "REQ_TOPIC" # AnswerType(k[1])
  <2>1. \A k \in told : k[1] = "TopicClient"
    BY DEF XInv, TellsOK
  <2> QED  BY <2>1, FrontTypes
<1>6. Tells(l, told, "REQ_TOPIC", v, w)
  BY <1>4, <1>5 DEF Tells
<1> HIDE DEF v, w, told
<1>7. TrafficOK' /\ FlowOK'
  BY <1>1, <1>3, <1>6, TellsAndAnswers
<1>8. TellsOK'
  BY <1>1, <1>2 DEF XInv, TellsOK, MembersAfter
<1> QED  BY <1>1, <1>7, <1>8, ServedXInv

LEMMA RegistrarXInv == ASSUME XInv, NEW m, RegistrarReturns(m) PROVE XInv'
<1>1. /\ UNCHANGED <<announcing, discoverers, members, calls, toServer, handled>>
      /\ Gets(Registrar, "RSP_SERVICE", m) /\ Answered(Registrar)
  BY DEF RegistrarReturns, registryVars, topicVars, userVars
<1>2. Registrar \in Link /\ AnswerType(Registrar[1]) = "RSP_SERVICE"
  BY Links, FrontTypes
<1>3. TrafficOK' /\ FlowOK' /\ asked' = [asked EXCEPT ![Registrar] = None]
  BY <1>1, <1>2, Gotten DEF XInv
<1>4. CallsOK'
  <2>1. \A u : Finder(u) # Registrar /\ Caller(u) # Registrar
    BY Links
  <2>2. asked'[Registrar] = None
    BY <1>2, <1>3 DEF XInv, TrafficOK
  <2> QED  BY <1>1, <1>3, <2>1, <2>2 DEF XInv, CallsOK
<1> QED  BY <1>1, <1>3, <1>4 DEF XInv, CallTypeOK, TellsOK

\* A user's call goes on with a host, or ends.
LEMMA UserMoves ==
  ASSUME XInv, NEW u \in User, calls[u] # None,
         NEW h, calls' = [calls EXCEPT ![u].host = h] \/ calls' = [calls EXCEPT ![u] = None],
         UNCHANGED announcing
  PROVE  CallTypeOK' /\ (\A v \in User \ {u} : calls'[v] = calls[v])
           /\ (calls' = [calls EXCEPT ![u] = None] => calls'[u] = None)
<1>1. PICK H : calls[u] \in [method : Method, params : Params, host : H]
  BY DEF XInv, CallTypeOK
<1>2. \A v \in User \ {u} : calls'[v] = calls[v]
  BY DEF XInv, CallTypeOK
<1>3. CASE calls' = [calls EXCEPT ![u].host = h]
  <2>1. calls'[u] = [calls[u] EXCEPT !.host = h]
    BY <1>3 DEF XInv, CallTypeOK
  <2>2. calls'[u] \in [method : Method, params : Params, host : H \cup {h}]
    BY <1>1, <2>1
  <2>3. \E G : calls'[u] \in [method : Method, params : Params, host : G] \cup {None}
    BY <2>2
  <2> QED  BY <1>2, <1>3, <2>3 DEF XInv, CallTypeOK
<1>4. CASE calls' = [calls EXCEPT ![u] = None]
  <2>1. calls'[u] = None
    BY <1>4 DEF XInv, CallTypeOK
  <2> QED  BY <1>2, <1>4, <2>1 DEF XInv, CallTypeOK
<1> QED  BY <1>2, <1>3, <1>4 DEF XInv, CallTypeOK

LEMMA DiscoveryXInv ==
  ASSUME XInv, NEW u \in User, Finder(u) \in Link, NEW m, DiscoveryReturns(u, m)
  PROVE  XInv'
<1>1. /\ UNCHANGED <<announcing, discoverers, members, toServer, handled>>
      /\ Gets(Finder(u), "RSP_SERVICE", m) /\ Answered(Finder(u))
      /\ \/ calls' = [calls EXCEPT ![u].host = Head(m.hosts)]
         \/ calls' = [calls EXCEPT ![u] = None]
  BY DEF DiscoveryReturns, Ends, registryVars, topicVars
<1>2. AnswerType(Finder(u)[1]) = "RSP_SERVICE" /\ u \in User \ Direct
  BY Links, FrontTypes
<1>3. /\ TrafficOK' /\ FlowOK' /\ asked[Finder(u)] # None
      /\ asked' = [asked EXCEPT ![Finder(u)] = None]
  BY <1>1, <1>2, Gotten DEF XInv
<1>4. calls[u] # None /\ asked[Caller(u)] = None
  BY <1>2, <1>3 DEF XInv, CallsOK
<1>5. CallTypeOK' /\ (\A v \in User \ {u} : calls'[v] = calls[v])
  BY <1>1, <1>4, UserMoves
<1>6. asked'[Finder(u)] = None /\ (\A k \in Link \ {Finder(u)} : asked'[k] = asked[k])
  BY <1>3 DEF XInv, TrafficOK
<1>7. CallsOK'
  <2>1. Registrar # Finder(u) /\ (\A v : Caller(v) # Finder(u)) /\ (\A v : Finder(v) = Finder(u) => v = u)
    BY Links
  <2> QED  BY <1>1, <1>4, <1>5, <1>6, <2>1, Links DEF XInv, CallsOK
<1> QED  BY <1>1, <1>3, <1>5, <1>7 DEF XInv, TellsOK

LEMMA CallReturnsXInv ==
  ASSUME XInv, NEW u \in User, NEW m, CallReturns(u, m) PROVE XInv'
<1>1. /\ UNCHANGED <<announcing, discoverers, members, toServer, handled>>
      /\ Gets(Caller(u), "RSP_RPC", m) /\ Answered(Caller(u))
      /\ calls' = [calls EXCEPT ![u] = None]
  BY DEF CallReturns, Ends, registryVars, topicVars
<1>2. AnswerType(Caller(u)[1]) = "RSP_RPC" /\ Caller(u) \in Link
  BY Links, FrontTypes
<1>3. /\ TrafficOK' /\ FlowOK' /\ asked[Caller(u)] # None
      /\ asked' = [asked EXCEPT ![Caller(u)] = None]
  BY <1>1, <1>2, Gotten DEF XInv
<1>4. calls[u] # None /\ (u \in User \ Direct => asked[Finder(u)] = None)
  BY <1>3 DEF XInv, CallsOK
<1>5. CallTypeOK' /\ (\A v \in User \ {u} : calls'[v] = calls[v]) /\ calls'[u] = None
  BY <1>1, <1>4, UserMoves
<1>6. asked'[Caller(u)] = None /\ (\A k \in Link \ {Caller(u)} : asked'[k] = asked[k])
  BY <1>2, <1>3 DEF XInv, TrafficOK
<1>7. CallsOK'
  <2>1. Registrar # Caller(u) /\ (\A v : Finder(v) # Caller(u)) /\ (\A v : Caller(v) = Caller(u) => v = u)
    BY Links
  <2> QED  BY <1>1, <1>4, <1>5, <1>6, <2>1, Links DEF XInv, CallsOK
<1> QED  BY <1>1, <1>3, <1>5, <1>7 DEF XInv, TellsOK

LEMMA TopicReturnsXInv ==
  ASSUME XInv, NEW t \in Member, NEW m, TopicReturns(t, m) PROVE XInv'
<1>1. /\ UNCHANGED <<announcing, discoverers, members, calls, toServer, handled>>
      /\ Gets(Topics(t), "RSP_TOPIC", m) /\ Answered(Topics(t))
  BY DEF TopicReturns, registryVars, topicVars, userVars
<1>2. AnswerType(Topics(t)[1]) = "RSP_TOPIC" /\ Topics(t) \in Link
  BY Links, FrontTypes
<1>3. TrafficOK' /\ FlowOK' /\ asked' = [asked EXCEPT ![Topics(t)] = None]
  BY <1>1, <1>2, Gotten DEF XInv
<1>4. CallsOK'
  <2>1. Registrar # Topics(t) /\ (\A v : Finder(v) # Topics(t) /\ Caller(v) # Topics(t))
    BY Links
  <2> QED  BY <1>1, <1>3, <2>1 DEF XInv, CallsOK
<1> QED  BY <1>1, <1>3, <1>4 DEF XInv, CallTypeOK, TellsOK

\* A client is told something.
LEMMA PushedXInv ==
  ASSUME XInv, NEW l \in Link, NEW m,
         \/ \E u \in User : l = Finder(u) /\ FinderNoticed(u, m)
         \/ \E t \in Member : l = Topics(t) /\ TopicPushed(t, m)
  PROVE  XInv'
<1>1. UNCHANGED <<announcing, discoverers, members, calls, asked, toServer, handled>>
  BY DEF FinderNoticed, TopicPushed, registryVars, topicVars, userVars
<1>2. \E t : Gets(l, t, m) /\ t # AnswerType(l[1])
  BY Links, FrontTypes DEF FinderNoticed, TopicPushed
<1>3. TrafficOK' /\ FlowOK'
  BY <1>1, <1>2, Gotten DEF XInv
<1> QED  BY <1>1, <1>3 DEF XInv, CallTypeOK, CallsOK, TellsOK

LEMMA NextXInv == XInv /\ [Next]_vars => XInv'
<1> SUFFICES ASSUME XInv, [Next]_vars PROVE XInv'
  OBVIOUS
<1>1. CASE UNCHANGED vars
  <2>1. UNCHANGED <<announcing, discoverers, members, calls, asked, toServer, toClient, handled>>
    BY <1>1 DEF vars, registryVars, topicVars, userVars
  <2> QED  BY <2>1 DEF XInv, TrafficOK, FlowOK, RequestOK, AnswerOK, Asked, CallTypeOK,
              CallsOK, TellsOK
<1>2. ASSUME NEW s \in Service, RegisterService(s) PROVE XInv'
  BY <1>2, RegisterServiceXInv
<1>3. CASE Announce
  BY <1>3, AnnounceXInv
<1>4. ASSUME NEW u \in User, NEW n \in Method, NEW ps \in Params,
             CallUnknown(u, n, ps) \/ \E h \in {Addr, NoHost} : CallKnown(u, n, ps, h)
      PROVE  XInv'
  BY <1>4, CallUnknownXInv, CallKnownXInv
<1>5. ASSUME NEW u \in User, SendCall(u) PROVE XInv'
  BY <1>5, SendCallXInv
<1>6. ASSUME NEW t \in Member, NEW key \in Topic, NEW op \in TOPIC_CREATE..TOPIC_PUBLISH,
             NEW msg \in Payload, AskTopic(t, key, op, msg)
      PROVE  XInv'
  BY <1>6, AskTopicXInv
<1>7. ASSUME NEW l \in Link, NEW m, RouterHandles(l, m) \/ RegistryHandles(l, m) \/ TopicHandles(l, m)
      PROVE  XInv'
  BY <1>7, RouterXInv, RegistryXInv, TopicXInv
<1>8. ASSUME NEW l \in Link, NEW m,
             \/ l = Registrar /\ RegistrarReturns(m)
             \/ \E u \in User :
                  \/ l = Finder(u) /\ (DiscoveryReturns(u, m) \/ FinderNoticed(u, m))
                  \/ l = Caller(u) /\ CallReturns(u, m)
             \/ \E t \in Member : l = Topics(t) /\ (TopicReturns(t, m) \/ TopicPushed(t, m))
      PROVE  XInv'
  BY <1>8, RegistrarXInv, DiscoveryXInv, CallReturnsXInv, TopicReturnsXInv, PushedXInv
<1> QED  BY <1>1, <1>2, <1>3, <1>4, <1>5, <1>6, <1>7, <1>8 DEF Next

-----------------------------------------------------------------------------
LEMMA EveryTypeHandled == XInv => TypesHandled
<1>1. SUFFICES ASSUME XInv, NEW l \in Link
               PROVE  /\ \A i \in DOMAIN toServer[l] : toServer[l][i].mtype \in ServerHandles(l[1])
                      /\ \A i \in DOMAIN toClient[l] : toClient[l][i].mtype \in ClientHandles(l[1])
  BY DEF TypesHandled
<1>2. ASSUME NEW i \in DOMAIN toServer[l]
      PROVE  toServer[l][i].mtype \in ServerHandles(l[1])
  <2>1. toServer[l] = <<>> \/ toServer[l] = <<Asked(l)>>
    BY <1>1 DEF XInv, FlowOK, RequestOK
  <2>2. toServer[l][i] = Asked(l)
    <3>1. \A x : DOMAIN <<x>> = {1} /\ <<x>>[1] = x
      OBVIOUS
    <3>2. DOMAIN <<>> = {}
      OBVIOUS
    <3> QED  BY <1>2, <2>1, <3>1, <3>2
  <2>3. Asked(l).mtype = RequestType(l[1])
    BY DEF Asked, Envelope, Frame
  <2> QED  BY <2>2, <2>3, Fronts, FrontTypes
<1>3. ASSUME NEW i \in DOMAIN toClient[l]
      PROVE  toClient[l][i].mtype \in ClientHandles(l[1])
  <2>1. PICK W : toClient[l] \in Seq(Inbox(l, W))
    BY <1>1 DEF XInv, TrafficOK, Fine
  <2>2. toClient[l][i] \in Inbox(l, W)
    <3>1. \A S, q : q \in Seq(S) => \A j \in DOMAIN q : q[j] \in S
      OBVIOUS
    <3> QED  BY <1>3, <2>1, <3>1
  <2> QED  BY <2>2 DEF Inbox
<1> QED  BY <1>2, <1>3

\* No dispatcher ever gets a message that it has no handler for, for which it
\* would close the connection (dispatcher.hpp:41-49).
THEOREM EveryMessageHasAHandler == Spec => []TypesHandled
<1> QED  BY InitXInv, NextXInv, EveryTypeHandled, PTL DEF Spec

LEMMA EveryRequestAsAsked == XInv => HandledAsAsked
<1>1. SUFFICES ASSUME XInv, NEW l \in Link, asked[l] # None, handled[l] # None
               PROVE  LET req == asked[l]
                          got == handled[l]
                      IN CASE l[1] = "TopicClient" ->
                                /\ got.topic_key = req.topic_key
                                /\ IF TextOK(req.topic_key) THEN got = req
                                   ELSE got.optype = TOPIC_CREATE /\ got.topic_msg = NoText
                           [] l[1] \in {"RegisterClient", "DiscoverClient"} ->
                                /\ got.method = req.method
                                /\ IF TextOK(req.method) THEN got = req
                                   ELSE got.optype = SERVICE_REGISTRY /\ got.host = Absent
                           [] OTHER -> got.method = req.method
  BY DEF HandledAsAsked
<1>2. /\ asked[l] \in Requests(l[1])
      /\ handled[l] \in Received(Envelope(RequestType(l[1]), asked[l]))
  BY <1>1 DEF XInv, FlowOK, RequestOK, Asked, TrafficOK
<1>3. CASE l[1] = "TopicClient"
  <2>1. PICK key \in Topic, op \in TOPIC_CREATE..TOPIC_PUBLISH, msg \in Payload :
          asked[l] = TopicRequest(key, op, msg)
    <3>1. asked[l] \in Requests("TopicClient")
      BY <1>2, <1>3
    <3> QED  BY <3>1 DEF Requests
  <2>2. key \in Text /\ op \in Int /\ msg \in String
    BY <2>1, ExchangeAssumption DEF TOPIC_CREATE, TOPIC_PUBLISH
  <2>3. asked[l].topic_key = key
    BY <2>1 DEF TopicRequest
  <2> QED  BY <1>2, <1>3, <2>1, <2>2, <2>3, TopicAsAsked, FrontTypes
<1>4. CASE l[1] \in {"RegisterClient", "DiscoverClient"}
  <2>1. PICK n \in Text, op \in Int, h \in {Addr, Absent} : asked[l] = ServiceRequest(n, op, h)
    <3>1. \/ \E s \in Service : asked[l] = ServiceRequest(s.name, SERVICE_REGISTRY, Addr)
          \/ \E n \in Method : asked[l] = ServiceRequest(n, SERVICE_DISCOVERY, Absent)
      BY <1>2, <1>4, FrontRequests
    <3>2. (\A s \in Service : s.name \in Text) /\ Method \subseteq Text
      BY ExchangeAssumption, RouterAssumption
    <3>3. SERVICE_REGISTRY \in Int /\ SERVICE_DISCOVERY \in Int
      BY DEF SERVICE_REGISTRY, SERVICE_DISCOVERY
    <3> QED  BY <3>1, <3>2, <3>3
  <2>2. asked[l].method = n
    BY <2>1 DEF ServiceRequest
  <2> QED  BY <1>2, <1>4, <2>1, <2>2, ServiceAsAsked, FrontTypes
<1>5. CASE l[1] = "RpcClient"
  <2>1. PICK n \in Method, ps \in Params : asked[l] = RpcRequest(n, ps)
    BY <1>2, <1>5, FrontRequests
  <2>2. n \in Text /\ ps \in Struct /\ asked[l].method = n
    BY <2>1, ExchangeAssumption DEF RpcRequest
  <2> QED  BY <1>2, <1>5, <2>1, <2>2, CallAsAsked, FrontTypes
<1> QED  BY <1>3, <1>4, <1>5, Fronts

\* A server does what it was asked, or, if the name in the request is not UTF-8,
\* registers the method without an address or creates the topic, whatever it was
\* asked (network.hpp:98).
THEOREM RequestsAreHandledAsAsked == Spec => []HandledAsAsked
<1> QED  BY InitXInv, NextXInv, EveryRequestAsAsked, PTL DEF Spec

-----------------------------------------------------------------------------
(* What a call returns.                                                     *)

\* The service of c's method was called for c, with r as its result.
Executed(c, r) ==
  /\ c.method \in DOMAIN services
  /\ LET s == services[c.method]
     IN /\ RunWith(s, c)
        /\ r = Result(s, [p \in DOMAIN s.parameters |-> c.params[p]])
        /\ r # Throws /\ r \in Struct

ServicesOK == \A n \in DOMAIN services : services[n] \in Service

\* A user has asked what it calls for, and an answer that says so is the
\* result of the service.
CallOK(u) ==
  /\ asked[Caller(u)] # None => asked[Caller(u)] = RpcRequest(calls[u].method, calls[u].params)
  /\ \A i \in DOMAIN toClient[Caller(u)] : \E a \in Messages(RpcResponsePb) :
       /\ toClient[Caller(u)][i] = Envelope("RSP_RPC", a)
       /\ a.rcode = RCODE_OK => Executed(calls[u], a.result)

\* What a user is given for a call.
Truthful(c) ==
  /\ c.method \in DOMAIN services
  /\ LET s == services[c.method]
         r == Result(s, [p \in DOMAIN s.parameters |-> c.params[p]])
     IN /\ RunWith(s, c)
        /\ r # Throws
        /\ IF GoodKeys(r) = DOMAIN r THEN c.result = r
           ELSE c.result \in LeftOf("struct", r)

ReturnsOK ==
  /\ outcome = [u \in User |-> outcome[u]]
  /\ \A u \in User : outcome[u] # None /\ outcome[u].result # Absent => Truthful(outcome[u])

RInv == XInv /\ ServicesOK /\ (\A u \in User : CallOK(u)) /\ ReturnsOK

LEMMA RpcFields ==
  /\ RpcRequestPb \in Schemas /\ RpcResponsePb \in Schemas
  /\ Schema("REQ_RPC") = RpcRequestPb /\ Schema("RSP_RPC") = RpcResponsePb
  /\ Names(RpcRequestPb) = {"method", "parameters"} /\ Names(RpcResponsePb) = {"rcode", "result"}
  /\ Position(RpcRequestPb, "method") = 1 /\ KindOf(RpcRequestPb, "method") = "string"
  /\ Position(RpcRequestPb, "parameters") = 2 /\ KindOf(RpcRequestPb, "parameters") = "struct"
  /\ Position(RpcResponsePb, "rcode") = 1 /\ KindOf(RpcResponsePb, "rcode") = "int"
  /\ Position(RpcResponsePb, "result") = 2 /\ KindOf(RpcResponsePb, "result") = "struct"
<1>1. /\ RpcResponsePb \in Schemas /\ DOMAIN RpcResponsePb = 1..2
      /\ RpcResponsePb[1] = Field("rcode", "int") /\ RpcResponsePb[2] = Field("result", "struct")
      /\ Names(RpcResponsePb) = {"rcode", "result"}
  BY DEF Schemas, RpcResponsePb, Names, Field
<1>2. ASSUME NEW i \in DOMAIN RpcResponsePb, NEW name, RpcResponsePb[i].name = name
      PROVE  Position(RpcResponsePb, name) = i /\ KindOf(RpcResponsePb, name) = RpcResponsePb[i].kind
  BY <1>1, <1>2, PositionAt DEF KindOf
<1>3. Schema("RSP_RPC") = RpcResponsePb /\ RpcRequestPb \in Schemas
  BY DEF Schema, Schemas
<1> QED  BY <1>1, <1>2, <1>3, RequestSchemas, FieldsAt DEF Field

\* What a service is given of the parameters: those that are left of them.
LEMMA ParametersArrive ==
  ASSUME NEW n \in Text, NEW ps \in Struct,
         NEW m \in Received(Envelope("REQ_RPC", RpcRequest(n, ps)))
  PROVE  LET q == StructIn(m.parameters)
         IN /\ \E K \in SUBSET DOMAIN ps : q = [k \in K |-> ps[k]]
            /\ IF TextOK(n) THEN GoodKeys(ps) = DOMAIN ps => q = ps ELSE q = NoStruct
<1> DEFINE r == RpcRequest(n, ps)
<1> DEFINE wire == Serialize(RpcRequestPb, r)
<1>1. r \in Messages(RpcRequestPb) /\ m \in Parse(RpcRequestPb, wire)
  BY RpcMessages, RpcFields DEF Received, Envelope, Frame
<1>2. r["method"] = n /\ r["parameters"] = ps
  BY DEF RpcRequest
<1>3. PICK keys \in SUBSET Text : ps \in [keys -> Value]
  BY DEF Struct
<1>4. CASE TextOK(n)
  <2>1. ~Fails(RpcRequestPb, wire, "method")
    BY <1>2, <1>4, RpcFields DEF Fails, Serialize, Parses
  <2>2. IF GoodKeys(ps) = DOMAIN ps THEN m["parameters"] = ps
        ELSE m["parameters"] \in LeftOf("struct", ps)
    BY <1>1, <1>2, <2>1, StructArrives, RpcFields
  <2>3. \E K \in SUBSET DOMAIN ps : m["parameters"] = [k \in K |-> ps[k]]
    <3>1. ps = [k \in DOMAIN ps |-> ps[k]]
      BY <1>3
    <3>2. GoodKeys(ps) \subseteq DOMAIN ps
      BY DEF GoodKeys
    <3> QED  BY <2>2, <3>1, <3>2 DEF LeftOf
  <2>4. m["parameters"] \in Struct
    <3>1. PICK K \in SUBSET DOMAIN ps : m["parameters"] = [k \in K |-> ps[k]]
      BY <2>3
    <3>2. K \in SUBSET Text /\ m["parameters"] \in [K -> Value]
      BY <1>3, <3>1
    <3> QED  BY <3>2 DEF Struct
  <2>5. StructIn(m.parameters) = m["parameters"]
    BY <2>4, AbsentAssumption DEF StructIn
  <2> QED  BY <1>4, <2>2, <2>3, <2>5
<1>5. CASE ~TextOK(n)
  <2>1. m["parameters"] = Default("struct")
    BY <1>1, <1>2, <1>5, RestIsLost, RpcFields
  <2>2. StructIn(m.parameters) = NoStruct
    BY <2>1 DEF Default, StructIn
  <2>3. NoStruct = [k \in {} |-> ps[k]]
    BY DEF NoStruct
  <2> QED  BY <1>5, <2>2, <2>3
<1> QED  BY <1>4, <1>5

LEMMA AnswerIsMessage ==
  ASSUME NEW rcode \in Int, NEW result \in Struct
  PROVE  RpcAnswer(rcode, result) \in Messages(RpcResponsePb)
<1> DEFINE a == RpcAnswer(rcode, result)
<1>1. a = [f \in Names(RpcResponsePb) |-> a[f]]
  BY RpcFields DEF RpcAnswer
<1>2. \A f \in Names(RpcResponsePb) : a[f] \in Content(KindOf(RpcResponsePb, f))
  BY RpcFields DEF Content, RpcAnswer
<1> HIDE DEF a
<1>3. a \in Messages(RpcResponsePb)
  BY <1>1, <1>2, RpcFields, IsMessage
<1> QED  BY <1>3 DEF a

\* The parameters that pass the check are the ones of the call that the service
\* declares.
LEMMA Checked ==
  ASSUME NEW s \in Service, NEW ps \in Struct, IsFiniteSet(DOMAIN ps),
         NEW K \in SUBSET DOMAIN ps, CheckOutParameters(s, [k \in K |-> ps[k]])
  PROVE  /\ K = DOMAIN s.parameters
         /\ [p \in K |-> ps[p]] \in [DOMAIN s.parameters -> Value]
         /\ \A p \in K : CheckValueType(s.parameters[p], ps[p])
<1>1. DOMAIN s.parameters \subseteq K
  BY DEF CheckOutParameters
<1>2. IsFiniteSet(K) /\ Cardinality(K) = Cardinality(DOMAIN s.parameters)
  BY FS_Subset DEF CheckOutParameters
<1>3. K = DOMAIN s.parameters
  BY <1>1, <1>2, FS_Subset
<1>4. [p \in K |-> ps[p]] \in [K -> Value]
  BY DEF Struct
<1> QED  BY <1>3, <1>4 DEF CheckOutParameters

\* The server's answer to a call, whatever is left of the request.
LEMMA ServiceAnswers ==
  ASSUME ServicesOK, NEW c, c.method \in Method, c.params \in Params,
         NEW m \in Received(Envelope("REQ_RPC", RpcRequest(c.method, c.params)))
  PROVE  /\ OnRpcRequest(m) \in Messages(RpcResponsePb)
         /\ OnRpcRequest(m).rcode = RCODE_OK => Executed(c, OnRpcRequest(m).result)
<1> DEFINE n == c.method
<1> DEFINE ps == c.params
<1> DEFINE q == StructIn(m.parameters)
<1>1. n \in Text /\ ps \in Struct /\ IsFiniteSet(DOMAIN ps)
  BY ExchangeAssumption
<1>2. m.method = n
  BY <1>1, CallAsAsked
<1>3. PICK K \in SUBSET DOMAIN ps : q = [k \in K |-> ps[k]]
  BY <1>1, ParametersArrive
<1>4. IF TextOK(n) THEN GoodKeys(ps) = DOMAIN ps => q = ps ELSE q = NoStruct
  BY <1>1, ParametersArrive
<1>5. NoStruct \in Struct
  <2>1. NoStruct \in [{} -> Value] /\ {} \in SUBSET Text
    BY DEF NoStruct
  <2> QED  BY <2>1 DEF Struct
<1> DEFINE a == OnRpcRequest(m)
<1>6. CASE n \notin DOMAIN services
  <2>1. a = RpcAnswer(RCODE_NOT_FOUND_SERVICE, NoStruct)
    BY <1>2, <1>6 DEF OnRpcRequest
  <2> QED  BY <1>5, <2>1, AnswerIsMessage DEF RpcAnswer, RCODE_OK, RCODE_NOT_FOUND_SERVICE
<1>7. CASE n \in DOMAIN services /\ ~CheckOutParameters(services[n], q)
  <2>1. a = RpcAnswer(RCODE_INVALID_PARAMS, NoStruct)
    BY <1>2, <1>7 DEF OnRpcRequest
  <2> QED  BY <1>5, <2>1, AnswerIsMessage DEF RpcAnswer, RCODE_OK, RCODE_INVALID_PARAMS
<1>8. CASE n \in DOMAIN services /\ CheckOutParameters(services[n], q)
  <2> DEFINE s == services[n]
  <2> DEFINE r == Result(s, [p \in DOMAIN s.parameters |-> ps[p]])
  <2>1. s \in Service
    BY <1>8 DEF ServicesOK
  <2>2. /\ K = DOMAIN s.parameters /\ q \in [DOMAIN s.parameters -> Value]
        /\ \A p \in K : CheckValueType(s.parameters[p], ps[p])
    <3> HIDE DEF s, q, ps
    <3>1. CheckOutParameters(s, [k \in K |-> ps[k]])
      BY <1>3, <1>8 DEF s
    <3> QED  BY <1>1, <1>3, <2>1, <3>1, Checked
  <2>3. q = [p \in DOMAIN s.parameters |-> ps[p]]
    <3> HIDE DEF s, q, ps
    <3> QED  BY <1>3, <2>2
  <2>4. r = Result(s, q) /\ r \in Struct \cup {Throws}
    <3> HIDE DEF q
    <3> QED  BY <2>1, <2>2, <2>3, RouterAssumption
  <2>5. a = Called(s, q)
    BY <1>2, <1>8 DEF OnRpcRequest
  <2>6. CASE r = Throws
    <3>1. a = RpcAnswer(RCODE_INVALID_RESULT, NoStruct)
      BY <2>4, <2>5, <2>6 DEF Called
    <3> QED  BY <1>5, <3>1, AnswerIsMessage DEF RpcAnswer, RCODE_OK, RCODE_INVALID_RESULT
  <2>7. CASE r # Throws
    <3>1. a = RpcAnswer(RCODE_OK, r) /\ r \in Struct
      BY <2>4, <2>5, <2>7 DEF Called
    <3>2. RunWith(s, c)
      <4>1. DOMAIN s.parameters \cap DOMAIN ps = K /\ DOMAIN q = K
        BY <2>2, <2>3
      <4>2. [p \in DOMAIN s.parameters \cap DOMAIN ps |-> ps[p]] = q
        BY <4>1, <1>3
      <4> HIDE DEF s, q
      <4>3. \A p \in K : q[p] = ps[p]
        BY <1>3
      <4> QED  BY <1>4, <2>2, <4>1, <4>2, <4>3 DEF RunWith
    <3>3. a.rcode = RCODE_OK /\ a.result = r
      BY <3>1 DEF RpcAnswer
    <3>4. a \in Messages(RpcResponsePb)
      BY <3>1, AnswerIsMessage DEF RCODE_OK
    <3> QED  BY <1>8, <2>7, <3>1, <3>2, <3>3, <3>4 DEF Executed
  <2> QED  BY <2>6, <2>7
<1> QED  BY <1>6, <1>7, <1>8

-----------------------------------------------------------------------------
\* A user whose request has not been answered has nothing to read.
LEMMA NothingToRead ==
  ASSUME NEW u, NEW s, Fine(Caller(u), s), Answers(Caller(u), s) = {}
  PROVE  s = <<>>
<1>1. PICK W : s \in Seq(Inbox(Caller(u), W))
  BY DEF Fine
<1> DEFINE S == Inbox(Caller(u), W)
<1>2. \A x \in S : x.mtype = AnswerType(Caller(u)[1])
  BY Links, FrontTypes DEF Inbox
<1> HIDE DEF S
<1>3. s \in Seq(S)
  BY <1>1 DEF S
<1>4. \A i \in DOMAIN s : s[i] \in S
  BY <1>3
<1>5. DOMAIN s = {}
  BY <1>2, <1>4 DEF Answers
<1> QED  BY <1>3, <1>5

LEMMA UnaskedCallOK ==
  ASSUME XInv', NEW u \in User, asked'[Caller(u)] = None PROVE CallOK(u)'
<1>1. Caller(u) \in Link
  BY Links
<1>2. Fine(Caller(u), toClient'[Caller(u)]) /\ Answers(Caller(u), toClient'[Caller(u)]) = {}
  BY <1>1 DEF XInv, TrafficOK, FlowOK, AnswerOK
<1>3. toClient'[Caller(u)] = <<>>
  BY <1>2, NothingToRead
<1> QED  BY <1>3 DEF CallOK

\* Services stay.
LEMMA ServicesStay ==
  ASSUME RInv, [Next]_vars
  PROVE  /\ ServicesOK'
         /\ \A n \in DOMAIN services : n \in DOMAIN services' /\ services'[n] = services[n]
<1>1. CASE UNCHANGED services
  BY <1>1 DEF RInv, ServicesOK
<1>2. CASE \E s \in Service : RegisterService(s)
  BY <1>2 DEF RegisterService, Insert, RInv, ServicesOK
<1>3. UNCHANGED services \/ \E s \in Service : RegisterService(s)
  BY DEF Next, vars, Announce, CallUnknown, CallKnown, SendCall, AskTopic, RouterHandles,
         RegistryHandles, TopicHandles, RegistrarReturns, DiscoveryReturns, FinderNoticed,
         CallReturns, TopicReturns, TopicPushed
<1> QED  BY <1>1, <1>2, <1>3

LEMMA ExecutedStays ==
  ASSUME \A n \in DOMAIN services : n \in DOMAIN services' /\ services'[n] = services[n]
  PROVE  /\ \A c, r : Executed(c, r) => Executed(c, r)'
         /\ \A c : Truthful(c) => Truthful(c)'
BY DEF Executed, Truthful

LEMMA KeptCallOK ==
  ASSUME RInv, [Next]_vars, NEW u \in User,
         asked'[Caller(u)] = asked[Caller(u)], toClient'[Caller(u)] = toClient[Caller(u)],
         calls'[u] = calls[u]
  PROVE  CallOK(u)'
<1>1. CallOK(u)
  BY DEF RInv
<1>2. \A c, r : Executed(c, r) => Executed(c, r)'
  BY ServicesStay, ExecutedStays
<1> QED  BY <1>1, <1>2 DEF CallOK

\* The steps that write to a link, or take from it, leave the others alone.
LEMMA SendElsewhere ==
  ASSUME TrafficOK, NEW l \in Link, NEW t, NEW r, Send(l, t, r), NEW k \in Link \ {l}
  PROVE  asked'[k] = asked[k]
BY DEF Send, TrafficOK

LEMMA GetsElsewhere ==
  ASSUME TrafficOK, NEW l \in Link, NEW t, NEW m, Gets(l, t, m), NEW k \in Link \ {l}
  PROVE  /\ toClient'[k] = toClient[k]
         /\ Answered(l) => asked'[k] = asked[k]
BY DEF Gets, Answered, TrafficOK

LEMMA SendCallCallOK ==
  ASSUME RInv, XInv', [Next]_vars, NEW v \in User, SendCall(v), NEW u \in User
  PROVE  CallOK(u)'
<1>1. /\ UNCHANGED <<calls, toClient>> /\ asked[Caller(v)] = None
      /\ Send(Caller(v), "REQ_RPC", RpcRequest(calls[v].method, calls[v].params))
  BY DEF SendCall, userVars
<1>2. \A w \in User : Caller(w) \in Link
  BY Links
<1>3. CASE u = v
  <2>1. asked'[Caller(u)] = RpcRequest(calls[u].method, calls[u].params)
    BY <1>1, <1>2, <1>3 DEF Send, RInv, XInv, TrafficOK
  <2>2. Fine(Caller(u), toClient[Caller(u)]) /\ Answers(Caller(u), toClient[Caller(u)]) = {}
    BY <1>1, <1>2, <1>3 DEF RInv, XInv, TrafficOK, FlowOK, AnswerOK
  <2>3. toClient'[Caller(u)] = <<>>
    BY <1>1, <2>2, NothingToRead
  <2> QED  BY <1>1, <2>1, <2>3 DEF CallOK
<1>4. CASE u # v
  <2>1. Caller(u) # Caller(v)
    BY <1>4, Links
  <2> QED  BY <1>1, <1>2, <2>1, SendElsewhere, KeptCallOK DEF RInv, XInv
<1> QED  BY <1>3, <1>4

LEMMA RouterCallOK ==
  ASSUME RInv, [Next]_vars, NEW l \in Link, NEW m, RouterHandles(l, m), NEW u \in User
  PROVE  CallOK(u)'
<1>1. /\ UNCHANGED <<services, calls, asked>>
      /\ Takes(l, "REQ_RPC", m) /\ Reply(l, "RSP_RPC", OnRpcRequest(m))
  BY DEF RouterHandles, userVars
<1>2. /\ asked[l] \in Requests(l[1]) /\ m \in Received(Asked(l)) /\ RequestType(l[1]) = "REQ_RPC"
      /\ Answers(l, toClient[l]) = {} /\ Fine(l, toClient[l]) /\ asked[l] # None
  BY <1>1, Taken, NoneIsNoRequest DEF RInv, XInv, TrafficOK
<1>3. CASE l = Caller(u)
  <2>1. calls[u].method \in Method /\ calls[u].params \in Params
    BY <1>2, <1>3 DEF RInv, XInv, CallsOK, CallTypeOK
  <2>2. asked[l] = RpcRequest(calls[u].method, calls[u].params)
    BY <1>2, <1>3 DEF RInv, CallOK
  <2>3. m \in Received(Envelope("REQ_RPC", RpcRequest(calls[u].method, calls[u].params)))
    BY <1>2, <2>2 DEF Asked
  <2> DEFINE a == OnRpcRequest(m)
  <2>4. /\ a \in Messages(RpcResponsePb)
        /\ a.rcode = RCODE_OK => Executed(calls[u], a.result)
    <3> DEFINE c == calls[u]
    <3>1. ServicesOK /\ c.method \in Method /\ c.params \in Params
          /\ m \in Received(Envelope("REQ_RPC", RpcRequest(c.method, c.params)))
      BY <2>1, <2>3 DEF RInv
    <3> HIDE DEF c
    <3>2. /\ OnRpcRequest(m) \in Messages(RpcResponsePb)
          /\ OnRpcRequest(m).rcode = RCODE_OK => Executed(c, OnRpcRequest(m).result)
      BY <3>1, ServiceAnswers
    <3> QED  BY <3>2 DEF c
  <2>5. toClient[l] = <<>>
    BY <1>2, <1>3, NothingToRead
  <2>6. toClient'[l] = <<Envelope("RSP_RPC", a)>>
    <3> HIDE DEF a
    <3>1. toClient' = [toClient EXCEPT ![l] = Append(@, Envelope("RSP_RPC", a))]
      BY <1>1 DEF Reply, a
    <3>2. toClient'[l] = Append(<<>>, Envelope("RSP_RPC", a))
      BY <2>5, <3>1 DEF RInv, XInv, TrafficOK
    <3> QED  BY <3>2
  <2>7. \A c, r : Executed(c, r) => Executed(c, r)'
    BY ServicesStay, ExecutedStays
  <2> HIDE DEF a
  <2>8. \A i \in DOMAIN toClient'[l] : toClient'[l][i] = Envelope("RSP_RPC", a)
    BY <2>6
  <2> QED  BY <1>1, <1>3, <2>2, <2>4, <2>7, <2>8 DEF CallOK
<1>4. CASE l # Caller(u)
  <2>1. toClient'[Caller(u)] = toClient[Caller(u)]
    BY <1>1, <1>4, Links DEF Reply, RInv, XInv, TrafficOK
  <2> QED  BY <1>1, <2>1, KeptCallOK
<1> QED  BY <1>3, <1>4

\* The registry and the topic server write to nobody's RpcClient.
LEMMA OthersCallOK ==
  ASSUME RInv, [Next]_vars, NEW l \in Link, NEW m,
         RegistryHandles(l, m) \/ TopicHandles(l, m), NEW u \in User
  PROVE  CallOK(u)'
<1>1. UNCHANGED <<calls, asked>>
  BY DEF RegistryHandles, TopicHandles, userVars
<1>2. Caller(u) \in Link /\ Caller(u)[1] = "RpcClient"
  BY Links
<1>3. l # Caller(u)
  <2>1. RequestType(l[1]) \in {"REQ_SERVICE", "REQ_TOPIC"}
    BY Taken DEF RInv, XInv, RegistryHandles, TopicHandles
  <2> QED  BY <1>2, <2>1, FrontTypes
<1>4. toClient[Caller(u)] \o <<>> = toClient[Caller(u)]
  BY <1>2, AddNothing DEF RInv, XInv, TrafficOK
<1>5. CASE RegistryHandles(l, m)
  <2>1. CASE Registers(l, m)
    <3>1. Caller(u) \notin Told(m.method)
      BY <1>2 DEF Told, RInv, XInv, TellsOK
    <3>2. toClient'[Caller(u)] = toClient[Caller(u)]
      BY <1>2, <1>3, <1>4, <2>1, <3>1 DEF Registers
    <3> QED  BY <1>1, <3>2, KeptCallOK
  <2>2. CASE Discovers(l, m)
    <3>1. toClient'[Caller(u)] = toClient[Caller(u)]
      BY <1>2, <1>3, <2>2 DEF Discovers, Reply, RInv, XInv, TrafficOK
    <3> QED  BY <1>1, <3>1, KeptCallOK
  <2> QED  BY <1>5, <2>1, <2>2 DEF RegistryHandles
<1>6. CASE TopicHandles(l, m)
  <2>1. <<Caller(u), m.topic_key>> \notin members
    BY <1>2 DEF RInv, XInv, TellsOK
  <2>2. toClient'[Caller(u)] = toClient[Caller(u)]
    BY <1>2, <1>3, <1>4, <1>6, <2>1 DEF TopicHandles
  <2> QED  BY <1>1, <2>2, KeptCallOK
<1> QED  BY <1>5, <1>6

\* A call that has not gone out yet begins, finds its host, or fails.
LEMMA CallsCallOK ==
  ASSUME RInv, XInv', [Next]_vars, NEW v \in User, NEW u \in User,
         \/ \E n \in Method, ps \in Params :
              CallUnknown(v, n, ps) \/ \E h : CallKnown(v, n, ps, h)
         \/ \E m : Finder(v) \in Link /\ DiscoveryReturns(v, m)
  PROVE  CallOK(u)'
<1>1. asked'[Caller(u)] = asked[Caller(u)]
  BY Links, SendElsewhere, GetsElsewhere DEF CallUnknown, CallKnown, DiscoveryReturns, RInv,
     XInv
<1>2. CASE u = v
  <2>1. asked[Caller(u)] = None
    <3>1. CASE calls[v] = None
      BY <1>2, <3>1 DEF RInv, XInv, CallsOK
    <3>2. CASE calls[v] # None
      <4>1. PICK m : Finder(v) \in Link /\ DiscoveryReturns(v, m)
        BY <3>2 DEF CallUnknown, CallKnown
      <4>2. AnswerType(Finder(v)[1]) = "RSP_SERVICE" /\ v \in User \ Direct
        BY <4>1, Links, FrontTypes
      <4>3. asked[Finder(v)] # None
        BY <4>1, <4>2, Gotten DEF DiscoveryReturns, RInv, XInv
      <4> QED  BY <1>2, <4>2, <4>3 DEF RInv, XInv, CallsOK
    <3> QED  BY <3>1, <3>2
  <2> QED  BY <1>1, <2>1, UnaskedCallOK
<1>3. CASE u # v
  <2>1. calls'[u] = calls[u]
    BY <1>3 DEF CallUnknown, CallKnown, DiscoveryReturns, Ends, RInv, XInv, CallTypeOK
  <2>2. toClient'[Caller(u)] = toClient[Caller(u)]
    BY Links, GetsElsewhere DEF CallUnknown, CallKnown, DiscoveryReturns, RInv, XInv
  <2> QED  BY <1>1, <2>1, <2>2, KeptCallOK
<1> QED  BY <1>2, <1>3

\* The other requests and answers are on other links.
LEMMA ElsewhereCallOK ==
  ASSUME RInv, [Next]_vars, NEW u \in User,
         \/ UNCHANGED vars
         \/ \E s \in Service : RegisterService(s)
         \/ Announce
         \/ \E t \in Member : \E key, op, msg : AskTopic(t, key, op, msg)
         \/ \E m : \/ RegistrarReturns(m)
                   \/ \E v : Finder(v) \in Link /\ FinderNoticed(v, m)
                   \/ \E t \in Member : TopicReturns(t, m) \/ TopicPushed(t, m)
  PROVE  CallOK(u)'
<1>1. calls' = calls
  BY DEF vars, RegisterService, Announce, AskTopic, RegistrarReturns, FinderNoticed,
     TopicReturns,
         TopicPushed, userVars
<1>2. Caller(u) \in Link /\ Caller(u) # Registrar /\ (\A x : Caller(u) # Finder(x) /\ Caller(u) # Topics(x))
  BY Links
<1>3. TrafficOK
  BY DEF RInv, XInv
<1>4. CASE UNCHANGED <<asked, toClient>>
  BY <1>1, <1>4, KeptCallOK
<1>5. CASE Announce
  <2>1. UNCHANGED toClient
    BY <1>5 DEF Announce
  <2> QED  BY <1>1, <1>2, <1>3, <1>5, <2>1, Links, SendElsewhere, KeptCallOK DEF Announce
<1>6. ASSUME NEW t \in Member, NEW key, NEW op, NEW msg, AskTopic(t, key, op, msg)
      PROVE  CallOK(u)'
  <2>1. UNCHANGED toClient
    BY <1>6 DEF AskTopic
  <2> QED  BY <1>1, <1>2, <1>3, <1>6, <2>1, Links, SendElsewhere, KeptCallOK DEF AskTopic
<1>7. ASSUME NEW l \in Link \ {Caller(u)}, NEW t, NEW m, Gets(l, t, m), UNCHANGED asked \/ Answered(l)
      PROVE  CallOK(u)'
  BY <1>1, <1>2, <1>3, <1>7, GetsElsewhere, KeptCallOK
<1>8. ASSUME NEW m,
             \/ RegistrarReturns(m)
             \/ \E v : Finder(v) \in Link /\ FinderNoticed(v, m)
             \/ \E t \in Member : TopicReturns(t, m) \/ TopicPushed(t, m)
      PROVE  CallOK(u)'
  BY <1>2, <1>7, <1>8, Links DEF RegistrarReturns, FinderNoticed, TopicReturns, TopicPushed
<1>9. UNCHANGED vars \/ (\E s \in Service : RegisterService(s)) => UNCHANGED <<asked, toClient>>
  BY DEF vars, RegisterService
<1> QED  BY <1>4, <1>5, <1>6, <1>8, <1>9

\* The answer to a call ends it with what its service came to, or with nothing.
LEMMA AnsweredTruthfully ==
  ASSUME RInv, NEW u \in User, NEW m, CallReturns(u, m)
  PROVE  /\ outcome'[u].result # Absent => Truthful(outcome'[u])
         /\ \A v \in User \ {u} : outcome'[v] = outcome[v]
         /\ outcome' = [v \in User |-> outcome'[v]]
<1> DEFINE res == IF m.rcode = RCODE_OK THEN StructIn(m.result) ELSE Absent
<1> DEFINE o == [method |-> calls[u].method, params |-> calls[u].params, result |-> res]
<1>1. Gets(Caller(u), "RSP_RPC", m) /\ outcome' = [outcome EXCEPT ![u] = o]
  BY DEF CallReturns, Ends
<1>2. o.result = res /\ o.method = calls[u].method /\ o.params = calls[u].params
  OBVIOUS
<1> HIDE DEF o
<1>3. /\ outcome'[u] = o
      /\ \A v \in User \ {u} : outcome'[v] = outcome[v]
      /\ outcome' = [v \in User |-> outcome'[v]]
  BY <1>1 DEF RInv, ReturnsOK
<1>4. ASSUME res # Absent
      PROVE  Truthful(o)
  <2>1. toClient[Caller(u)] # <<>> /\ m \in Received(Head(toClient[Caller(u)]))
    BY <1>1 DEF Gets
  <2>2. 1 \in DOMAIN toClient[Caller(u)] /\ Head(toClient[Caller(u)]) = toClient[Caller(u)][1]
    <3>1. PICK W : toClient[Caller(u)] \in Seq(Inbox(Caller(u), W))
      BY Links DEF RInv, XInv, TrafficOK, Fine
    <3> QED  BY <2>1, <3>1
  <2>3. PICK a \in Messages(RpcResponsePb) :
          /\ toClient[Caller(u)][1] = Envelope("RSP_RPC", a)
          /\ a.rcode = RCODE_OK => Executed(calls[u], a.result)
    BY <2>2 DEF RInv, CallOK
  <2>4. m \in Parse(RpcResponsePb, Serialize(RpcResponsePb, a))
    BY <2>1, <2>2, <2>3, RpcFields DEF Received, Envelope, Frame
  <2>5. m.rcode = RCODE_OK /\ a.rcode = m.rcode /\ res = StructIn(m.result)
    BY <1>4, <2>4, RcodeArrives
  <2> DEFINE s == services[calls[u].method]
  <2> DEFINE r == a.result
  <2>6. /\ calls[u].method \in DOMAIN services /\ RunWith(s, calls[u])
        /\ r = Result(s, [p \in DOMAIN s.parameters |-> calls[u].params[p]])
        /\ r # Throws /\ r \in Struct
    BY <2>3, <2>5 DEF Executed
  <2>7. IF GoodKeys(r) = DOMAIN r THEN m["result"] = r ELSE m["result"] \in LeftOf("struct", r)
    <3>1. ~Fails(RpcResponsePb, Serialize(RpcResponsePb, a), "rcode")
      BY RpcFields DEF Fails, Parses
    <3>2. a["result"] = r
      OBVIOUS
    <3> QED  BY <2>4, <2>6, <3>1, <3>2, StructArrives, RpcFields
  <2>8. m["result"] \in Struct
    <3>1. PICK keys \in SUBSET Text : r \in [keys -> Value]
      BY <2>6 DEF Struct
    <3>2. GoodKeys(r) \subseteq keys
      BY <3>1 DEF GoodKeys
    <3>3. \A K \in SUBSET keys : [k \in K |-> r[k]] \in [K -> Value]
      BY <3>1
    <3>4. \A q \in LeftOf("struct", r) : \E K \in SUBSET keys : q \in [K -> Value]
      BY <3>2, <3>3 DEF LeftOf
    <3> QED  BY <2>6, <2>7, <3>1, <3>4 DEF Struct
  <2>9. res = m["result"]
    BY <2>5, <2>8, AbsentAssumption DEF StructIn
  <2>10. RunWith(s, o)
    BY <1>2, <2>6 DEF RunWith
  <2> HIDE DEF res
  <2> QED  BY <1>2, <2>6, <2>7, <2>9, <2>10 DEF Truthful
<1> HIDE DEF res
<1> QED  BY <1>2, <1>3, <1>4

LEMMA NextReturnsOK == ASSUME RInv, [Next]_vars PROVE ReturnsOK'
<1>1. \A c : Truthful(c) => Truthful(c)'
  BY ServicesStay, ExecutedStays
<1>2. ASSUME outcome' = outcome
      PROVE  ReturnsOK'
  BY <1>1, <1>2 DEF RInv, ReturnsOK
<1>3. ASSUME NEW u \in User, NEW o, outcome' = [outcome EXCEPT ![u] = o],
             o = None \/ o.result = Absent
      PROVE  ReturnsOK'
  <2>1. outcome'[u] = o /\ (\A v \in User \ {u} : outcome'[v] = outcome[v])
        /\ outcome' = [v \in User |-> outcome'[v]]
    BY <1>3 DEF RInv, ReturnsOK
  <2> QED  BY <1>1, <1>3, <2>1 DEF RInv, ReturnsOK
<1>4. ASSUME NEW u \in User, NEW m, CallReturns(u, m)
      PROVE  ReturnsOK'
  BY <1>1, <1>4, AnsweredTruthfully DEF RInv, ReturnsOK
<1>5. ASSUME NEW u \in User, NEW m, DiscoveryReturns(u, m)
      PROVE  ReturnsOK'
  <2>1. outcome' = outcome \/ Ends(u, Absent)
    BY <1>5 DEF DiscoveryReturns
  <2>2. ASSUME Ends(u, Absent)
        PROVE  ReturnsOK'
    <3> DEFINE o == [method |-> calls[u].method, params |-> calls[u].params, result |-> Absent]
    <3>1. outcome' = [outcome EXCEPT ![u] = o] /\ o.result = Absent
      BY <2>2 DEF Ends
    <3> HIDE DEF o
    <3> QED  BY <1>3, <3>1
  <2> QED  BY <1>2, <2>1, <2>2
<1>6. ASSUME NEW u \in User, NEW n, NEW ps, CallUnknown(u, n, ps) \/ \E h : CallKnown(u, n, ps, h)
      PROVE  ReturnsOK'
  BY <1>3, <1>6 DEF CallUnknown, CallKnown
<1>7. \/ outcome' = outcome
      \/ \E u \in User : \E m : CallReturns(u, m) \/ DiscoveryReturns(u, m)
      \/ \E u \in User : \E n, ps : CallUnknown(u, n, ps) \/ \E h : CallKnown(u, n, ps, h)
  BY DEF Next, vars, userVars, RegisterService, Announce, SendCall, AskTopic, RouterHandles,
         RegistryHandles, TopicHandles, RegistrarReturns, FinderNoticed, TopicReturns, TopicPushed
<1> QED  BY <1>2, <1>4, <1>5, <1>6, <1>7

LEMMA CallReturnsCallOK ==
  ASSUME RInv, XInv', [Next]_vars, NEW v \in User, NEW m, CallReturns(v, m), NEW u \in User
  PROVE  CallOK(u)'
<1>1. /\ Gets(Caller(v), "RSP_RPC", m) /\ Answered(Caller(v)) /\ calls' = [calls EXCEPT ![v] = None]
      /\ Caller(v) \in Link /\ Caller(u) \in Link
  BY Links DEF CallReturns, Ends
<1>2. CASE u = v
  <2>1. asked'[Caller(u)] = None
    BY <1>1, <1>2 DEF Answered, RInv, XInv, TrafficOK
  <2> QED  BY <2>1, UnaskedCallOK
<1>3. CASE u # v
  <2>1. Caller(u) # Caller(v) /\ calls'[u] = calls[u]
    BY <1>1, <1>3, Links DEF RInv, XInv, CallTypeOK
  <2> QED  BY <1>1, <2>1, GetsElsewhere, KeptCallOK DEF RInv, XInv
<1> QED  BY <1>2, <1>3

LEMMA NextCallOK == ASSUME RInv, XInv', [Next]_vars, NEW u \in User PROVE CallOK(u)'
<1>1. CASE \/ UNCHANGED vars
           \/ \E s \in Service : RegisterService(s)
           \/ Announce
           \/ \E t \in Member : \E key, op, msg : AskTopic(t, key, op, msg)
           \/ \E m : \/ RegistrarReturns(m)
                     \/ \E v : Finder(v) \in Link /\ FinderNoticed(v, m)
                     \/ \E t \in Member : TopicReturns(t, m) \/ TopicPushed(t, m)
  BY <1>1, ElsewhereCallOK
<1>2. CASE \E v \in User :
             \/ \E n \in Method, ps \in Params :
                  CallUnknown(v, n, ps) \/ \E h : CallKnown(v, n, ps, h)
             \/ \E m : Finder(v) \in Link /\ DiscoveryReturns(v, m)
  BY <1>2, CallsCallOK
<1>3. CASE \E v \in User : SendCall(v)
  BY <1>3, SendCallCallOK
<1>4. CASE \E l \in Link : \E m : RouterHandles(l, m) \/ RegistryHandles(l, m) \/ TopicHandles(l, m)
  BY <1>4, RouterCallOK, OthersCallOK
<1>5. CASE \E v \in User : \E m : CallReturns(v, m)
  BY <1>5, CallReturnsCallOK
<1> QED  BY <1>1, <1>2, <1>3, <1>4, <1>5 DEF Next

LEMMA InitRInv == Init => RInv
<1>1. SUFFICES ASSUME Init PROVE RInv
  OBVIOUS
<1>2. XInv
  BY <1>1, InitXInv
<1>3. ServicesOK /\ ReturnsOK
  BY <1>1 DEF Init, ServicesOK, ReturnsOK
<1>4. \A u \in User : CallOK(u)
  BY <1>1, Links DEF Init, CallOK
<1> QED  BY <1>2, <1>3, <1>4 DEF RInv

LEMMA NextRInv == RInv /\ [Next]_vars => RInv'
<1>1. SUFFICES ASSUME RInv, [Next]_vars PROVE RInv'
  OBVIOUS
<1>2. XInv'
  BY <1>1, NextXInv DEF RInv
<1> QED  BY <1>1, <1>2, ServicesStay, NextCallOK, NextReturnsOK DEF RInv

\* A call that succeeds has run the service of its method with the parameters it
\* passed, and returns its result; only what is not UTF-8 can be missing
\* (rpc_router.hpp:171-191, rpc_caller.hpp:14-44).
THEOREM CallsReturnTheirService == Spec => []ResultIsServices
<1>1. RInv => ResultIsServices
  BY DEF RInv, ReturnsOK, Truthful, ResultIsServices
<1> QED  BY <1>1, InitRInv, NextRInv, PTL DEF Spec

-----------------------------------------------------------------------------
(* What users discover.                                                     *)

IsServed(n) == n \in DOMAIN services

HostOK(h) == h = Addr \/ (h = NoHost /\ DOMAIN services \ Utf8 # {})

\* The server announces what it has inserted.
AnnounceOK ==
  /\ announcing # None => IsServed(announcing.name)
  /\ asked[Registrar] # None => IsServed(asked[Registrar].method)

\* A name that is UTF-8 is provided by the server, and asked for by Discoverers.
RegistryOK ==
  /\ addresses = [l \in Link |-> addresses[l]]
  /\ addresses[Registrar] = Absent \/ HostOK(addresses[Registrar])
  /\ \A p \in providers : p[2] \in Utf8 =>
       p[1] = Registrar /\ IsServed(p[2]) /\ addresses[Registrar] # Absent
  /\ \A p \in discoverers : p[2] \in Utf8

FoundOK == \A f \in found : IsServed(f[2]) /\ HostOK(f[3])

\* What a frame tells the Discoverer of u.
News(u, f) ==
  \A m \in Received(f) :
    /\ f.mtype = "RSP_SERVICE" /\ m.hosts # <<>> =>
         /\ m.hosts \in Seq({Addr, NoHost}) /\ (\A h \in ToSet(m.hosts) : HostOK(h))
         /\ IsServed(m.method) /\ m.method = calls[u].method
    /\ f.mtype = "REQ_SERVICE" => IsServed(m.method) /\ HostOK(m.host)

FinderOK(u) ==
  /\ asked[Finder(u)] # None =>
       asked[Finder(u)] = ServiceRequest(calls[u].method, SERVICE_DISCOVERY, Absent)
  /\ \A i \in DOMAIN toClient[Finder(u)] : News(u, toClient[Finder(u)][i])

\* What a user calls once it has a host for it is served.
UserOK(u) ==
  /\ calls[u] # None /\ calls[u].host # None => IsServed(calls[u].method)
  /\ asked[Caller(u)] # None => IsServed(calls[u].method)
  /\ \A i \in DOMAIN toClient[Caller(u)] : \A m \in Received(toClient[Caller(u)][i]) :
       m.rcode # RCODE_NOT_FOUND_SERVICE

DInv ==
  /\ RInv /\ AnnounceOK /\ RegistryOK /\ FoundOK
  /\ \A u \in User \ Direct : FinderOK(u) /\ UserOK(u)

\* What is served stays served.
LEMMA ServedStays ==
  ASSUME RInv, [Next]_vars
  PROVE  /\ \A n : IsServed(n) => IsServed(n)'
         /\ \A h : HostOK(h) => HostOK(h)'
         /\ ServicesOK'
<1>1. \A n \in DOMAIN services : n \in DOMAIN services'
  BY ServicesStay
<1> QED  BY <1>1, ServicesStay DEF IsServed, HostOK

\* What the registry takes a request for.
LEMMA RegistryTook ==
  ASSUME XInv, NEW l \in Link, NEW m, Takes(l, "REQ_SERVICE", m)
  PROVE  /\ asked[l] # None /\ m.method = asked[l].method
         /\ \/ l = Registrar /\ (m.method \in Utf8 => m.optype = SERVICE_REGISTRY /\ m.host = Addr)
            \/ \E u \in User \ Direct : l = Finder(u) /\ (m.method \in Utf8 => m.optype = SERVICE_DISCOVERY)
         /\ m.method \notin Utf8 => m.optype = SERVICE_REGISTRY /\ m.host = Absent
<1>1. /\ RequestType(l[1]) = "REQ_SERVICE" /\ asked[l] \in Requests(l[1])
      /\ m \in Received(Envelope("REQ_SERVICE", asked[l]))
  BY Taken DEF XInv, Asked
<1>2. asked[l] # None
  BY <1>1, NoneIsNoRequest
<1>3. \A n \in Text : TextOK(n) <=> n \in Utf8
  BY MessagesAssumption DEF TextOK
<1>4. CASE l = Registrar /\ l[1] = "RegisterClient"
  <2>1. PICK s \in Service : asked[l] = ServiceRequest(s.name, SERVICE_REGISTRY, Addr)
    BY <1>1, <1>4, FrontRequests
  <2>2. s.name \in Text
    BY RouterAssumption
  <2>3. /\ m.method = s.name
        /\ IF s.name \in Utf8 THEN m = ServiceRequest(s.name, SERVICE_REGISTRY, Addr)
           ELSE m.optype = SERVICE_REGISTRY /\ m.host = Absent
    BY <1>1, <1>3, <2>1, <2>2, ServiceAsAsked DEF SERVICE_REGISTRY
  <2> QED  BY <1>2, <1>4, <2>1, <2>3 DEF ServiceRequest
<1>5. ASSUME NEW u \in User \ Direct, l = Finder(u), l[1] = "DiscoverClient"
      PROVE  /\ m.method = asked[l].method
             /\ m.method \in Utf8 => m.optype = SERVICE_DISCOVERY
             /\ m.method \notin Utf8 => m.optype = SERVICE_REGISTRY /\ m.host = Absent
  <2>1. PICK n \in Method : asked[l] = ServiceRequest(n, SERVICE_DISCOVERY, Absent)
    BY <1>1, <1>5, FrontRequests
  <2>2. n \in Text
    BY ExchangeAssumption
  <2>3. /\ m.method = n
        /\ IF n \in Utf8 THEN m = ServiceRequest(n, SERVICE_DISCOVERY, Absent)
           ELSE m.optype = SERVICE_REGISTRY /\ m.host = Absent
    BY <1>1, <1>3, <2>1, <2>2, ServiceAsAsked DEF SERVICE_DISCOVERY
  <2> QED  BY <2>1, <2>3 DEF ServiceRequest
<1>6. l[1] \in {"RegisterClient", "DiscoverClient"}
  BY <1>1, Fronts, FrontTypes
<1> QED  BY <1>2, <1>4, <1>5, <1>6, Fronts

LEMMA AnswerFields ==
  /\ ServiceResponsePb \in Schemas /\ Schema("RSP_SERVICE") = ServiceResponsePb
  /\ Names(ServiceResponsePb) = {"rcode", "optype", "method", "hosts"}
  /\ KindOf(ServiceResponsePb, "rcode") = "int" /\ KindOf(ServiceResponsePb, "optype") = "int"
  /\ KindOf(ServiceResponsePb, "method") = "string" /\ KindOf(ServiceResponsePb, "hosts") = "hosts"
<1>1. /\ ServiceResponsePb \in Schemas /\ DOMAIN ServiceResponsePb = 1..4
      /\ ServiceResponsePb[1] = Field("rcode", "int") /\ ServiceResponsePb[2] = Field("optype", "int")
      /\ ServiceResponsePb[3] = Field("method", "string") /\ ServiceResponsePb[4] = Field("hosts", "hosts")
  BY DEF Schemas, ServiceResponsePb
<1>2. ASSUME NEW i \in DOMAIN ServiceResponsePb, NEW name, ServiceResponsePb[i].name = name
      PROVE  KindOf(ServiceResponsePb, name) = ServiceResponsePb[i].kind
  BY <1>1, <1>2, PositionAt DEF KindOf
<1>3. Schema("RSP_SERVICE") = ServiceResponsePb
  BY DEF Schema
<1>4. Names(ServiceResponsePb) = {"rcode", "optype", "method", "hosts"}
  BY DEF Names, ServiceResponsePb, Field
<1> QED  BY <1>1, <1>2, <1>3, <1>4 DEF Field

\* Neither host is what stops a parser.
LEMMA HostsAre == /\ Addr \in Host /\ NoHost \in Host /\ TextOK(Addr.ip) /\ TextOK(NoHost.ip)
                  /\ Addr # Absent /\ NoHost # Absent
<1>1. NoHost \in Host
  BY DEF NoHost, Host, String
<1>2. TextOK(NoHost.ip)
  BY DEF NoHost, TextOK
<1> QED  BY <1>1, <1>2, ExchangeAssumption, AbsentAssumption

\* The registry's answers arrive as they were sent.
LEMMA AnswerArrives ==
  ASSUME NEW rcode \in Int, NEW op \in Int, NEW n \in Utf8 \cup {NoText},
         NEW hosts \in Seq({Addr, NoHost}),
         NEW got \in Received(Envelope("RSP_SERVICE", ServiceAnswer(rcode, op, n, hosts)))
  PROVE  got = ServiceAnswer(rcode, op, n, hosts)
<1> DEFINE a == ServiceAnswer(rcode, op, n, hosts)
<1>1. a.rcode = rcode /\ a.optype = op /\ a.method = n /\ a.hosts = hosts
  BY DEF ServiceAnswer
<1>2. a = [f \in Names(ServiceResponsePb) |-> a[f]]
  BY AnswerFields DEF ServiceAnswer
<1>3. hosts \in Seq(Host) /\ n \in String
  BY HostsAre, MessagesAssumption DEF String
<1>4. \A i \in DOMAIN hosts : hosts[i] \in {Addr, NoHost}
  OBVIOUS
<1>5. got \in Parse(ServiceResponsePb, Serialize(ServiceResponsePb, a))
  BY AnswerFields DEF Received, Envelope, Frame
<1> HIDE DEF a
<1>6. \A f \in Names(ServiceResponsePb) : a[f] \in Content(KindOf(ServiceResponsePb, f))
  BY <1>1, <1>3, AnswerFields DEF Content
<1>7. a \in Messages(ServiceResponsePb)
  BY <1>2, <1>6, AnswerFields, IsMessage
<1>8. TextOK(n) /\ \A i \in DOMAIN hosts : TextOK(hosts[i].ip)
  BY <1>4, HostsAre DEF TextOK
<1>9. WellFormed(ServiceResponsePb, a)
  BY <1>1, <1>8, AnswerFields DEF WellFormed, Fails, Serialize, Parses
<1>10. Parse(ServiceResponsePb, Serialize(ServiceResponsePb, a)) = {a}
  BY <1>7, <1>9, AnswerFields, RoundTrip
<1> QED  BY <1>5, <1>10 DEF a

\* The registry's lists name the server only.
LEMMA ListsAre ==
  ASSUME RegistryOK, NEW n \in Utf8,
         NEW list \in SetToSeqs({k \in Link : <<k, n>> \in providers})
  PROVE  LET hosts == [i \in DOMAIN list |-> addresses[list[i]]]
         IN /\ hosts \in Seq({Addr, NoHost})
            /\ \A i \in DOMAIN hosts : HostOK(hosts[i])
            /\ hosts # <<>> => IsServed(n)
<1> DEFINE S == {k \in Link : <<k, n>> \in providers}
<1> DEFINE hosts == [i \in DOMAIN list |-> addresses[list[i]]]
<1>1. \A k \in S : k = Registrar /\ IsServed(n) /\ HostOK(addresses[k])
  BY DEF RegistryOK
<1>2. S = {} \/ S = {Registrar}
  BY <1>1
<1>3. /\ Cardinality({}) = 0
      /\ Cardinality({Registrar}) = 1
  BY FS_EmptySet, FS_Singleton
<1>4. list \in [1..Cardinality(S) -> S]
  BY DEF SetToSeqs
<1>5. Cardinality(S) \in Nat
  <2> HIDE DEF S
  <2> QED  BY <1>2, <1>3
<1>6. \A i \in DOMAIN list : HostOK(addresses[list[i]]) /\ IsServed(n)
  BY <1>1, <1>4
<1> HIDE DEF S
<1>7. hosts \in [1..Cardinality(S) -> {Addr, NoHost}]
  BY <1>4, <1>6 DEF HostOK
<1>8. hosts \in Seq({Addr, NoHost})
  <2> HIDE DEF hosts
  <2> QED  BY <1>5, <1>7
<1>9. hosts # <<>> => IsServed(n)
  <2>1. CASE S = {}
    <3>1. DOMAIN hosts = {}
      BY <1>3, <1>4, <2>1
    <3> HIDE DEF hosts
    <3> QED  BY <1>8, <3>1
  <2>2. CASE S = {Registrar}
    BY <1>1, <2>2 DEF S
  <2> QED  BY <1>2, <2>1, <2>2 DEF S
<1> QED  BY <1>6, <1>8, <1>9

LEMMA RegistryStepOK ==
  ASSUME DInv, [Next]_vars, NEW l \in Link, NEW m, RegistryHandles(l, m)
  PROVE  RegistryOK'
<1> USE DEF DInv, RInv
<1>1. Takes(l, "REQ_SERVICE", m) /\ (Registers(l, m) \/ Discovers(l, m))
  BY DEF RegistryHandles
<1>2. /\ asked[l] # None /\ m.method = asked[l].method
      /\ \/ l = Registrar /\ (m.method \in Utf8 => m.optype = SERVICE_REGISTRY /\ m.host = Addr)
         \/ l # Registrar /\ (m.method \in Utf8 => m.optype = SERVICE_DISCOVERY)
      /\ m.method \notin Utf8 => m.optype = SERVICE_REGISTRY /\ m.host = Absent
  BY <1>1, RegistryTook, Links
<1>3. (\A n : IsServed(n) => IsServed(n)') /\ (\A h : HostOK(h) => HostOK(h)')
  BY ServedStays
<1>4. Registrar \in Link
  BY Links
<1>5. CASE Registers(l, m)
  <2>1. /\ m.optype = SERVICE_REGISTRY /\ providers' = providers \cup {<<l, m.method>>}
        /\ addresses' = [addresses EXCEPT ![l] = IF @ = Absent THEN HostIn(m.host) ELSE @]
        /\ UNCHANGED discoverers
    BY <1>5 DEF Registers
  <2>2. m.optype # SERVICE_DISCOVERY
    BY <2>1 DEF SERVICE_REGISTRY, SERVICE_DISCOVERY
  <2>3. CASE l = Registrar
    <3>1. IsServed(m.method)
      BY <1>2, <2>3 DEF AnnounceOK
    <3>2. HostOK(HostIn(m.host)) /\ HostIn(m.host) # Absent
      BY <1>2, <2>3, <3>1, HostsAre DEF HostOK, HostIn, IsServed
    <3>3. addresses'[Registrar] = IF addresses[Registrar] = Absent THEN HostIn(m.host) ELSE addresses[Registrar]
      BY <1>4, <2>1, <2>3 DEF RegistryOK
    <3> QED  BY <1>3, <2>1, <2>3, <3>1, <3>2, <3>3 DEF RegistryOK
  <2>4. CASE l # Registrar
    <3>1. m.method \notin Utf8
      BY <1>2, <2>2, <2>4
    <3>2. addresses'[Registrar] = addresses[Registrar]
      BY <2>1, <2>4 DEF RegistryOK
    <3> QED  BY <1>3, <2>1, <3>1, <3>2 DEF RegistryOK
  <2> QED  BY <2>3, <2>4
<1>6. CASE Discovers(l, m)
  <2>1. m.method \in Utf8
    BY <1>2, <1>6 DEF Discovers, SERVICE_REGISTRY, SERVICE_DISCOVERY
  <2> QED  BY <1>3, <1>6, <2>1 DEF Discovers, RegistryOK
<1> QED  BY <1>1, <1>5, <1>6

LEMMA GrowsBy ==
  ASSUME NEW l, NEW s, Fine(l, s), NEW t \in ClientHandles(l[1]), NEW w
  PROVE  /\ Fine(l, s \o <<Frame(t, w)>>)
         /\ \A i \in DOMAIN (s \o <<Frame(t, w)>>) :
              \/ i \in DOMAIN s /\ (s \o <<Frame(t, w)>>)[i] = s[i]
              \/ (s \o <<Frame(t, w)>>)[i] = Frame(t, w)
<1> DEFINE q == s \o <<Frame(t, w)>>
<1>1. /\ Fine(l, q) /\ Len(s) \in Nat /\ DOMAIN s = 1..Len(s) /\ DOMAIN q = 1..(Len(s) + 1)
      /\ \A i \in 1..Len(s) : q[i] = s[i]
      /\ q[Len(s) + 1] = Frame(t, w)
  BY Grows
<1> HIDE DEF q
<1>2. \A i \in DOMAIN q : i \in DOMAIN s \/ i = Len(s) + 1
  BY <1>1
<1>3. \A i \in DOMAIN q : (i \in DOMAIN s /\ q[i] = s[i]) \/ q[i] = Frame(t, w)
  BY <1>1, <1>2
<1> QED  BY <1>1, <1>3 DEF q

LEMMA NewsStays ==
  ASSUME RInv, [Next]_vars, NEW u, NEW f, News(u, f), calls'[u].method = calls[u].method
  PROVE  News(u, f)'
BY ServedStays DEF News

LEMMA RegistryFinderOK ==
  ASSUME DInv, [Next]_vars, NEW l \in Link, NEW m, RegistryHandles(l, m), NEW u \in User \ Direct
  PROVE  FinderOK(u)'
<1> USE DEF DInv, RInv
<1> DEFINE k == Finder(u)
<1>1. /\ UNCHANGED <<asked, calls>> /\ FinderOK(u)
      /\ Takes(l, "REQ_SERVICE", m) /\ (Registers(l, m) \/ Discovers(l, m))
  BY DEF RegistryHandles, userVars
<1>2. /\ asked[l] # None /\ m.method = asked[l].method
      /\ m.method \in Utf8 /\ m.optype = SERVICE_REGISTRY => l = Registrar /\ m.host = Addr
      /\ m.method \notin Utf8 => m.optype = SERVICE_REGISTRY /\ m.host = Absent
  BY <1>1, RegistryTook DEF SERVICE_REGISTRY, SERVICE_DISCOVERY
<1>3. /\ k \in Link /\ Fine(k, toClient[k]) /\ k # Registrar
      /\ AnswerType(k[1]) = "RSP_SERVICE"
      /\ "RSP_SERVICE" \in ClientHandles(k[1]) /\ "REQ_SERVICE" \in ClientHandles(k[1])
  BY Links, FrontTypes DEF XInv, TrafficOK
<1>4. ASSUME NEW s, Fine(k, s), \A i \in DOMAIN s : News(u, s[i]),
             NEW t \in ClientHandles(k[1]), NEW w, News(u, Frame(t, w))
      PROVE  /\ Fine(k, s \o <<Frame(t, w)>>)
             /\ \A i \in DOMAIN (s \o <<Frame(t, w)>>) : News(u, (s \o <<Frame(t, w)>>)[i])
  <2> HIDE DEF k
  <2> DEFINE q == s \o <<Frame(t, w)>>
  <2>1. /\ Fine(k, q)
        /\ \A i \in DOMAIN q : (i \in DOMAIN s /\ q[i] = s[i]) \/ q[i] = Frame(t, w)
    BY <1>4, GrowsBy
  <2> HIDE DEF q
  <2>2. \A i \in DOMAIN q : News(u, q[i])
    BY <1>4, <2>1
  <2> QED  BY <2>1, <2>2 DEF q
<1>5. ASSUME \A i \in DOMAIN toClient'[k] : News(u, toClient'[k][i])
      PROVE  FinderOK(u)'
  <2>1. ASSUME NEW i \in DOMAIN toClient'[k], NEW f, f = toClient'[k][i]
        PROVE  News(u, f)'
    BY <1>1, <1>5, <2>1, NewsStays
  <2> QED  BY <1>1, <2>1 DEF FinderOK, News
<1>6. CASE Registers(l, m)
  <2> DEFINE v == Serialize(Schema("REQ_SERVICE"), ServiceRequest(m.method, SERVICE_ONLINE, HostIn(m.host)))
  <2> DEFINE w == Serialize(Schema("RSP_SERVICE"), ServiceAnswer(RCODE_OK, SERVICE_REGISTRY, NoText, <<>>))
  <2> DEFINE q == toClient[k] \o (IF k \in Told(m.method) THEN <<Frame("REQ_SERVICE", v)>> ELSE <<>>)
  <2>1. News(u, Frame("RSP_SERVICE", w))
    <3>1. ASSUME NEW got \in Received(Frame("RSP_SERVICE", w))
          PROVE  got.hosts = <<>>
      <4>1. got = ServiceAnswer(RCODE_OK, SERVICE_REGISTRY, NoText, <<>>)
        <5>1. RCODE_OK \in Int /\ SERVICE_REGISTRY \in Int /\ <<>> \in Seq({Addr, NoHost})
          BY DEF RCODE_OK, SERVICE_REGISTRY
        <5>2. got \in Received(Envelope("RSP_SERVICE", ServiceAnswer(RCODE_OK, SERVICE_REGISTRY, NoText, <<>>)))
          BY <3>1 DEF Envelope
        <5> QED  BY <5>1, <5>2, AnswerArrives
      <4> QED  BY <4>1 DEF ServiceAnswer
    <3> HIDE DEF w
    <3> QED  BY <3>1 DEF News, Frame
  <2>2. ASSUME k \in Told(m.method)
        PROVE  News(u, Frame("REQ_SERVICE", v))
    <3>1. m.method \in Utf8
      BY <2>2 DEF Told, RegistryOK
    <3>2. m.host = Addr /\ IsServed(m.method)
      BY <1>2, <1>6, <3>1 DEF AnnounceOK, Registers
    <3>3. ASSUME NEW got \in Received(Frame("REQ_SERVICE", v))
          PROVE  got = ServiceRequest(m.method, SERVICE_ONLINE, Addr)
      <4>1. got \in Received(Envelope("REQ_SERVICE", ServiceRequest(m.method, SERVICE_ONLINE, Addr)))
        BY <3>2, <3>3, HostsAre DEF Envelope, HostIn
      <4>2. m.method \in Text /\ TextOK(m.method) /\ SERVICE_ONLINE \in Int
        BY <3>1, MessagesAssumption DEF TextOK, SERVICE_ONLINE
      <4> QED  BY <4>1, <4>2, ServiceAsAsked
    <3> HIDE DEF v
    <3> QED  BY <3>2, <3>3 DEF News, Frame, HostOK, ServiceRequest
  <2>3. toClient'[k] = q \o (IF k = l THEN <<Frame("RSP_SERVICE", w)>> ELSE <<>>)
    BY <1>3, <1>6 DEF Registers, Envelope
  <2> HIDE DEF v, w
  <2>4. Fine(k, q) /\ \A i \in DOMAIN q : News(u, q[i])
    <3>1. CASE k \in Told(m.method)
      <4>1. q = toClient[k] \o <<Frame("REQ_SERVICE", v)>>
        BY <3>1
      <4> HIDE DEF q, k
      <4> QED  BY <1>1, <1>3, <1>4, <2>2, <3>1, <4>1 DEF FinderOK, k
    <3>2. CASE k \notin Told(m.method)
      <4>1. q = toClient[k]
        BY <1>3, <3>2, AddNothing
      <4> HIDE DEF q
      <4> QED  BY <1>1, <1>3, <4>1 DEF FinderOK
    <3> QED  BY <3>1, <3>2
  <2> HIDE DEF q
  <2>5. CASE k = l
    <3>1. toClient'[k] = q \o <<Frame("RSP_SERVICE", w)>>
      BY <2>3, <2>5
    <3>2. \A i \in DOMAIN (q \o <<Frame("RSP_SERVICE", w)>>) : News(u, (q \o <<Frame("RSP_SERVICE", w)>>)[i])
      BY <1>3, <1>4, <2>1, <2>4
    <3> HIDE DEF k
    <3> QED  BY <1>5, <3>1, <3>2
  <2>6. CASE k # l
    <3>1. toClient'[k] = q
      BY <2>3, <2>4, <2>6, AddNothing
    <3> HIDE DEF k
    <3> QED  BY <1>5, <2>4, <3>1
  <2> QED  BY <2>5, <2>6
<1>7. CASE Discovers(l, m)
  <2>1. m.optype = SERVICE_DISCOVERY /\ m.method \in Utf8
    BY <1>2, <1>7 DEF Discovers, SERVICE_REGISTRY, SERVICE_DISCOVERY
  <2>2. PICK list \in SetToSeqs({j \in Link : <<j, m.method>> \in providers}) :
          LET hosts == [i \in DOMAIN list |-> addresses[list[i]]]
              rcode == IF hosts = <<>> THEN RCODE_NOT_FOUND_SERVICE ELSE RCODE_OK
          IN Reply(l, "RSP_SERVICE", ServiceAnswer(rcode, SERVICE_DISCOVERY, m.method, hosts))
    BY <1>7 DEF Discovers
  <2> DEFINE hosts == [i \in DOMAIN list |-> addresses[list[i]]]
  <2> DEFINE rcode == IF hosts = <<>> THEN RCODE_NOT_FOUND_SERVICE ELSE RCODE_OK
  <2> DEFINE a == ServiceAnswer(rcode, SERVICE_DISCOVERY, m.method, hosts)
  <2>3. /\ hosts \in Seq({Addr, NoHost}) /\ (\A i \in DOMAIN hosts : HostOK(hosts[i]))
        /\ hosts # <<>> => IsServed(m.method)
    BY <2>1, ListsAre
  <2>4. rcode \in Int /\ SERVICE_DISCOVERY \in Int
    BY DEF RCODE_NOT_FOUND_SERVICE, RCODE_OK, SERVICE_DISCOVERY
  <2>5. toClient' = [toClient EXCEPT ![l] = Append(@, Envelope("RSP_SERVICE", a))]
    BY <2>2 DEF Reply
  <2>6. CASE l = k
    <3> HIDE DEF hosts, rcode
    <3>1. \A got \in Received(Envelope("RSP_SERVICE", a)) : got = a
      BY <2>1, <2>3, <2>4, AnswerArrives
    <3>2. a.hosts = hosts /\ a.method = m.method
      BY DEF ServiceAnswer
    <3>3. m.method = calls[u].method
      BY <1>1, <1>2, <2>6 DEF FinderOK, ServiceRequest
    <3> DEFINE w == Serialize(Schema("RSP_SERVICE"), a)
    <3>4. Envelope("RSP_SERVICE", a) = Frame("RSP_SERVICE", w)
      BY DEF Envelope
    <3> HIDE DEF a, w
    <3>5. News(u, Frame("RSP_SERVICE", w))
      BY <2>3, <3>1, <3>2, <3>3, <3>4 DEF News, Frame, ToSet
    <3>6. toClient'[k] = Append(toClient[k], Frame("RSP_SERVICE", w))
      BY <1>3, <2>5, <2>6, <3>4 DEF XInv, TrafficOK
    <3>7. toClient'[k] = toClient[k] \o <<Frame("RSP_SERVICE", w)>>
      <4>1. PICK W : toClient[k] \in Seq(Inbox(k, W))
        BY <1>3 DEF Fine
      <4> QED  BY <3>6, <4>1
    <3> HIDE DEF k
    <3> QED  BY <1>1, <1>3, <1>4, <1>5, <3>5, <3>7 DEF FinderOK, k
  <2>7. CASE l # k
    <3>1. toClient'[k] = toClient[k]
      BY <1>3, <2>5, <2>7 DEF XInv, TrafficOK
    <3> QED  BY <1>1, <1>5, <3>1 DEF FinderOK
  <2> QED  BY <2>6, <2>7
<1> QED  BY <1>1, <1>6, <1>7

\* A link whose frames and request a step leaves alone.
LEMMA ElsewhereSame ==
  ASSUME TrafficOK, NEW k \in Link, NEW l, l \in Link => l # k,
         \/ \E t, r : Send(l, t, r) /\ UNCHANGED toClient
         \/ \E t, m : Gets(l, t, m) /\ (UNCHANGED asked \/ Answered(l))
  PROVE  asked'[k] = asked[k] /\ toClient'[k] = toClient[k]
BY DEF Send, Gets, Answered, TrafficOK

\* The topic server writes to the clients of topics only, the router to callers.
LEMMA ServersElsewhere ==
  ASSUME XInv, NEW l \in Link, NEW m, NEW k \in Link,
         \/ RouterHandles(l, m) /\ l # k
         \/ TopicHandles(l, m) /\ k[1] # "TopicClient"
  PROVE  asked' = asked /\ toClient'[k] = toClient[k]
<1>1. TrafficOK /\ asked' = asked
  BY DEF XInv, RouterHandles, TopicHandles
<1>2. CASE RouterHandles(l, m) /\ l # k
  BY <1>1, <1>2 DEF RouterHandles, Reply, TrafficOK
<1>3. CASE TopicHandles(l, m) /\ k[1] # "TopicClient"
  <2>1. l # k
    BY <1>3, Taken, Fronts, FrontTypes DEF TopicHandles, XInv
  <2>2. <<k, m.topic_key>> \notin members
    BY <1>3 DEF XInv, TellsOK
  <2>3. toClient[k] \o <<>> = toClient[k]
    BY <1>1, AddNothing DEF TrafficOK
  <2> QED  BY <1>1, <1>3, <2>1, <2>2, <2>3 DEF TopicHandles
<1> QED  BY <1>2, <1>3

\* The first frame of a client's, and those after it.
LEMMA FirstFrame ==
  ASSUME NEW l, NEW s, Fine(l, s), s # <<>>
  PROVE  /\ 1 \in DOMAIN s /\ Head(s) = s[1]
         /\ \A i \in DOMAIN Tail(s) : \E j \in DOMAIN s : Tail(s)[i] = s[j]
<1>1. PICK W : s \in Seq(Inbox(l, W))
  BY DEF Fine
<1> DEFINE S == Inbox(l, W)
<1> HIDE DEF S
<1>2. s \in Seq(S)
  BY <1>1 DEF S
<1>3. /\ 1 \in DOMAIN s /\ Head(s) = s[1]
      /\ \A i \in DOMAIN Tail(s) : i + 1 \in DOMAIN s /\ Tail(s)[i] = s[i + 1]
  BY <1>2
<1> QED  BY <1>3

LEMMA NextAnnounceOK == ASSUME DInv, [Next]_vars PROVE AnnounceOK'
<1>1. TrafficOK /\ CallTypeOK /\ AnnounceOK
  BY DEF DInv, RInv, XInv
<1>2. \A n : IsServed(n) => IsServed(n)'
  BY ServedStays DEF DInv
<1>3. Registrar \in Link /\ (\A x : Finder(x) # Registrar /\ Caller(x) # Registrar /\ Topics(x) # Registrar)
  BY Links
<1>4. ASSUME announcing' = announcing,
             asked'[Registrar] = asked[Registrar] \/ asked'[Registrar] = None
      PROVE  AnnounceOK'
  BY <1>1, <1>2, <1>4 DEF AnnounceOK
<1>5. ASSUME NEW l, l # Registrar, announcing' = announcing,
             \/ \E t, r : Send(l, t, r) /\ UNCHANGED toClient
             \/ \E t, m : Gets(l, t, m) /\ (UNCHANGED asked \/ Answered(l))
      PROVE  AnnounceOK'
  BY <1>1, <1>3, <1>4, <1>5, ElsewhereSame
<1>6. ASSUME NEW s \in Service, RegisterService(s) PROVE AnnounceOK'
  <2>1. announcing' = s /\ asked' = asked /\ asked[Registrar] = None /\ s.name \in DOMAIN services'
    BY <1>6 DEF RegisterService, Insert
  <2> QED  BY <2>1 DEF AnnounceOK, IsServed
<1>7. CASE Announce
  <2>1. /\ announcing # None /\ announcing' = None
        /\ asked' = [asked EXCEPT ![Registrar] = ServiceRequest(announcing.name, SERVICE_REGISTRY, Addr)]
    BY <1>7 DEF Announce, Send
  <2>2. asked'[Registrar].method = announcing.name
    BY <1>1, <1>3, <2>1 DEF TrafficOK, ServiceRequest
  <2> QED  BY <1>1, <1>2, <2>1, <2>2 DEF AnnounceOK
<1>8. ASSUME NEW m, RegistrarReturns(m) PROVE AnnounceOK'
  <2>1. announcing' = announcing /\ asked'[Registrar] = None
    BY <1>1, <1>3, <1>8 DEF RegistrarReturns, Answered, TrafficOK
  <2> QED  BY <1>4, <2>1
<1>9. CASE UNCHANGED <<announcing, asked>>
  BY <1>4, <1>9
<1>10. ASSUME NEW u \in User, NEW n, NEW ps, CallUnknown(u, n, ps) \/ SendCall(u) PROVE AnnounceOK'
  BY <1>3, <1>5, <1>10 DEF CallUnknown, SendCall
<1>11. ASSUME NEW t \in Member, NEW key, NEW op, NEW msg, AskTopic(t, key, op, msg) PROVE AnnounceOK'
  BY <1>3, <1>5, <1>11 DEF AskTopic
<1>12. ASSUME NEW u \in User, NEW m, DiscoveryReturns(u, m) \/ CallReturns(u, m) PROVE AnnounceOK'
  BY <1>3, <1>5, <1>12 DEF DiscoveryReturns, CallReturns
<1>13. ASSUME NEW t \in Member, NEW m, TopicReturns(t, m) PROVE AnnounceOK'
  BY <1>3, <1>5, <1>13 DEF TopicReturns
<1>14. \/ \E s \in Service : RegisterService(s)
       \/ Announce
       \/ \E u \in User : \E n, ps : CallUnknown(u, n, ps) \/ SendCall(u)
       \/ \E t \in Member : \E key, op, msg : AskTopic(t, key, op, msg)
       \/ \E m : \/ RegistrarReturns(m)
                 \/ \E u \in User : DiscoveryReturns(u, m) \/ CallReturns(u, m)
                 \/ \E t \in Member : TopicReturns(t, m)
       \/ UNCHANGED <<announcing, asked>>
  BY DEF Next, vars, CallKnown, RouterHandles, RegistryHandles, TopicHandles, FinderNoticed,
     TopicPushed
<1> QED  BY <1>6, <1>7, <1>8, <1>9, <1>10, <1>11, <1>12, <1>13, <1>14

LEMMA NextRegistryOK == ASSUME DInv, [Next]_vars PROVE RegistryOK'
<1>1. CASE \E l \in Link : \E m : RegistryHandles(l, m)
  BY <1>1, RegistryStepOK
<1>2. CASE UNCHANGED <<providers, addresses, discoverers>>
  <2>1. (\A n : IsServed(n) => IsServed(n)') /\ (\A h : HostOK(h) => HostOK(h)')
    BY ServedStays DEF DInv
  <2> QED  BY <1>2, <2>1 DEF DInv, RegistryOK
<1>3. \/ \E l \in Link : \E m : RegistryHandles(l, m)
      \/ UNCHANGED registryVars
  BY DEF Next, vars, RegisterService, Announce, CallUnknown, CallKnown, SendCall,
         AskTopic, RouterHandles, TopicHandles, RegistrarReturns, DiscoveryReturns, FinderNoticed,
         CallReturns, TopicReturns, TopicPushed
<1> QED  BY <1>1, <1>2, <1>3 DEF registryVars

\* What a Discoverer reads is news.
LEMMA ReadsNews ==
  ASSUME DInv, NEW u \in User, Finder(u) \in Link, NEW t, NEW m, Gets(Finder(u), t, m)
  PROVE  /\ u \in User \ Direct
         /\ t = "RSP_SERVICE" /\ m.hosts # <<>> =>
              /\ \A h \in ToSet(m.hosts) : HostOK(h)
              /\ Head(m.hosts) \in {Addr, NoHost}
              /\ IsServed(m.method) /\ m.method = calls[u].method
         /\ t = "REQ_SERVICE" => IsServed(m.method) /\ HostOK(m.host)
<1>1. u \in User \ Direct /\ Fine(Finder(u), toClient[Finder(u)]) /\ FinderOK(u)
  BY Links DEF DInv, RInv, XInv, TrafficOK
<1>2. /\ toClient[Finder(u)] # <<>> /\ Head(toClient[Finder(u)]).mtype = t
      /\ m \in Received(Head(toClient[Finder(u)]))
  BY DEF Gets
<1>3. News(u, Head(toClient[Finder(u)]))
  BY <1>1, <1>2, FirstFrame DEF FinderOK
<1>4. \A s \in Seq({Addr, NoHost}) : s # <<>> => Head(s) \in {Addr, NoHost}
  OBVIOUS
<1> QED  BY <1>1, <1>2, <1>3, <1>4 DEF News

LEMMA NextFoundOK == ASSUME DInv, [Next]_vars PROVE FoundOK'
<1>1. FoundOK /\ (\A n : IsServed(n) => IsServed(n)') /\ (\A h : HostOK(h) => HostOK(h)')
  BY ServedStays DEF DInv
<1>2. ASSUME NEW n, NEW F, IsServed(n), \A f \in F : f[2] = n /\ HostOK(f[3]), found' \subseteq found \cup F
      PROVE  FoundOK'
  BY <1>1, <1>2 DEF FoundOK
<1>3. ASSUME found' \subseteq found PROVE FoundOK'
  BY <1>1, <1>3 DEF FoundOK
<1>4. ASSUME NEW u \in User, Finder(u) \in Link, NEW m, DiscoveryReturns(u, m) PROVE FoundOK'
  <2>1. CASE found' \subseteq found
    BY <1>3, <2>1
  <2>2. CASE m.hosts # <<>> /\ found' \subseteq found \cup {<<u, m.method, h>> : h \in ToSet(m.hosts)}
    <3>1. IsServed(m.method) /\ \A h \in ToSet(m.hosts) : HostOK(h)
      BY <1>4, <2>2, ReadsNews DEF DiscoveryReturns
    <3>2. \A f \in {<<u, m.method, h>> : h \in ToSet(m.hosts)} : f[2] = m.method /\ HostOK(f[3])
      BY <3>1
    <3> QED  BY <1>2, <2>2, <3>1, <3>2
  <2> QED  BY <1>4, <2>1, <2>2 DEF DiscoveryReturns
<1>5. ASSUME NEW u \in User, Finder(u) \in Link, NEW m, FinderNoticed(u, m) PROVE FoundOK'
  <2>1. IsServed(m.method) /\ HostOK(m.host)
    BY <1>5, ReadsNews DEF FinderNoticed
  <2> DEFINE F == {<<u, m.method, m.host>>}
  <2>2. found' \subseteq found \cup F
    BY <1>5 DEF FinderNoticed
  <2>3. \A f \in F : f[2] = m.method /\ HostOK(f[3])
    BY <2>1
  <2> HIDE DEF F
  <2> QED  BY <1>2, <2>1, <2>2, <2>3
<1>6. \/ \E u \in User : Finder(u) \in Link /\ \E m : DiscoveryReturns(u, m) \/ FinderNoticed(u, m)
      \/ found' = found
  BY DEF Next, vars, userVars, RegisterService, Announce, CallUnknown, CallKnown, SendCall,
     AskTopic,
         RouterHandles, RegistryHandles, TopicHandles, RegistrarReturns, CallReturns, TopicReturns,
         TopicPushed
<1> QED  BY <1>3, <1>4, <1>5, <1>6

\* What is no answer is news whatever the call is.
LEMMA NoticesStay ==
  ASSUME RInv, [Next]_vars, NEW u, NEW f, News(u, f), f.mtype # "RSP_SERVICE"
  PROVE  News(u, f)'
BY ServedStays DEF News

\* Nothing changes for u's Discoverer.
LEMMA FinderSame ==
  ASSUME DInv, [Next]_vars, NEW u \in User \ Direct,
         asked'[Finder(u)] = asked[Finder(u)], toClient'[Finder(u)] = toClient[Finder(u)],
         calls'[u].method = calls[u].method
  PROVE  FinderOK(u)'
<1>1. RInv /\ FinderOK(u)
  BY DEF DInv
<1>2. ASSUME NEW i \in DOMAIN toClient[Finder(u)], NEW f, f = toClient[Finder(u)][i]
      PROVE  News(u, f)'
  BY <1>1, <1>2, NewsStays DEF FinderOK
<1> QED  BY <1>1, <1>2 DEF FinderOK, News

\* The frames that are left to it are no answers.
LEMMA FinderRest ==
  ASSUME DInv, [Next]_vars, NEW u \in User \ Direct,
         asked'[Finder(u)] # None =>
           asked'[Finder(u)] = ServiceRequest(calls'[u].method, SERVICE_DISCOVERY, Absent),
         \A i \in DOMAIN toClient'[Finder(u)] :
           /\ toClient'[Finder(u)][i].mtype # "RSP_SERVICE"
           /\ \E j \in DOMAIN toClient[Finder(u)] : toClient'[Finder(u)][i] = toClient[Finder(u)][j]
  PROVE  FinderOK(u)'
<1>1. RInv /\ FinderOK(u)
  BY DEF DInv
<1>2. ASSUME NEW i \in DOMAIN toClient'[Finder(u)], NEW f, f = toClient'[Finder(u)][i]
      PROVE  News(u, f)'
  BY <1>1, <1>2, NoticesStay DEF FinderOK
<1> QED  BY <1>1, <1>2 DEF FinderOK, News

LEMMA NoAnswers ==
  ASSUME XInv, NEW u \in User \ Direct, asked[Finder(u)] = None
  PROVE  \A i \in DOMAIN toClient[Finder(u)] : toClient[Finder(u)][i].mtype # "RSP_SERVICE"
<1>1. Finder(u) \in Link /\ AnswerType(Finder(u)[1]) = "RSP_SERVICE"
  BY Links, FrontTypes
<1>2. AnswerOK(Finder(u))
  BY <1>1 DEF XInv, FlowOK
<1> QED  BY <1>1, <1>2 DEF AnswerOK, Answers

\* The same once the step is taken.
LEMMA NoAnswersLeft ==
  ASSUME XInv', NEW u \in User \ Direct, asked'[Finder(u)] = None
  PROVE  \A i \in DOMAIN toClient'[Finder(u)] : toClient'[Finder(u)][i].mtype # "RSP_SERVICE"
<1>1. Finder(u) \in Link /\ AnswerType(Finder(u)[1]) = "RSP_SERVICE"
  BY Links, FrontTypes
<1>2. AnswerOK(Finder(u))'
  BY <1>1 DEF XInv, FlowOK
<1> QED  BY <1>1, <1>2 DEF AnswerOK, Answers

\* A call of u's begins.
LEMMA CallsFinderOK ==
  ASSUME DInv, [Next]_vars, NEW u \in User \ Direct, NEW n, NEW ps,
         CallUnknown(u, n, ps) \/ \E h : CallKnown(u, n, ps, h)
  PROVE  FinderOK(u)'
<1>1. XInv /\ Finder(u) \in Link
  BY Links DEF DInv, RInv
<1>2. toClient' = toClient /\ calls[u] = None /\ asked[Finder(u)] = None
  BY <1>1 DEF CallUnknown, CallKnown, XInv, CallsOK
<1>3. asked'[Finder(u)] # None =>
        asked'[Finder(u)] = ServiceRequest(calls'[u].method, SERVICE_DISCOVERY, Absent)
  <2>1. CASE CallUnknown(u, n, ps)
    <3>1. asked'[Finder(u)] = ServiceRequest(n, SERVICE_DISCOVERY, Absent)
      BY <1>1, <2>1 DEF CallUnknown, Send, XInv, TrafficOK
    <3>2. calls'[u].method = n
      BY <1>1, <2>1 DEF CallUnknown, XInv, CallTypeOK, Hostless
    <3> QED  BY <3>1, <3>2
  <2>2. CASE \E h : CallKnown(u, n, ps, h)
    BY <1>2, <2>2 DEF CallKnown
  <2> QED  BY <2>1, <2>2
<1> QED  BY <1>1, <1>2, <1>3, NoAnswers, FinderRest

\* u's Discoverer reads a frame.
LEMMA ReadsFinderOK ==
  ASSUME DInv, XInv', [Next]_vars, NEW u \in User \ Direct, NEW m,
         DiscoveryReturns(u, m) \/ FinderNoticed(u, m)
  PROVE  FinderOK(u)'
<1>1. XInv /\ RInv /\ FinderOK(u) /\ Finder(u) \in Link /\ Fine(Finder(u), toClient[Finder(u)])
  BY Links DEF DInv, RInv, XInv, TrafficOK
<1>2. toClient[Finder(u)] # <<>> /\ toClient'[Finder(u)] = Tail(toClient[Finder(u)])
  BY <1>1 DEF DiscoveryReturns, FinderNoticed, Gets, XInv, TrafficOK
<1>3. \A i \in DOMAIN toClient'[Finder(u)] : \E j \in DOMAIN toClient[Finder(u)] :
        toClient'[Finder(u)][i] = toClient[Finder(u)][j]
  BY <1>1, <1>2, FirstFrame
<1>4. CASE DiscoveryReturns(u, m)
  <2>1. asked'[Finder(u)] = None
    BY <1>1, <1>4 DEF DiscoveryReturns, Answered, XInv, TrafficOK
  <2> QED  BY <1>3, <2>1, NoAnswersLeft, FinderRest
<1>5. CASE FinderNoticed(u, m)
  <2>1. UNCHANGED <<asked, calls>>
    BY <1>5 DEF FinderNoticed
  <2>2. ASSUME NEW i \in DOMAIN toClient'[Finder(u)], NEW f, f = toClient'[Finder(u)][i]
        PROVE  News(u, f)'
    BY <1>1, <1>3, <2>1, <2>2, NewsStays DEF FinderOK
  <2> QED  BY <1>1, <2>1, <2>2 DEF FinderOK, News
<1> QED  BY <1>4, <1>5

LEMMA CallReturnsFinderOK ==
  ASSUME DInv, [Next]_vars, NEW u \in User \ Direct, NEW m, CallReturns(u, m)
  PROVE  FinderOK(u)'
<1>1. XInv /\ Finder(u) \in Link /\ Caller(u) \in Link /\ Caller(u) # Finder(u)
  BY Links DEF DInv, RInv
<1>2. asked[Finder(u)] = None
  <2>1. AnswerType(Caller(u)[1]) = "RSP_RPC"
    BY Links, FrontTypes
  <2>2. asked[Caller(u)] # None
    BY <1>1, <2>1, Gotten DEF CallReturns, XInv
  <2> QED  BY <2>2, <1>1 DEF XInv, CallsOK
<1>3. asked'[Finder(u)] = None /\ toClient'[Finder(u)] = toClient[Finder(u)]
  BY <1>1, <1>2, ElsewhereSame DEF CallReturns, XInv
<1> QED  BY <1>1, <1>2, <1>3, NoAnswers, FinderRest

\* The steps on other links, and of other users.
LEMMA ElsewhereFinderOK ==
  ASSUME DInv, [Next]_vars, NEW u \in User \ Direct,
         \/ UNCHANGED <<asked, toClient, calls>>
         \/ Announce
         \/ \E v \in User : SendCall(v)
         \/ \E t \in Member : \E key, op, msg : AskTopic(t, key, op, msg)
         \/ \E l \in Link : \E m : RouterHandles(l, m) \/ TopicHandles(l, m)
         \/ \E m : \/ RegistrarReturns(m)
                   \/ \E t \in Member : TopicReturns(t, m) \/ TopicPushed(t, m)
         \/ \E v \in User \ {u} :
              \/ \E n, ps : CallUnknown(v, n, ps) \/ \E h : CallKnown(v, n, ps, h)
              \/ \E m : DiscoveryReturns(v, m) \/ FinderNoticed(v, m) \/ CallReturns(v, m)
  PROVE  FinderOK(u)'
<1>1. XInv /\ TrafficOK /\ calls = [v \in User |-> calls[v]]
  BY DEF DInv, RInv, XInv, CallTypeOK
<1>2. /\ Finder(u) \in Link /\ Finder(u) # Registrar /\ Finder(u)[1] = "DiscoverClient"
      /\ \A x : Finder(u) # Caller(x) /\ Finder(u) # Topics(x)
      /\ \A v \in User \ {u} : Finder(u) # Finder(v)
  BY Links
<1>3. calls'[u] = calls[u]
  BY <1>1 DEF Announce, SendCall, AskTopic, RouterHandles, TopicHandles, RegistrarReturns,
     TopicReturns,
        TopicPushed, CallUnknown, CallKnown, DiscoveryReturns, FinderNoticed, CallReturns, Ends, userVars
<1>4. ASSUME asked'[Finder(u)] = asked[Finder(u)] /\ toClient'[Finder(u)] = toClient[Finder(u)]
      PROVE  FinderOK(u)'
  BY <1>3, <1>4, FinderSame
<1>5. ASSUME NEW l, l # Finder(u),
             \/ \E t, r : Send(l, t, r) /\ UNCHANGED toClient
             \/ \E t, m : Gets(l, t, m) /\ (UNCHANGED asked \/ Answered(l))
      PROVE  FinderOK(u)'
  BY <1>1, <1>2, <1>4, <1>5, ElsewhereSame
<1>6. CASE Announce \/ \E v \in User : SendCall(v)
  BY <1>2, <1>5, <1>6 DEF Announce, SendCall
<1>7. CASE \E t \in Member : \E key, op, msg : AskTopic(t, key, op, msg)
  BY <1>2, <1>5, <1>7 DEF AskTopic
<1>8. CASE \E l \in Link : \E m : RouterHandles(l, m) \/ TopicHandles(l, m)
  <2>1. PICK l \in Link : \E m : RouterHandles(l, m) \/ TopicHandles(l, m)
    BY <1>8
  <2>2. PICK m : RouterHandles(l, m) \/ TopicHandles(l, m)
    BY <2>1
  <2>3. RouterHandles(l, m) => l # Finder(u)
    BY <1>1, <1>2, Taken, FrontTypes DEF RouterHandles, XInv
  <2> QED  BY <1>1, <1>2, <1>4, <2>2, <2>3, ServersElsewhere
<1>9. CASE \E m : RegistrarReturns(m) \/ \E t \in Member : TopicReturns(t, m) \/ TopicPushed(t, m)
  BY <1>2, <1>5, <1>9 DEF RegistrarReturns, TopicReturns, TopicPushed
<1>10. ASSUME NEW v \in User \ {u}, NEW n, NEW ps, CallUnknown(v, n, ps) \/ \E h : CallKnown(v, n, ps, h)
       PROVE  FinderOK(u)'
  BY <1>2, <1>4, <1>5, <1>10 DEF CallUnknown, CallKnown
<1>11. ASSUME NEW v \in User \ {u}, NEW m, DiscoveryReturns(v, m) \/ FinderNoticed(v, m) \/ CallReturns(v, m)
       PROVE  FinderOK(u)'
  BY <1>2, <1>5, <1>11 DEF DiscoveryReturns, FinderNoticed, CallReturns
<1> QED  BY <1>4, <1>6, <1>7, <1>8, <1>9, <1>10, <1>11

LEMMA NextFinderOK ==
  ASSUME DInv, XInv', [Next]_vars, NEW u \in User \ Direct PROVE FinderOK(u)'
<1>1. CASE \E l \in Link : \E m : RegistryHandles(l, m)
  BY <1>1, RegistryFinderOK
<1>2. CASE \/ \E n, ps : CallUnknown(u, n, ps) \/ \E h : CallKnown(u, n, ps, h)
           \/ \E m : DiscoveryReturns(u, m) \/ FinderNoticed(u, m) \/ CallReturns(u, m)
  BY <1>2, CallsFinderOK, ReadsFinderOK, CallReturnsFinderOK
<1>3. CASE \/ UNCHANGED <<asked, toClient, calls>>
           \/ Announce
           \/ \E v \in User : SendCall(v)
           \/ \E t \in Member : \E key, op, msg : AskTopic(t, key, op, msg)
           \/ \E l \in Link : \E m : RouterHandles(l, m) \/ TopicHandles(l, m)
           \/ \E m : \/ RegistrarReturns(m)
                     \/ \E t \in Member : TopicReturns(t, m) \/ TopicPushed(t, m)
           \/ \E v \in User \ {u} :
                \/ \E n, ps : CallUnknown(v, n, ps) \/ \E h : CallKnown(v, n, ps, h)
                \/ \E m : DiscoveryReturns(v, m) \/ FinderNoticed(v, m) \/ CallReturns(v, m)
  BY <1>3, ElsewhereFinderOK
<1>4. UNCHANGED vars \/ (\E s \in Service : RegisterService(s)) => UNCHANGED <<asked, toClient, calls>>
  BY DEF vars, RegisterService, userVars
<1> QED  BY <1>1, <1>2, <1>3, <1>4 DEF Next

\* u has nothing new to read, and calls what it called or what is served.
LEMMA UserRest ==
  ASSUME DInv, [Next]_vars, NEW u \in User \ Direct,
         \A i \in DOMAIN toClient'[Caller(u)] : \E j \in DOMAIN toClient[Caller(u)] :
           toClient'[Caller(u)][i] = toClient[Caller(u)][j],
         \/ asked'[Caller(u)] = asked[Caller(u)] /\ calls'[u] = calls[u]
         \/ /\ asked'[Caller(u)] # None \/ (calls'[u] # None /\ calls'[u].host # None) =>
                 IsServed(calls'[u].method)
  PROVE  UserOK(u)'
<1>1. UserOK(u) /\ (\A n : IsServed(n) => IsServed(n)')
  BY ServedStays DEF DInv
<1>2. ASSUME NEW n, n = calls'[u].method, asked'[Caller(u)] # None \/ (calls'[u] # None /\ calls'[u].host # None)
      PROVE  IsServed(n)'
  BY <1>1, <1>2 DEF UserOK
<1>3. \A i \in DOMAIN toClient'[Caller(u)] : \A m \in Received(toClient'[Caller(u)][i]) :
        m.rcode # RCODE_NOT_FOUND_SERVICE
  BY <1>1 DEF UserOK
<1> QED  BY <1>2, <1>3 DEF UserOK, IsServed

\* A call of u's begins, or goes out.
LEMMA CallsUserOK ==
  ASSUME DInv, [Next]_vars, NEW u \in User \ Direct,
         \/ SendCall(u)
         \/ \E n, ps : CallUnknown(u, n, ps) \/ \E h : CallKnown(u, n, ps, h)
  PROVE  UserOK(u)'
<1>1. XInv /\ FoundOK /\ UserOK(u) /\ Caller(u) \in Link /\ Caller(u) # Finder(u)
  BY Links DEF DInv, RInv
<1>2. toClient' = toClient
  BY DEF SendCall, CallUnknown, CallKnown
<1>3. CASE SendCall(u)
  <2>1. calls' = calls /\ calls[u] # None /\ calls[u].host # None
    BY <1>3, NoneAssumption DEF SendCall, userVars
  <2> QED  BY <1>1, <1>2, <2>1, UserRest DEF UserOK
<1>4. ASSUME NEW n, NEW ps, CallUnknown(u, n, ps) PROVE UserOK(u)'
  <2>1. calls'[u].host = None /\ calls[u] = None
    BY <1>1, <1>4 DEF CallUnknown, XInv, CallTypeOK, Hostless
  <2>2. asked'[Caller(u)] = None
    BY <1>1, <1>4, <2>1, Links, ElsewhereSame DEF CallUnknown, XInv, CallsOK
  <2> QED  BY <1>2, <2>1, <2>2, UserRest
<1>5. ASSUME NEW n, NEW ps, NEW h, CallKnown(u, n, ps, h) PROVE UserOK(u)'
  <2>1. calls'[u].method = n /\ IsServed(n)
    BY <1>1, <1>5 DEF CallKnown, Knows, FoundOK, XInv, CallTypeOK
  <2> QED  BY <1>2, <2>1, UserRest
<1> QED  BY <1>3, <1>4, <1>5

LEMMA ReturnsUserOK ==
  ASSUME DInv, [Next]_vars, NEW u \in User \ Direct, NEW m, DiscoveryReturns(u, m) \/ CallReturns(u, m)
  PROVE  UserOK(u)'
<1>1. /\ XInv /\ UserOK(u) /\ Caller(u) # Finder(u) /\ Caller(u) \in Link /\ Finder(u) \in Link
      /\ Fine(Caller(u), toClient[Caller(u)])
  BY Links DEF DInv, RInv, XInv, TrafficOK
<1>2. CASE DiscoveryReturns(u, m)
  <2>1. AnswerType(Finder(u)[1]) = "RSP_SERVICE"
    BY Links, FrontTypes
  <2>2. asked[Finder(u)] # None
    BY <1>1, <1>2, <2>1, Gotten DEF DiscoveryReturns, XInv
  <2>3. asked[Caller(u)] = None /\ calls[u] # None
    BY <2>2 DEF XInv, CallsOK, DInv, RInv
  <2>4. asked'[Caller(u)] = None /\ toClient'[Caller(u)] = toClient[Caller(u)]
    BY <1>1, <1>2, <2>3, ElsewhereSame DEF DiscoveryReturns, XInv
  <2>5. CASE calls' = [calls EXCEPT ![u] = None]
    <3>1. calls'[u] = None
      BY <1>1, <2>5 DEF XInv, CallTypeOK
    <3> QED  BY <2>4, <3>1, UserRest
  <2>6. CASE m.hosts # <<>> /\ calls' = [calls EXCEPT ![u].host = Head(m.hosts)]
    <3>1. IsServed(m.method) /\ m.method = calls[u].method
      BY <1>1, <1>2, <2>6, ReadsNews DEF DiscoveryReturns
    <3>2. PICK H : calls[u] \in [method : Method, params : Params, host : H]
      BY <1>1, <2>3 DEF XInv, CallTypeOK
    <3>3. calls'[u] = [calls[u] EXCEPT !.host = Head(m.hosts)]
      BY <1>1, <2>6 DEF XInv, CallTypeOK
    <3>4. calls'[u].method = calls[u].method
      BY <3>2, <3>3
    <3> QED  BY <2>4, <3>1, <3>4, UserRest
  <2> QED  BY <1>2, <2>5, <2>6 DEF DiscoveryReturns, Ends
<1>3. CASE CallReturns(u, m)
  <2>1. calls'[u] = None
    BY <1>1, <1>3 DEF CallReturns, Ends, XInv, CallTypeOK
  <2>2. asked'[Caller(u)] = None
    BY <1>1, <1>3 DEF CallReturns, Answered, XInv, TrafficOK
  <2>3. toClient[Caller(u)] # <<>> /\ toClient'[Caller(u)] = Tail(toClient[Caller(u)])
    BY <1>1, <1>3 DEF CallReturns, Gets, XInv, TrafficOK
  <2>4. \A i \in DOMAIN toClient'[Caller(u)] : \E j \in DOMAIN toClient[Caller(u)] :
          toClient'[Caller(u)][i] = toClient[Caller(u)][j]
    BY <1>1, <2>3, FirstFrame
  <2> QED  BY <2>1, <2>2, <2>4, UserRest
<1> QED  BY <1>2, <1>3

\* The router answers u.
LEMMA RouterUserOK ==
  ASSUME DInv, [Next]_vars, NEW u \in User \ Direct, NEW m, RouterHandles(Caller(u), m)
  PROVE  UserOK(u)'
<1> DEFINE l == Caller(u)
<1> DEFINE a == OnRpcRequest(m)
<1>1. /\ RInv /\ XInv /\ UserOK(u) /\ CallOK(u) /\ l \in Link /\ ServicesOK
      /\ Fine(l, toClient[l]) /\ (\A n : IsServed(n) => IsServed(n)')
  BY Links, ServedStays DEF DInv, RInv, XInv, TrafficOK
<1>2. /\ UNCHANGED <<services, calls, asked>>
      /\ Takes(l, "REQ_RPC", m) /\ Reply(l, "RSP_RPC", a)
  BY DEF RouterHandles, userVars
<1>3. /\ asked[l] \in Requests(l[1]) /\ m \in Received(Asked(l)) /\ RequestType(l[1]) = "REQ_RPC"
      /\ Answers(l, toClient[l]) = {} /\ asked[l] # None
  BY <1>1, <1>2, Taken, NoneIsNoRequest DEF XInv
<1> DEFINE c == calls[u]
<1>4. /\ c.method \in Method /\ c.params \in Params
      /\ m \in Received(Envelope("REQ_RPC", RpcRequest(c.method, c.params)))
  BY <1>1, <1>3 DEF XInv, CallsOK, CallTypeOK, CallOK, Asked
<1>5. IsServed(c.method)
  BY <1>1, <1>3 DEF UserOK
<1> HIDE DEF c
<1>6. a \in Messages(RpcResponsePb)
  BY <1>1, <1>4, ServiceAnswers
<1>7. a.rcode # RCODE_NOT_FOUND_SERVICE
  <2>1. m.method = c.method
    BY <1>4, CallAsAsked, ExchangeAssumption
  <2> QED  BY <1>5, <2>1 DEF IsServed, OnRpcRequest, Called, RpcAnswer, RCODE_OK,
              RCODE_INVALID_PARAMS,
           RCODE_INVALID_RESULT, RCODE_NOT_FOUND_SERVICE
<1> HIDE DEF a
<1>8. toClient[l] = <<>>
  BY <1>1, <1>3, NothingToRead
<1>9. toClient'[l] = <<Envelope("RSP_RPC", a)>>
  <2>1. toClient'[l] = Append(<<>>, Envelope("RSP_RPC", a))
    BY <1>1, <1>2, <1>8 DEF Reply, XInv, TrafficOK
  <2> QED  BY <2>1
<1>10. \A got \in Received(Envelope("RSP_RPC", a)) : got.rcode # RCODE_NOT_FOUND_SERVICE
  BY <1>6, <1>7, RcodeArrives, RpcFields DEF Received, Envelope, Frame
<1>11. \A i \in DOMAIN toClient'[l] : \A got \in Received(toClient'[l][i]) :
         got.rcode # RCODE_NOT_FOUND_SERVICE
  BY <1>9, <1>10
<1>12. ASSUME NEW n, n = calls'[u].method PROVE IsServed(n)'
  BY <1>1, <1>2, <1>5, <1>12 DEF c
<1> QED  BY <1>11, <1>12 DEF UserOK, IsServed

LEMMA ElsewhereUserOK ==
  ASSUME DInv, [Next]_vars, NEW u \in User \ Direct,
         \/ UNCHANGED <<asked, toClient, calls>>
         \/ Announce
         \/ \E t \in Member : \E key, op, msg : AskTopic(t, key, op, msg)
         \/ \E l \in Link : \E m :
              (RouterHandles(l, m) /\ l # Caller(u)) \/ RegistryHandles(l, m) \/ TopicHandles(l, m)
         \/ \E m : \/ RegistrarReturns(m)
                   \/ FinderNoticed(u, m)
                   \/ \E t \in Member : TopicReturns(t, m) \/ TopicPushed(t, m)
         \/ \E v \in User \ {u} :
              \/ SendCall(v)
              \/ \E n, ps : CallUnknown(v, n, ps) \/ \E h : CallKnown(v, n, ps, h)
              \/ \E m : DiscoveryReturns(v, m) \/ FinderNoticed(v, m) \/ CallReturns(v, m)
  PROVE  UserOK(u)'
<1>1. XInv /\ TrafficOK /\ calls = [v \in User |-> calls[v]]
  BY DEF DInv, RInv, XInv, CallTypeOK
<1>2. /\ Caller(u) \in Link /\ Caller(u) # Registrar /\ Caller(u)[1] = "RpcClient"
      /\ \A x : Caller(u) # Finder(x) /\ Caller(u) # Topics(x)
      /\ \A v \in User \ {u} : Caller(u) # Caller(v)
  BY Links
<1>3. calls'[u] = calls[u]
  BY <1>1 DEF Announce, SendCall, AskTopic, RouterHandles, TopicHandles, RegistryHandles,
     RegistrarReturns,
        TopicReturns, TopicPushed, CallUnknown, CallKnown, DiscoveryReturns, FinderNoticed, CallReturns,
        Ends, userVars
<1>4. ASSUME asked'[Caller(u)] = asked[Caller(u)] /\ toClient'[Caller(u)] = toClient[Caller(u)]
      PROVE  UserOK(u)'
  BY <1>3, <1>4, UserRest
<1>5. ASSUME NEW l, l # Caller(u),
             \/ \E t, r : Send(l, t, r) /\ UNCHANGED toClient
             \/ \E t, m : Gets(l, t, m) /\ (UNCHANGED asked \/ Answered(l))
      PROVE  UserOK(u)'
  BY <1>1, <1>2, <1>4, <1>5, ElsewhereSame
<1>6. CASE Announce \/ \E v \in User \ {u} : SendCall(v)
  BY <1>2, <1>5, <1>6 DEF Announce, SendCall
<1>7. CASE \E t \in Member : \E key, op, msg : AskTopic(t, key, op, msg)
  BY <1>2, <1>5, <1>7 DEF AskTopic
<1>8. ASSUME NEW l \in Link, NEW m, (RouterHandles(l, m) /\ l # Caller(u)) \/ TopicHandles(l, m)
      PROVE  UserOK(u)'
  BY <1>1, <1>2, <1>4, <1>8, ServersElsewhere
<1>9. ASSUME NEW l \in Link, NEW m, RegistryHandles(l, m)
      PROVE  UserOK(u)'
  <2>1. asked' = asked /\ l # Caller(u)
    BY <1>1, <1>2, <1>9, Taken, FrontTypes DEF RegistryHandles, XInv
  <2>2. Caller(u) \notin Told(m.method) /\ toClient[Caller(u)] \o <<>> = toClient[Caller(u)]
    BY <1>1, <1>2, AddNothing DEF Told, XInv, TellsOK, TrafficOK
  <2>3. toClient'[Caller(u)] = toClient[Caller(u)]
    <3>1. CASE Registers(l, m)
      BY <1>2, <2>1, <2>2, <3>1 DEF Registers
    <3>2. CASE Discovers(l, m)
      <4>1. PICK a : Reply(l, "RSP_SERVICE", a)
        BY <3>2 DEF Discovers
      <4> QED  BY <1>1, <1>2, <2>1, <4>1 DEF Reply, TrafficOK
    <3> QED  BY <1>9, <3>1, <3>2 DEF RegistryHandles
  <2> QED  BY <1>4, <2>1, <2>3
<1>10. CASE \E m : \/ RegistrarReturns(m) \/ FinderNoticed(u, m)
                   \/ \E t \in Member : TopicReturns(t, m) \/ TopicPushed(t, m)
  BY <1>2, <1>5, <1>10 DEF RegistrarReturns, FinderNoticed, TopicReturns, TopicPushed
<1>11. ASSUME NEW v \in User \ {u}, NEW n, NEW ps, CallUnknown(v, n, ps) \/ \E h : CallKnown(v, n, ps, h)
       PROVE  UserOK(u)'
  BY <1>2, <1>4, <1>5, <1>11 DEF CallUnknown, CallKnown
<1>12. ASSUME NEW v \in User \ {u}, NEW m, DiscoveryReturns(v, m) \/ FinderNoticed(v, m) \/ CallReturns(v, m)
       PROVE  UserOK(u)'
  BY <1>2, <1>5, <1>12 DEF DiscoveryReturns, FinderNoticed, CallReturns
<1> QED  BY <1>4, <1>6, <1>7, <1>8, <1>9, <1>10, <1>11, <1>12

LEMMA NextUserOK ==
  ASSUME DInv, [Next]_vars, NEW u \in User \ Direct PROVE UserOK(u)'
<1>1. CASE \/ SendCall(u)
           \/ \E n, ps : CallUnknown(u, n, ps) \/ \E h : CallKnown(u, n, ps, h)
           \/ \E m : DiscoveryReturns(u, m) \/ CallReturns(u, m)
  BY <1>1, CallsUserOK, ReturnsUserOK
<1>2. CASE \E m : RouterHandles(Caller(u), m)
  BY <1>2, RouterUserOK
<1>3. CASE \/ UNCHANGED <<asked, toClient, calls>>
           \/ Announce
           \/ \E t \in Member : \E key, op, msg : AskTopic(t, key, op, msg)
           \/ \E l \in Link : \E m :
                (RouterHandles(l, m) /\ l # Caller(u)) \/ RegistryHandles(l, m) \/ TopicHandles(l, m)
           \/ \E m : \/ RegistrarReturns(m)
                     \/ FinderNoticed(u, m)
                     \/ \E t \in Member : TopicReturns(t, m) \/ TopicPushed(t, m)
           \/ \E v \in User \ {u} :
                \/ SendCall(v)
                \/ \E n, ps : CallUnknown(v, n, ps) \/ \E h : CallKnown(v, n, ps, h)
                \/ \E m : DiscoveryReturns(v, m) \/ FinderNoticed(v, m) \/ CallReturns(v, m)
  BY <1>3, ElsewhereUserOK
<1>4. UNCHANGED vars \/ (\E s \in Service : RegisterService(s)) => UNCHANGED <<asked, toClient, calls>>
  BY DEF vars, RegisterService, userVars
<1> QED  BY <1>1, <1>2, <1>3, <1>4 DEF Next

LEMMA InitDInv == Init => DInv
<1>1. SUFFICES ASSUME Init PROVE DInv
  OBVIOUS
<1>2. AnnounceOK /\ RegistryOK /\ FoundOK
  BY <1>1, Links DEF Init, AnnounceOK, RegistryOK, FoundOK
<1>3. ASSUME NEW u \in User \ Direct PROVE FinderOK(u) /\ UserOK(u)
  BY <1>1, Links DEF Init, FinderOK, UserOK
<1> QED  BY <1>1, <1>2, <1>3, InitRInv DEF DInv

LEMMA NextDInv == DInv /\ [Next]_vars => DInv'
<1>1. SUFFICES ASSUME DInv, [Next]_vars PROVE DInv'
  OBVIOUS
<1>2. RInv'
  BY <1>1, NextRInv DEF DInv
<1>3. XInv'
  BY <1>2 DEF RInv
<1> QED  BY <1>1, <1>2, <1>3, NextAnnounceOK, NextRegistryOK, NextFoundOK, NextFinderOK,
            NextUserOK DEF DInv

\* What a user has discovered is served, at the server's address unless a name
\* that is not UTF-8 is registered, and no user that goes by what it discovers is
\* answered that there is no such service (rpc_server.hpp:63-68).
THEOREM WhatIsDiscoveredIsServed == Spec => []DiscoveredIsServed
<1>1. DInv => DiscoveredIsServed
  BY DEF DInv, FoundOK, UserOK, IsServed, HostOK, DiscoveredIsServed
<1> QED  BY <1>1, InitDInv, NextDInv, PTL DEF Spec
=============================================================================
