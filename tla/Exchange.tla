------------------------------- MODULE Exchange -------------------------------
(***************************************************************************)
(* The fronts put together: the clients of client/rpc_client.hpp and the   *)
(* servers of server/rpc_server.hpp, and what the bodies of their messages *)
(* become on the way (Messages).  An RpcServer serves methods (RpcRouter)  *)
(* and announces them to the registry through its RegisterClient; an       *)
(* RpcClient finds them there and calls them; topic clients share a topic  *)
(* server.                                                                 *)
(*                                                                         *)
(* A dispatcher handles one message at a time and a handler ends with its  *)
(* answer, so handling a message is one step.  The two steps of            *)
(* RpcServer::registerService are two steps here.                          *)
(*                                                                         *)
(* Abstractions.  Connections stay up (Registry, TopicServer and Requestor *)
(* close them); one RpcServer; one request at a time from each client, so  *)
(* that ids are not needed to match answers (Requestor has many).  Which   *)
(* of several cached hosts is taken is in Discovery, and the connection to *)
(* it in ClientPool.                                                       *)
(***************************************************************************)
EXTENDS RpcRouter, SequencesExt

CONSTANTS
  User,          \* RpcClients
  Direct,        \* those of them made without discovery
  Member,        \* TopicClients
  Addr,          \* the RpcServer's address
  Method,        \* the methods that users call
  Params,        \* and what they pass to them
  Topic,         \* names of topics
  Payload,       \* what is published
  MaxRequests,   \* bound: requests made by the program's own calls
  None

ASSUME ExchangeAssumption ==
  /\ Direct \subseteq User
  /\ Addr \in Host /\ TextOK(Addr.ip)
  /\ Method \subseteq Text /\ Params \subseteq Struct
  /\ \A ps \in Params : IsFiniteSet(DOMAIN ps)
  /\ Topic \subseteq Text
  /\ Payload \subseteq String
  /\ MaxRequests \in Nat

\* The connections, by the front at their client's end and whose it is.
Registrar == <<"RegisterClient", Addr>>
Finder(u) == <<"DiscoverClient", u>>
Caller(u) == <<"RpcClient", u>>
Topics(t) == <<"TopicClient", t>>

Link == {Registrar} \cup {Finder(u) : u \in User \ Direct} \cup {Caller(u) : u \in User}
          \cup {Topics(t) : t \in Member}

VARIABLES
  announcing,   \* the service that registerService has yet to announce, or None
  providers,    \* the registry's _providers: links and the methods they provide
  addresses,    \* the address of a link's Provider, Absent if it has none
  discoverers,  \* the registry's _discoverers: links and the methods they asked for
  topics,       \* the topic server's _topics
  members,      \* links and the topics they subscribe to
  found,        \* the users' Discoverer::_hosts: user, method, host
  handlers,     \* the members' _publish_router: member, topic
  calls,        \* calls[u]: the call that user u has under way, or None
  outcome,      \* outcome[u]: what its last call came to, or None
  asked,        \* asked[l]: the request that l's client waits for the answer to
  toServer,     \* toServer[l]: frames under way to the server
  toClient,     \* toClient[l]: frames under way to the client
  handled,      \* handled[l]: what the server took that request for, or None
  made          \* requests made so far

registryVars == <<providers, addresses, discoverers>>
topicVars == <<topics, members>>
userVars == <<found, calls, outcome>>
vars == <<services, announcing, registryVars, topicVars, userVars, handlers,
          asked, toServer, toClient, handled, made>>

Frame(mtype, wire) == [mtype |-> mtype, wire |-> wire]

\* The schema of a message type (MessageFactory::create).
Schema(mtype) ==
  CASE mtype = "REQ_RPC"     -> RpcRequestPb
    [] mtype = "RSP_RPC"     -> RpcResponsePb
    [] mtype = "REQ_TOPIC"   -> TopicRequestPb
    [] mtype = "RSP_TOPIC"   -> TopicResponsePb
    [] mtype = "REQ_SERVICE" -> ServiceRequestPb
    [] mtype = "RSP_SERVICE" -> ServiceResponsePb

Envelope(mtype, m) == Frame(mtype, Serialize(Schema(mtype), m))

\* RpcProtocol::recieveAmessage, which ignores that parsing failed.
Received(frame) == Parse(Schema(frame.mtype), frame.wire)

\* The message types that the fronts register a handler for with their
\* dispatcher.
RegisterClientHandles == {"RSP_SERVICE"}
DiscoverClientHandles == {"RSP_SERVICE", "REQ_SERVICE"}
RpcClientHandles == {"RSP_RPC"}
TopicClientHandles == {"RSP_TOPIC", "REQ_TOPIC"}
RegisterServerHandles == {"REQ_SERVICE"}
RpcServerHandles == {"REQ_RPC"}
TopicServerHandles == {"REQ_TOPIC"}

\* What the two ends of a connection handle, by the front at its client's end.
ClientHandles(front) ==
  CASE front = "RegisterClient" -> RegisterClientHandles
    [] front = "DiscoverClient" -> DiscoverClientHandles
    [] front = "RpcClient"      -> RpcClientHandles
    [] front = "TopicClient"    -> TopicClientHandles

ServerHandles(front) ==
  CASE front \in {"RegisterClient", "DiscoverClient"} -> RegisterServerHandles
    [] front = "RpcClient"                            -> RpcServerHandles
    [] front = "TopicClient"                          -> TopicServerHandles

Init ==
  /\ services = <<>>
  /\ announcing = None
  /\ providers = {} /\ discoverers = {}
  /\ addresses = [l \in Link |-> Absent]
  /\ topics = {} /\ members = {}
  /\ found = {} /\ handlers = {}
  /\ calls = [u \in User |-> None]
  /\ outcome = [u \in User |-> None]
  /\ asked = [l \in Link |-> None]
  /\ toServer = [l \in Link |-> <<>>]
  /\ toClient = [l \in Link |-> <<>>]
  /\ handled = [l \in Link |-> None]
  /\ made = 0

-----------------------------------------------------------------------------
(* Requests.                                                               *)

\* Requestor::send: the request goes out and its sender waits.
Send(l, mtype, m) ==
  /\ asked' = [asked EXCEPT ![l] = m]
  /\ toServer' = [toServer EXCEPT ![l] = Append(@, Envelope(mtype, m))]
  /\ handled' = [handled EXCEPT ![l] = None]

ServiceRequest(method, op, host) == [method |-> method, optype |-> op, host |-> host]
TopicRequest(key, op, msg) == [topic_key |-> key, optype |-> op, topic_msg |-> msg]
RpcRequest(method, ps) == [method |-> method, parameters |-> ps]

\* A call that waits for a host.
Hostless(method, ps) == [method |-> method, params |-> ps, host |-> None]

ASSUME NoneAssumption ==
  /\ None # Addr
  /\ \A n \in Method, ps \in Params : None \notin {Hostless(n, ps), RpcRequest(n, ps)}
  /\ \A n \in Method : None # ServiceRequest(n, SERVICE_DISCOVERY, Absent)
  /\ \A s \in Service : None # ServiceRequest(s.name, SERVICE_REGISTRY, Addr)
  /\ \A key \in Topic, op \in TOPIC_CREATE..TOPIC_PUBLISH, msg \in Payload :
       None # TopicRequest(key, op, msg)

MayAsk == made < MaxRequests /\ made' = made + 1

\* Mutated RegisterService: the service is announced before it is inserted.
RegisterService_AnnouncesFirst(s) ==
  \/ /\ MayAsk
     /\ announcing = None /\ asked[Registrar] = None
     /\ announcing' = s
     /\ UNCHANGED <<services, registryVars, topicVars, userVars, handlers, asked,
                    toServer, toClient, handled>>
  \/ /\ asked[Registrar] # None /\ asked[Registrar].method = s.name
     /\ s.name \notin DOMAIN services
     /\ Insert(s)
     /\ UNCHANGED <<announcing, registryVars, topicVars, userVars, handlers, asked,
                    toServer, toClient, handled, made>>

\* registerService up to its call of the RegisterClient.
RegisterService(s) ==
  /\ MayAsk
  /\ announcing = None /\ asked[Registrar] = None
  /\ Insert(s)
  /\ announcing' = s
  /\ UNCHANGED <<registryVars, topicVars, userVars, handlers, asked, toServer,
                 toClient, handled>>

\* Provider::registerMethod.
Announce ==
  /\ announcing # None
  /\ announcing' = None
  /\ Send(Registrar, "REQ_SERVICE", ServiceRequest(announcing.name, SERVICE_REGISTRY, Addr))
  /\ UNCHANGED <<services, registryVars, topicVars, userVars, handlers, toClient, made>>

\* u's Discoverer has the host for the method.
Knows(u, method, h) == <<u, method, h>> \in found

\* RpcClient::call: a host is known, or there is no need to know it.
CallKnown(u, method, ps, h) ==
  /\ MayAsk
  /\ calls[u] = None
  /\ IF u \in Direct THEN h = Addr ELSE Knows(u, method, h)
  /\ calls' = [calls EXCEPT ![u] = [method |-> method, params |-> ps, host |-> h]]
  /\ outcome' = [outcome EXCEPT ![u] = None]
  /\ UNCHANGED <<services, announcing, registryVars, topicVars, found, handlers,
                 asked, toServer, toClient, handled>>

\* It has to be found first (Discoverer::serviceDiscover).
CallUnknown(u, method, ps) ==
  /\ MayAsk
  /\ calls[u] = None
  /\ u \notin Direct /\ \A f \in found : f[1] # u \/ f[2] # method
  /\ calls' = [calls EXCEPT ![u] = Hostless(method, ps)]
  /\ outcome' = [outcome EXCEPT ![u] = None]
  /\ Send(Finder(u), "REQ_SERVICE", ServiceRequest(method, SERVICE_DISCOVERY, Absent))
  /\ UNCHANGED <<services, announcing, registryVars, topicVars, found, handlers, toClient>>

\* RpcCaller::call, once there is a connection to the host; to any other
\* address than the server's there never is (ClientPool has what follows).
SendCall(u) ==
  /\ calls[u] # None /\ asked[Caller(u)] = None
  /\ calls[u].host = Addr
  /\ Send(Caller(u), "REQ_RPC", RpcRequest(calls[u].method, calls[u].params))
  /\ UNCHANGED <<services, announcing, registryVars, topicVars, userVars, handlers,
                 toClient, made>>

\* What the operations of a TopicClient do to its handlers before they ask.
HandlersAt(t, key, op) ==
  CASE op = TOPIC_SUBSCRIBE -> handlers \cup {<<t, key>>}
    [] op = TOPIC_CANCEL    -> handlers \ {<<t, key>>}
    [] OTHER                -> handlers

\* A TopicClient's operations; only a publication has a message.
AskTopic(t, key, op, msg) ==
  /\ MayAsk
  /\ asked[Topics(t)] = None
  /\ op # TOPIC_PUBLISH => msg = NoText
  /\ handlers' = HandlersAt(t, key, op)
  /\ Send(Topics(t), "REQ_TOPIC", TopicRequest(key, op, msg))
  /\ UNCHANGED <<services, announcing, registryVars, topicVars, userVars, toClient>>

-----------------------------------------------------------------------------
(* The servers.  A server takes the first frame of a connection, and sends *)
(* what it has to send to whichever connections.                           *)

\* m is what the server makes of the first frame from l.
Takes(l, mtype, m) ==
  /\ toServer[l] # <<>>
  /\ Head(toServer[l]).mtype = mtype
  /\ m \in Received(Head(toServer[l]))
  /\ toServer' = [toServer EXCEPT ![l] = Tail(@)]
  /\ handled' = [handled EXCEPT ![l] = m]

Reply(l, mtype, m) == toClient' = [toClient EXCEPT ![l] = Append(@, Envelope(mtype, m))]

RouterHandles(l, m) ==
  /\ Takes(l, "REQ_RPC", m)
  /\ Reply(l, "RSP_RPC", OnRpcRequest(m))
  /\ UNCHANGED <<services, announcing, registryVars, topicVars, userVars, handlers,
                 asked, made>>

ServiceAnswer(rcode, op, method, hosts) ==
  [rcode |-> rcode, optype |-> op, method |-> method, hosts |-> hosts]

\* Mutated Told: everybody with a connection to the registry is told.
Told_Everyone(method) == {l \in Link : l[1] \in {"RegisterClient", "DiscoverClient"}}

\* Who hears that a method has one more provider.
Told(method) == {l \in Link : <<l, method>> \in discoverers}

\* The registry registers a method: notices first, then the answer.
Registers(l, m) ==
  LET notice == Envelope("REQ_SERVICE", ServiceRequest(m.method, SERVICE_ONLINE, HostIn(m.host)))
      answer == Envelope("RSP_SERVICE", ServiceAnswer(RCODE_OK, SERVICE_REGISTRY, NoText, <<>>))
  IN /\ m.optype = SERVICE_REGISTRY
     /\ providers' = providers \cup {<<l, m.method>>}
     /\ addresses' = [addresses EXCEPT ![l] = IF @ = Absent THEN HostIn(m.host) ELSE @]
     /\ toClient' = [k \in Link |->
          toClient[k] \o (IF k \in Told(m.method) THEN <<notice>> ELSE <<>>)
                      \o (IF k = l THEN <<answer>> ELSE <<>>)]
     /\ UNCHANGED discoverers

\* It looks a method up, in whichever order its providers are.
Discovers(l, m) ==
  /\ m.optype = SERVICE_DISCOVERY
  /\ discoverers' = discoverers \cup {<<l, m.method>>}
  /\ \E list \in SetToSeqs({k \in Link : <<k, m.method>> \in providers}) :
       LET hosts == [i \in DOMAIN list |-> addresses[list[i]]]
           rcode == IF hosts = <<>> THEN RCODE_NOT_FOUND_SERVICE ELSE RCODE_OK
       IN Reply(l, "RSP_SERVICE", ServiceAnswer(rcode, SERVICE_DISCOVERY, m.method, hosts))
  /\ UNCHANGED <<providers, addresses>>

RegistryHandles(l, m) ==
  /\ Takes(l, "REQ_SERVICE", m)
  /\ Registers(l, m) \/ Discovers(l, m)
  /\ UNCHANGED <<services, announcing, topicVars, userVars, handlers, asked, made>>

\* What the topic server's operations do to its topics.
TopicsAfter(m) ==
  CASE m.optype = TOPIC_CREATE -> topics \cup {m.topic_key}
    [] m.optype = TOPIC_REMOVE -> topics \ {m.topic_key}
    [] OTHER                   -> topics

\* And to their subscribers; TopicServer has both sides of the relation.
MembersAfter(l, m) ==
  CASE m.optype = TOPIC_REMOVE -> {p \in members : p[2] # m.topic_key}
    [] m.optype = TOPIC_CANCEL -> members \ {<<l, m.topic_key>>}
    [] m.optype = TOPIC_SUBSCRIBE /\ m.topic_key \in topics ->
         members \cup {<<l, m.topic_key>>}
    [] OTHER                   -> members

TopicRcode(m) ==
  IF \/ m.optype \in {TOPIC_SUBSCRIBE, TOPIC_PUBLISH} /\ m.topic_key \notin topics
     \/ m.optype \notin TOPIC_CREATE..TOPIC_PUBLISH
    THEN RCODE_INVALID_OPTYPE ELSE RCODE_OK

TopicAnswer(rcode) == [rcode |-> rcode]

\* A publication goes as it was received to the subscribers, the answer after.
TopicHandles(l, m) ==
  LET answer == Envelope("RSP_TOPIC", TopicAnswer(TopicRcode(m)))
      pushed == {k \in Link : m.optype = TOPIC_PUBLISH /\ <<k, m.topic_key>> \in members}
  IN /\ Takes(l, "REQ_TOPIC", m)
     /\ topics' = TopicsAfter(m)
     /\ members' = MembersAfter(l, m)
     /\ toClient' = [k \in Link |->
          toClient[k] \o (IF k \in pushed THEN <<Envelope("REQ_TOPIC", m)>> ELSE <<>>)
                      \o (IF k = l THEN <<answer>> ELSE <<>>)]
     /\ UNCHANGED <<services, announcing, registryVars, userVars, handlers, asked, made>>

-----------------------------------------------------------------------------
(* The clients.                                                            *)

\* m is what the client makes of the first frame it has.
Gets(l, mtype, m) ==
  /\ toClient[l] # <<>>
  /\ Head(toClient[l]).mtype = mtype
  /\ m \in Received(Head(toClient[l]))
  /\ toClient' = [toClient EXCEPT ![l] = Tail(@)]

Answered(l) == asked' = [asked EXCEPT ![l] = None]

\* registerMethod returns; its result is ignored.
RegistrarReturns(m) ==
  /\ Gets(Registrar, "RSP_SERVICE", m)
  /\ Answered(Registrar)
  /\ UNCHANGED <<services, announcing, registryVars, topicVars, userVars, handlers,
                 toServer, handled, made>>

Ends(u, result) ==
  /\ calls' = [calls EXCEPT ![u] = None]
  /\ outcome' = [outcome EXCEPT ![u] =
       [method |-> calls[u].method, params |-> calls[u].params, result |-> result]]

\* serviceDiscover has its answer.  With hosts in it they replace the cached
\* ones of the method it names and the call goes on to the first, without it
\* fails.
DiscoveryReturns(u, m) ==
  /\ Gets(Finder(u), "RSP_SERVICE", m)
  /\ Answered(Finder(u))
  /\ IF m.rcode = RCODE_OK /\ m.hosts # <<>>
       THEN /\ found' = {f \in found : f[1] # u \/ f[2] # m.method}
                          \cup {<<u, m.method, h>> : h \in ToSet(m.hosts)}
            /\ calls' = [calls EXCEPT ![u].host = Head(m.hosts)]
            /\ UNCHANGED outcome
       ELSE Ends(u, Absent) /\ UNCHANGED found
  /\ UNCHANGED <<services, announcing, registryVars, topicVars, handlers, toServer,
                 handled, made>>

\* Discoverer::onServiceRequest; nothing goes offline here.
FinderNoticed(u, m) ==
  /\ Gets(Finder(u), "REQ_SERVICE", m)
  /\ found' = IF ServiceRequestCheck(m) /\ m.optype = SERVICE_ONLINE
                THEN found \cup {<<u, m.method, m.host>>} ELSE found
  /\ UNCHANGED <<services, announcing, registryVars, topicVars, calls, outcome, handlers,
                 asked, toServer, handled, made>>

\* The answer to a call: its result, or Absent unless its code is OK.
CallReturns(u, m) ==
  /\ Gets(Caller(u), "RSP_RPC", m)
  /\ Answered(Caller(u))
  /\ Ends(u, IF m.rcode = RCODE_OK THEN StructIn(m.result) ELSE Absent)
  /\ UNCHANGED <<services, announcing, registryVars, topicVars, found, handlers,
                 toServer, handled, made>>

\* An operation on a topic returns; a subscription that failed takes its
\* handler back.
TopicReturns(t, m) ==
  LET req == asked[Topics(t)]
  IN /\ Gets(Topics(t), "RSP_TOPIC", m)
     /\ Answered(Topics(t))
     /\ handlers' = IF req.optype = TOPIC_SUBSCRIBE /\ m.rcode # RCODE_OK
                      THEN handlers \ {<<t, req.topic_key>>} ELSE handlers
     /\ UNCHANGED <<services, announcing, registryVars, topicVars, userVars, toServer,
                    handled, made>>

\* onPublish: what the handler does with the message is the application's.
TopicPushed(t, m) ==
  /\ Gets(Topics(t), "REQ_TOPIC", m)
  /\ UNCHANGED <<services, announcing, registryVars, topicVars, userVars, handlers, asked,
                 toServer, handled, made>>

Next ==
  \/ \E s \in Service : RegisterService(s)
  \/ Announce
  \/ \E u \in User, n \in Method, ps \in Params :
       CallUnknown(u, n, ps) \/ \E h \in {Addr, NoHost} : CallKnown(u, n, ps, h)
  \/ \E u \in User : SendCall(u)
  \/ \E t \in Member, key \in Topic, op \in TOPIC_CREATE..TOPIC_PUBLISH, msg \in Payload :
       AskTopic(t, key, op, msg)
  \/ \E l \in Link : toServer[l] # <<>> /\ \E m \in Received(Head(toServer[l])) :
       RouterHandles(l, m) \/ RegistryHandles(l, m) \/ TopicHandles(l, m)
  \/ \E l \in Link : toClient[l] # <<>> /\ \E m \in Received(Head(toClient[l])) :
       \/ l = Registrar /\ RegistrarReturns(m)
       \/ \E u \in User :
            \/ l = Finder(u) /\ (DiscoveryReturns(u, m) \/ FinderNoticed(u, m))
            \/ l = Caller(u) /\ CallReturns(u, m)
       \/ \E t \in Member : l = Topics(t) /\ (TopicReturns(t, m) \/ TopicPushed(t, m))

Spec == Init /\ [][Next]_vars

-----------------------------------------------------------------------------
\* A server does what it was asked, unless the name in the request is not
\* UTF-8: then it has lost what came after the name, and whatever it was
\* asked it registers the method without an address, or creates the topic.
\* What is published may be any bytes, since nothing comes after it
\* (network.hpp:98, message.pb.cc:1185-1230, :1667-1712).
HandledAsAsked ==
  \A l \in Link : asked[l] # None /\ handled[l] # None =>
    LET req == asked[l]
        got == handled[l]
    IN CASE l[1] = "TopicClient" ->
              /\ got.topic_key = req.topic_key
              /\ IF TextOK(req.topic_key) THEN got = req
                 ELSE got.optype = TOPIC_CREATE /\ got.topic_msg = NoText
         [] l[1] \in {"RegisterClient", "DiscoverClient"} ->
              /\ got.method = req.method
              /\ IF TextOK(req.method) THEN got = req
                 ELSE got.optype = SERVICE_REGISTRY /\ got.host = Absent
         [] OTHER -> got.method = req.method

\* The parameters that a service may have been run with for a call: those of
\* the call that it declares, of the types it declares.
RunWith(s, c) ==
  LET ps == [p \in DOMAIN s.parameters \cap DOMAIN c.params |-> c.params[p]]
  IN /\ DOMAIN ps = DOMAIN s.parameters
     /\ \A p \in DOMAIN ps : CheckValueType(s.parameters[p], ps[p])
     /\ IF TextOK(c.method) THEN GoodKeys(c.params) = DOMAIN c.params => ps = c.params
        ELSE ps = NoStruct

\* A call that succeeds has run the service of its method, on the parameters
\* it passed, and has its result.  Only what is not UTF-8 is lost on the way,
\* and the call does not fail for it: a parameter that the service does not
\* declare, or part of the result (rpc_router.hpp:171-191, rpc_caller.hpp:14-44).
ResultIsServices ==
  \A u \in User : outcome[u] # None /\ outcome[u].result # Absent =>
    LET c == outcome[u]
    IN /\ c.method \in DOMAIN services
       /\ LET s == services[c.method]
              r == Result(s, [p \in DOMAIN s.parameters |-> c.params[p]])
          IN /\ RunWith(s, c)
             /\ r # Throws
             /\ IF GoodKeys(r) = DOMAIN r THEN c.result = r
                ELSE c.result \in LeftOf("struct", r)

\* What a user has discovered is served: the service is in place before the
\* registry hears of it, so that no call of it is answered that there is no such
\* service; and the host is the server's unless the server has registered a name
\* that is not UTF-8, which can leave its Provider without an address
\* (rpc_server.hpp:63-68, client/service_manager.hpp:96-155).
DiscoveredIsServed ==
  /\ \A f \in found :
       /\ f[2] \in DOMAIN services
       /\ f[3] = Addr \/ (f[3] = NoHost /\ DOMAIN services \ Utf8 # {})
  /\ \A u \in User \ Direct : \A i \in DOMAIN toClient[Caller(u)] :
       \A m \in Received(toClient[Caller(u)][i]) : m.rcode # RCODE_NOT_FOUND_SERVICE

\* No dispatcher gets a message that it has no handler for, for which it would
\* close the connection: whom the registry and the topic server write to on
\* their own account fits what the clients' fronts have registered
\* (dispatcher.hpp:41-49, rpc_client.hpp:16-28, :52-71, :95-116, :225-246).
TypesHandled ==
  \A l \in Link :
    /\ \A i \in DOMAIN toServer[l] : toServer[l][i].mtype \in ServerHandles(l[1])
    /\ \A i \in DOMAIN toClient[l] : toClient[l][i].mtype \in ClientHandles(l[1])
=============================================================================
