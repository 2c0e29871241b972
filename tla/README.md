# Quick-Rpc: a verification project

Quick-Rpc is an RPC library in C++ headers over the muduo network library
(`src/source/{network,client,server}`): synchronous, future and callback calls,
a registry through which servers are found, and publish/subscribe topics. This
directory models the parts of it in which threads, connections and messages
meet, checks the models with TLC and proves their main theorems with TLAPS.

Paths below are relative to `src/source/`.

## The system

### Components, their state and their operations

| Component | State | Operations | What makes it correct |
|---|---|---|---|
| **Requestor** `client/requestor.hpp` | `_requests_desc`: id → descriptor (promise or callback), one lock | three `send`s, `onResponse`, `notifyDisconnect` | every call ends once; only served calls complete; the table holds exactly the requests somebody can still settle; `send` always returns |
| **Dispatcher** `network/dispatcher.hpp` | handlers by message type, one lock held over each handler | `registerHandler`, `messageCallBack` | the lock is always given back |
| **RpcCaller** `client/rpc_caller.hpp` | none; the user's promise lives in a callback | three `call`s, `CallOnAsync`, `CallOnMessage` | what the user is told is final and true; no future is forgotten |
| **Registry** `server/service_manager.hpp` | providers and discoverers, each indexed by connection and by method | `onServiceRequest`, `onShutDown` | the indexes agree; whoever asked for a method learns of every change, in order |
| **Discoverer, MethodHosts** `client/service_manager.hpp` | a list of hosts and a round-robin index per method | `serviceDiscover`, `onServiceRequest` | the cached hosts are those of the registry; a chosen host is one of them |
| **RpcClient** `client/rpc_client.hpp` | a pool of clients by host, one Requestor and one Dispatcher for all | `call`s, `getAvailableClient`, `removeRpcClient` | one live client per host; a removed host is not used again; no thread waits for ever |
| **Connections** `network/network.hpp` | the server's `_connections`, the client's `_conn` and latch | connection and message callbacks | a handler gets the connection its message came on; closed connections leave no trace |
| **Framing** `network/network.hpp` | the input buffer | `canProceed`, `recieveAmessage`, `serialize` | the messages sent are the messages handled, however TCP cuts them |
| **Topics, server** `server/rpc_topic.hpp` | topics and subscribers, each pointing at the other | create, remove, subscribe, cancel, publish, `onShutDown` | no one-sided link; a message goes to exactly the subscribers |
| **Topics, client** `client/topic.hpp` | a handler per topic | subscribe, cancel, `onPublish` | no message for a subscribed topic is without its handler |
| **RpcRouter** `server/rpc_router.hpp` | services by name | `insert`, `onRpcRequest` | a service runs only on parameters it declares; one answer per request, with the right result code |
| **Messages** `network/pb_message.hpp`, `network/pb/` | none | `serialize`, `deserialize`, the accessors, `MessageFactory::create` | a message means to its receiver what it meant to its sender |
| **Fronts** `server/rpc_server.hpp`, `client/rpc_client.hpp` | the objects above, wired together | constructors, `registerService`, `start` | every message finds a handler; what is announced is served |

### How they interact

A client has one IO thread per connection; the application calls from its own
threads. `RpcClient` shares one Requestor and one Dispatcher among all the
connections of its pool, so two IO threads can handle answers for the same
table, one at a time because of `Dispatcher::_lock`. User callbacks run on an IO
thread with that lock held. The connection to the registry has a Requestor and
a Dispatcher of its own; its IO thread completes discoveries (by a promise) and
applies the registry's notices to the cache (at once), while the discovering
thread stores its result when it is scheduled. A server has one event loop and
no further threads (`setThreadNum` is never called), so its handlers do not
interleave.

The hard behaviours are these: an answer, a timeout and a lost connection all
settling one request; a callback that makes a call; a notice overtaking an
answer on the client; two threads storing answers; a connection that closes
between a check and a use; locks held while joining a thread; a message that is
handled although it could not be parsed.
`PROJECT.json` lists them line by line under `hazards`.

## Modules

| Module | What it models |
|---|---|
| `AtMostOnceCall` | the abstract specification: each call is idle, open, completed or failed; it leaves *open* once, and completes only if served |
| `Requestor` | the request table, the dispatcher lock and the connections; composes the sending threads, the IO threads and the server |
| `RpcCaller` | extends `Requestor` with result codes and the user's futures and callbacks |
| `Registry` | the server's `ServiceManager` with its outgoing messages |
| `Discovery` | extends `Registry` with one client: its cache, its threads and its IO thread |
| `PubSub` | the abstract topic server: one relation of members, every message to exactly the members, one answer per request |
| `TopicServer` | the server's `TopicManager` with its outgoing messages |
| `Topics` | extends `TopicServer` with one client: its threads, its table of handlers and its IO thread |
| `Connection` | one connection at both its ends: the connection callbacks, the receive loop and `RpcProtocol` |
| `ClientPool` | `RpcClient`'s pool beside the discovery and the notices that fill and empty it, and the life of the `MuduoClient` objects |
| `Messages` | the six message bodies: fields, defaults, and what serializing and parsing makes of each |
| `RpcRouter` | extends `Messages` with the services of an `RpcServer` and the call of one |
| `Exchange` | extends `RpcRouter` with the fronts of clients and servers, which exchange real bodies |
| `MC*` | instances for TLC |
| `FoldProofs` | lemmas about sequences, folds and induction over the numbers |
| `RequestorProofs` (with `RpcCaller`), `DiscoveryProofs` (with `Registry`), `TopicProofs`, `ConnectionProofs`, `ClientPoolProofs`, `MessagesProofs`, `ExchangeProofs` | theorems |

Operators named `X_Something` beside an operator `X`, with a comment that starts
"Mutated", are plausible mistakes in `X`. They are used nowhere in the
specifications. Putting one in the place of its original makes a named property
fail, which shows that the property depends on the code.

### Requestor

| Model | Code |
|---|---|
| `pc[r]`, `via[r]` | the thread sending `r` and the connection it uses |
| `table`, `promise[r]`, `calls[r]` | the keys of `_requests_desc`, the state of `_response`, the runs of `_call_back` |
| `requests`, `responses`, `served` | messages under way, and the server's side |
| `up` | connections the client has not seen closed |
| `ioAt`, `ioReq` | the handler that holds `Dispatcher::_lock`: it has *found* the request, is *running* its callback, or is *finishing*, before `removeDesc` |
| `nested` | the request that the running callback is sending |
| `crashed` | an exception has left an IO thread |

`Call`, `InsertDesc`, `Send`, `GetFuture`, then `Wake` or `Expire` and
`RemoveExpired` are the steps of `send`; each is one critical section or one
call into muduo. `OnResponse`, `SetValue` or `RunCallback`/`ReturnCallback`, and
`RemoveAnswered` are those of `onResponse`. `Close` is the close callback of a
connection, on that connection's IO thread, hence never during a handler of its
own. `NotifyOnClose` says whether it calls `notifyDisconnect`: in this
repository nobody does (FALSE); TRUE is what `maintain.md:77` asks of the upper
layer. A request with an id that is already in the table does not occur: ids
are taken to be unique (`Uuid::uuid`). Order of messages and bodies are left
out, since the table depends on neither.

### RpcCaller

`RpcCaller` sends synchronous calls with a promise and both other kinds with a
callback, so `FutureReq` is empty here and `CallbackReq` is the union of calls
with a future and calls with a callback. `rcode` is the result code. `Future(r)`
is the state of a user's future: it has a value once `CallOnAsync` saw
`RCODE_OK`, and is broken once nobody refers to the callback that owns its
promise. Only `CallOnMessage` with `RCODE_OK` runs user code, so only there can
a nested call start.

`notifyDisconnect` would not help these futures: it erases the entries of
requests with a callback without running it, so a future of `RpcCaller` would
break rather than carry an exception.

### Registry

`OnRegister`, `OnDiscover` and `OnShutDown` are whole handlers; the messages
they send are appended to `outbox[c]`, which `Deliver` takes from the front. A
`Provider` object is its connection, since there is one per connection. The
order in which `getHosts` lists providers is that of their addresses, hence
any. Everything on its way to a closed connection is lost.

### Discovery

`Choose` and `Ask` are the first critical section of `serviceDiscover`, `Store`
the second; `ReceiveAnswer`, `ReceiveOnline` and `ReceiveOffline` are the IO
thread taking the head of `outbox[Client]`. A vector read beyond its end yields
any host or `Garbage`. A provider is an `RpcServer`: it registers with the one
address it has, any method as often as it likes (`HandleRegistration`).

`late`, `basis` and `mixed` are history variables, read by no action's guard.
`late[t]` says that a notice about its method was handled since `t`'s answer came
in. `basis[m]` says where the cached list of `m` comes from: an *answer* (and the
notices after it); *nothing* but notices, as after a discovery that timed out; or
an answer that was *overtaken*, stored after a notice it does not know of.

Registering twice makes the two kinds of message disagree: an answer lists a host
once for each connection that provides the method, while online and offline
notices come once for each registration. What is *right* is therefore a range
(`Right`): a host is in a right list at least once for each such connection
(`Provided`) and at most once for each registration (`Announced`). `mixed` marks
where not even that much holds: when connections share an address and one of them
registered the method more than once, its farewell, one notice for each
registration, may take the others' entry out of a list that had it once for each.

### TopicServer and Topics

| Model | Code |
|---|---|
| `topics`, `subscribers[t]` | the keys of `_topics`, `Topic::subscribers` |
| `subscribed[c]` | `Subscriber::topics`; a Subscriber without topics is the same as none |
| `outbox[c]`, `requests` | messages under way to the client behind `c`, and from the client |
| `router` | the keys of `_publish_router` |
| `pc[th]`, `call[th]`, `reply[th]` | a thread inside one of the five calls of `TopicManager` |

A request is handled in one step with its answer, and a publication is pushed
before it is answered. `CreateTopic` to `PublishMsg` are the functions of the
same names. In the client, *inserting*, *erasing* and *dropping* are the three
critical sections on `_publish_router`, and *sending* and *waiting* are
`Requestor::send`; a late answer is dropped as in `Requestor`. `onPublish` looks
the handler up without the lock. That is a data race while a thread is inside a
critical section (`Writing`), and its outcome undefined; no property speaks of such
a lookup.

Four history variables are read only by properties. `belief[t]` is what the
client has been told of its membership by a *calm* call, one that no other
subscription or cancellation of `t` overlapped. `cancelled` and `dropped` hold
the topics that the client began to cancel and that somebody removed. `spoilt`
holds those whose handler the client may have forgotten: since a calm call at the
topic last succeeded, a cancellation began, a subscription timed out, or one
failed that was not calm. The last is a hazard of the code: two threads that
subscribe to one topic share one entry of `_publish_router`, and if the server
refuses the first and subscribes the second, the first erases the handler of
both, although no call timed out (`DropHandler`).

`TopicServer` implements `PubSub`: the abstract members are the pairs that the
*subscribers* list, while the code sends to those that the *topic* lists.

### Connection

| Model | Code |
|---|---|
| `state[e]`, `eof[e]`, `wire[e]` | muduo's connection at end `e`, and the bytes on their way there |
| `known[e]` | `_conn` of the client; an entry of the server's `_connections` |
| `latch` | `_cdl` |
| `buffer[e]`, `reading[e]` | muduo's input buffer, and whether `MessageCallBack` is in its loop |
| `sent`, `handled`, `refused`, `broken` | history, and who shut down for a long buffer |

Messages are sequences of bytes, with integers of `IntLen` bytes to the base
`Base`: `Serialize`, `CanProceed` and `RecieveAmessage` are the three functions
of `RpcProtocol`. `Arrive` appends any part of what is on its way and enters the
loop; `HandleMessage`, `Refuse` and `Stop` are one turn of it. The loops of the
server and the client are the same but for the look-up of the connection, which
never fails. `shutdown` closes one direction only, so an end reads on after it;
`OnDisconnected` comes when it has read everything, and loses what muduo has not
written yet. `UseNull` is an application that finds `_conn` null.

### ClientPool

| Model | Code |
|---|---|
| `provider[h]`, `notices`, `asked` | the registry and its messages under way to this client |
| `known`, `cached` | `Discoverer::_hosts` for the one method |
| `pool[h]` | `RpcClient::_rpc_clients` |
| `host[c]`, `conn[c]`, `io[c]` | a `MuduoClient`, its connection, what its IO thread does |
| `pc[a]`, `want[a]`, `local[a]` | an actor inside `RpcClient::call`, the host it was given, its `ClientBase::ptr` |
| `joins` | the client whose IO thread the registry's IO thread joins |
| `overtaken[a]`, `late` | history: hosts that went since `a` was given them; hosts whose client was pooled behind the notice |

An actor is an application thread or the IO thread of a client that runs a
user's callback. `Choose`, or `Ask` and `Store` or `Fail`, are `serviceDiscover`;
`Get`, `New`, `Insert` in `Put` are `getRpcClient`, `newRpcClient`, which waits in
`connect()` until `Latched`, and `putRpcClient`; `Use` and `Release` are the call
and the end of the last pointer. A client without a holder is destroyed by
whoever let go of it: the destructor waits for the client's IO thread (`Joined`,
`RegistryJoined`). `OnOffline` is the notice with `removeRpcClient` under both
mutexes, which stay held while it joins (`MutexesFree`). A discovery that has
timed out leaves an answer that nobody takes (`Fail`).

Two endings of the process are actions: `UseNull`, a call made on a client whose
`_conn` was reset (`rpc_client.hpp:136`), and `JoinSelf`, a callback's IO thread
that lets go of the last pointer to its own client and so runs a destructor that
joins the thread it runs on.

### Messages

A message is a record, its type a *schema*: the fields in the order of their
numbers. `Serialize` keeps the fields that differ from their default;
`Parse` is the set of messages that may be left behind. Generated protobuf code
checks every string for UTF-8: the serializer logs and goes on, the parser
stores the string and then stops. `RpcProtocol::recieveAmessage`
(`network.hpp:98`) ignores that `deserialize` failed, so what the parser left
behind is handled like any message. Of text the model tells apart only
emptiness and being UTF-8. In a `Struct` the entry that fails is taken out, and
the entries before it are those a hash table happens to give first.

### RpcRouter and Exchange

`Build` is `ServiceDescBuilder`, `Insert` is `RpcServiceManager::insert`,
`OnRpcRequest` decides on the answer: the service looked up, its parameters
counted and checked against the types it declares, the service called. The type
it is said to return is never checked.

In `Exchange` a connection is the front at its client's end with its owner
(`Registrar`, `Finder(u)`, `Caller(u)`, `Topics(t)`), and carries frames of a
message type and a serialized body. `RegisterService` and `Announce` are the two
steps of `registerService`; `CallKnown` and `CallUnknown` start a call,
`SendCall` goes on once it has a host. `RouterHandles`, `RegistryHandles` and
`TopicHandles` are the servers' handlers on what `Received` makes of a frame,
with their answers and notices; `RegistrarReturns`, `DiscoveryReturns`,
`FinderNoticed`, `CallReturns`, `TopicReturns` and `TopicPushed` those of the
clients. A `Direct` user is an `RpcClient` made without discovery.

What the model brought to light and its properties state:

- a discovery of a name that is not UTF-8 reaches the registry as a
  *registration* of that name without an address, because `SERVICE_REGISTRY` is
  0 and the fields after the name are lost; likewise any operation on such a
  topic becomes the *creation* of the topic, and is answered `RCODE_OK`;
- an `RpcServer` whose first registered name is such a name keeps a `Provider`
  at `("", 0)`, which all its later methods are found at;
- a surplus parameter whose name is not UTF-8 is dropped and the call succeeds;
- the second registration of a name leaves the first description in place, and
  is announced again.

None of this contradicts a line of the repository, which does not speak of
encodings, so the properties describe it: `HandledAsAsked`, `ResultIsServices`
and `DiscoveredIsServed` say exactly what a receiver may rely on.

## Runs

Reachable states are counted on the bounds of the `.cfg` files.

| Run | Result | What it shows |
|---|---|---|
| `requestor` | pass, 46 k | one request of each kind over two connections: `TypeOK`, `AwaitedIsRegistered`, `SettledLeavesTable`, `NestedSyncFails`, the refinement `CallsSpec`, and with fair threads `SendReturns`, `LockReleased`, `AnswersDelivered` |
| `requestor_notify` | pass, 144 k | the same with `notifyDisconnect` called: the refinement, `DisconnectSettlesPending`, and `OnlyOtherLossCrashes`: only the loss of another connection can satisfy a promise while an answer to it is being handled, as it does in some executions of this run (`SetValueThrows`) |
| `requestor_disconnect` | **violation** | without it, a future pending on a lost connection is never settled |
| `caller` | pass, 103 k | `UserCallsSpec`: what the user sees refines `AtMostOnceCall`; `AnsweredFutureResolves` |
| `discovery` | pass, 673 k | `IndexesAgree`; `AnswersReplay`: an answer with the notices behind it leads to a right list; `CacheFollowsRegistry`: so does the cache if it goes back to an answer, and if to notices alone it has no host that left |
| `discovery_stale` | **violation** | an answer stored late brings a dead host back for good |
| `discovery_index` | **violation** | the index outlives the list it was made for |
| `topics` | pass, 626 k | `LinksAgree`, the refinement `PubSubSpec`, `BeliefTrue`; `HandlerUnlessSpoilt`: a message without a handler is the client's own doing |
| `topics_handler` | **violation** | a subscription that timed out leaves the client subscribed without a handler |
| `connection` | pass, 131 k | `HandledAsSent`, `ShortNeverRefused`, `NullOnlyAfterClose`, and with fair threads `EventuallyHandled`, `ClosedAtBothEnds` |
| `pool` | pass, 303 k | `AliveIffHeld`: a client lives exactly as long as it is held; `PoolFollowsNotices`: a dead one is on its way out of the pool or was put in late; with fair threads `RemovalEnds` and `CallReturns`, up to the blocking cycles they name |
| `exchange` | pass, 1.63 M | `HandledAsAsked`, `ResultIsServices`, `DiscoveredIsServed`, `TypesHandled` |

Four runs end in a violation on purpose: each is a place where the code does not
do what one of its comments or `maintain.md` says. `PROJECT.json` quotes the
line under `findings`.

**Bounds.** Requests: two threads are enough to race, and a third request (the
callback) is what makes a nested call; every kind is there. Two connections are
the least that lets one IO thread act while another is inside a handler.
Discovery: two threads with one discovery each let one store overtake
another, also when both ask for one method; two methods and two registrations for
each of two providers, with one address or two, are enough to register a method
twice, to register two, and to share an address. `MaxOutbox` is out of reach. In
`discovery_stale` and `discovery_index` two discoveries of one method per thread
are enough. Topics: two threads with one call
each over two topics is every pair of calls, at once or one after the other; the
peer does any number of anything, and with two messages under way a push and an
answer can meet. The registry with hosts that change between the registrations of
one connection is left to its theorem. Connection: bytes of four values and integers of two bytes,
so a cut can fall inside an integer; one message of exactly the limit and one
beyond it, and three sends, so several messages can stand in one buffer and both
directions be in use. Pool: one host, two threads and two clients are enough for
two threads to connect to one host at once, for a client to be replaced while it
is held and for a callback to call; a thread can let go of a client that a
notice has removed. One message from the registry under way at a time still
comes before or after every step of a call. Exchange: one user with discovery
and one without, one topic client, four requests: a registration, a discovery,
a call and one more. The text that is not UTF-8 occurs as a method, a
parameter's name, a topic and a payload, and inside a value. Deadlock is not
checked: in every run the system may really stop, because the requests or the
connections are used up, because nobody has to call, or (`pool`) because the
process has ended.

**Fairness.** `FairSpec` assumes that a thread inside `send` and an IO thread
with a handler running or an answer to read take their next step eventually.
This is the operating system's scheduling, and `wait_for` returning in time.
In `Connection` it assumes the same of the threads at both ends, and that what
the network does not lose arrives; that a connection is ever made, or that the
application sends or shuts down, is not assumed. Elsewhere nothing is assumed of
the server, of the connections or of the application: a request may stay
unserved, a connection may close or not.

In `ClientPool` it also assumes that the connection to a host that listens comes
up (muduo's Connector tries again) and that an IO thread waiting for
`Dispatcher::_lock` is not starved (strong fairness for `RunCallback`, as the
lock is given back again and again). Two cycles are real and are exempted by
name. A callback that makes a call holds the dispatcher's lock and waits for the
mutexes of the registry's IO thread, which holds them while it joins the
callback's thread (`client/service_manager.hpp:145`): `RemovalEnds` and
`CallReturns` speak of executions in which callbacks stop making calls. And
`connect()` waits for a host that does not listen for as long as it does not
(`rpc_client.hpp:182`): `CallReturns` allows a call to be there.

## Proofs

`RequestorProofs` holds for any sets of requests and connections, and for both
values of `NotifyOnClose` except where said.

- `IInv` is the inductive invariant. The checked invariants are not inductive
  alone. `SettledLeavesTable` needs that a request not yet inserted has left no
  trace (`Fresh`), or `InsertDesc` could insert a settled one; it and
  `AwaitedIsRegistered` need that a handler past its middle has settled its
  request (`HandlerSettles`), or `RemoveAnswered` could strand a waiter.
  `NestedSyncFails` needs `NestedUnanswered`, and the refinement `ServedFirst`
  and `Kinds`. `NextIInv` has a step per action.
- `TypeCorrect`, `WaiterIsRegistered`, `TableCorrect` and `NestedCallFails` follow
  from it.
- `OnlyOtherLoss` (`OnlyOtherLossCrashes`) says what it takes to satisfy a promise
  twice: `notifyDisconnect`, for the loss of a connection other than the answer's,
  between find and set_value. Its invariant `InHand` says so of every promise that
  is found satisfied by the time the handler gets to it; it needs
  `SettledLeavesTable`, by which the handler finds unsettled requests only, and
  `Fresh`, by which the entry does not come back. `NoDoubleSet` follows: no promise
  is satisfied twice if `notifyDisconnect` is not called or there is one connection
  (`SingleConn`). It cannot be dropped: `requestor_notify` reaches `SetValueThrows`, the
  exception of `set_value` on the IO thread.
- `CallsRefined` is the refinement of `AtMostOnceCall`: each action is described
  by the calls whose status it changes (`StatusKept`, `StatusChanged`).

Of `RpcCaller` it proves `UserCallsRefined`: what a user sees of a call
refines `AtMostOnceCall`, for any calls, connections and result codes and with or
without `notifyDisconnect`. Every step of `RpcCaller` is a step of `Requestor`, so
`IInv` holds. `CInv` adds that a request is served once (`ServedOnce`), without
which a second answer could change the code of a call after the user saw it, and
that a call whose `send` returned was served (`ReturnedServed`).

`DiscoveryProofs` proves `IndexesAlwaysAgree` of the registry for any number of
connections, methods, hosts and registrations, repeated ones included, and of the
registry with the client, for any threads and calls besides,
`IndexesAgreeWithClient`, `DiscoveryTypes`, `AnswersLeadToRegistry`
(`AnswersReplay`) and `CacheLeadsToRegistry` (`CacheFollowsRegistry`). Its
invariant is `DInv == Base /\ Req /\ Hand`:

- `Base`: the agreement of the indexes, the types, that only finitely many
  registrations are there to be counted, and that `mixed` has every method and
  host that several connections provide, one of them more than once.
- `Hand`: every list the client may come to use leads to one that is right by the
  registry once the messages behind it are applied. `Answering` says it of the
  answers under way, `Holding` of the answers that threads hold and no notice has
  overtaken and of the cached lists with basis `"answer"`: they lead into `Target`,
  the counts from `Least` to `Announced`. A cached list with basis `"nothing"`
  leads into `Ceiling`, the counts up to `Announced`. The two properties say this
  of the answers under way and of the cache; without the threads in between,
  neither step from the one to the other could be proved. The methods are among
  those that the client is a discoverer of (`Asked`), or it would not be told of
  the next change; of the others it has no host.
- `Req`: a request under way is *due* (`Due`): if the thread with its number still
  waits, it waits for this method. The number alone identifies an answer.

A list is counted host by host (`Times`), and `Tracks` says that its counts, after
the messages, are among the right ones. A message changes the counts of one method
by one (`After`). The client's handlers do this to its lists (`ApplyTimes`), and
the registry's do it to what is right: `RegisterMoves` for a registration, which is
one more in `Registrations`; `FarewellInHand` for a connection that ends. That one
goes through `methods[c]`, repeats and all, as `onShutDown` does: after `k` of its
notices a count has gone down by as many as `Said` counts among the first `k`
registrations, not below zero (`Part`), and `RightLeave` says that after all of
them what was right before is right now. An offline notice removes the first host
of its name rather than a particular one, and the counts do not tell the difference.

`TopicProofs` proves `LinksAlwaysAgree` and `TopicsRefined`, for any connections,
topics and number of requests. `LinksAgree` with the types is inductive; the
refinement needs it in three places: a removal reaches exactly the subscribers
that list the topic, a cancellation of an unknown topic changes nothing, and the
topic's list is the set of members a message is due to. `Told` and `Responded`
relate what a handler sends to what `PubSub` tells.

Of the client it proves `BeliefHolds`, `HandlersFound` and `TopicsTypes`, for any threads, calls,
other clients and topics, on top of what is proved of the server (`IsServerStep`:
every step is one of the server's or none). What `BeliefTrue` says of the handlers
follows from `TableInv`: nobody else is at the topic of a *calm* call
(`CalmAlone`), the client knows where it stands only while no call is at the topic
(`KnownIdle`), and a calm call past its first step has left the table as it wants
it (`HandlerOK`). The rest needs more, since a call that timed out may leave
its request under way: `BInv` adds that no request or answer carries an id before
the call it is for (`IdsOK`), that behind the request of a calm call none moves
the client at its topic (`LastOK`), and that the answer to it says what the server
has come to (`Done`): the client listed or not, nothing on the way that changes
that, and after a cancellation no message of the topic behind the answer.
After a refusal it is the same as after a cancellation, which is what the last
theorem needs. `HandlersFound` (`HandlerUnlessSpoilt`) follows from `FInv`: a topic
that is not spoilt has its handler or the client is out of it (`FoundOK`), a
request to subscribe is sent with the handler in place, and a calm call that goes
to drop its handler was refused, so that the client is out (`HeldOK`).

`ConnectionProofs` holds for any messages, limits, bases and lengths of an
integer.

- `NullComesLate` and `LookUpNeverFails` follow from `LifeInv`: an end has its
  `ConnectionBase` exactly as long as muduo's connection is open and reads only
  then, and the latch opens after `_conn` is set.
- `FramingRoundTrip`: a message is read off the bytes it was written as, whatever
  follows them. An integer is found again because its digits, folded to the base,
  are the number they were taken from.
- `HandledAsTheyWereSent` (`HandledAsSent`), `OnlyLongRefused`
  (`ShortNeverRefused`) and `ConnectionTypes` follow from `StreamInv`: what an end
  has in its buffer and on the wire is what is left of the bytes of the messages
  sent and not yet handled, all of it while the connection carries what is written
  (`Flowing`), a beginning of it once bytes were lost. A message is taken off only
  when `canProceed` finds it whole, and then it is the first of those. A buffer
  that is found too long begins with a message that is.

`FoldProofs` has what the last two modules need of recursion. The library's
induction takes an operator, which the provers cannot instantiate; here a
property of the numbers is the *set* of numbers that have it (`NatSetInduction`),
which follows from the library's theorem that what is well founded has minimal
elements. A fold is unfolded by choosing the function it is defined by
(`WalkExists`) and reading it as a sequence of steps, one per element.

`ClientPoolProofs`, for any hosts, threads, clients and number of notices:

- `ClientsLiveWhileHeld`. `AliveIffHeld` is not inductive alone: `IInv` adds where
  in a call an actor holds a client and that it is wanted for a host
  (`HoldsWhileCalling`), and that what the registry's IO thread destroys still
  exists (`JoinsAlive`).
- `NoticesEmptyThePool`. `PInv` adds that the registry knows of the client before
  anybody can be given a host (`AskedFirst`), so that the notice about a host is
  under way before a connection to it is seen closed; that a client is pooled
  only after its connection came up (`PooledWasUp`); and that a call whose
  connection is gone before it puts its client into the pool either has its
  notice ahead of it or has been overtaken by it (`CallersBehind`), in which
  case it marks its host *late*. Most actions keep it by one lemma (`QuietPInv`).

`MessagesProofs`, for any text and every schema: a message whose text is all
UTF-8 arrives whole (`RoundTrip`); otherwise the fields before the first that is
not arrive as sent (`PrefixArrives`), numbers arrive or read as zero
(`NumberArrivesOrIsZero`), result codes always arrive (`RcodeArrives`), as do the
method or topic of a request (`NameArrives`), and after a bad first string
everything else is its default (`RestIsLost`). A `Struct` arrives as it was sent
or, if it is what stops the parser, with a part of its entries (`StructArrives`).
Parsing is written without
recursion, so that these need case distinctions only.

`ExchangeProofs`, for any users, members, services, texts and number of requests:
`EveryMessageHasAHandler`, `RequestsAreHandledAsAsked`,
`CallsReturnTheirService` (`ResultIsServices`) and `WhatIsDiscoveredIsServed`
(`DiscoveredIsServed`). The first two follow from
`XInv`: a client has one request under way, which is either the one frame in the
server's inbox or taken, with at most one answer to it in the client's inbox;
what the server took it for is among what parsing leaves of it; and the registry
and the topic server write on their own account to discoverers and members
only, which `DiscoverClient`s and `TopicClient`s alone become (`TellsOK`). The
second then needs what `MessagesProofs` says of the wire. The third is not
inductive either: the answer on its way says nothing of the call it is for.
`RInv` adds that the request of a user's `RpcClient` is the call that user has
under way and that an answer with `RCODE_OK` carries what the service of that
call's method made of that call's parameters (`CallOK`, `Executed`). That the
parameters that pass the check are exactly the declared ones of the call
(`Checked`) needs that a set with a subset of its own size is that subset, from
the library; that the service does not change afterwards, that services are only
ever added (`ServicesStay`). The fourth adds to it, in `DInv`, every place that the name
of a service passes on its way to a user: the announcement that the server has yet
to send, and only sends once the service is in place (`AnnounceOK`); the registry's
providers, of which only the server has names that are UTF-8, and its address there,
which is missing only after a name that is not (`RegistryOK`); the notices and the
answer on their way to a Discoverer, the answer for the method of the call that
waits for it (`News`, `FinderOK`); and what a user goes on to call, which is served
by the time its request goes out, so that no answer on its way back says there is
no such service (`UserOK`).

The proofs assume `RequestorAssumption`, `RegistryAssumption`,
`DiscoveryAssumption`, `TopicAssumption`, `TopicsAssumption`, `CallerAssumption`,
`ConnectionAssumption`, `PoolAssumption`, `MessagesAssumption`,
`AbsentAssumption`, `RouterAssumption`, `ExchangeAssumption` and
`NoneAssumption`: that kinds of requests and of actors are disjoint, that `None`,
`Absent` and `Garbage` are none of the values, that an id names the thread and
its call, that a message's type and length fit the integers they are written as,
that texts are texts and the server's address can be sent, that a service
declares, and a call passes, finitely many parameters, that a service returns a
`Struct` or throws, that bounds are numbers. TLC evaluates them on every run.

Every invariant and every action property that the passing runs check, and both
refinements of `AtMostOnceCall` and that of `PubSub`, are proved. Model-checked
only are the liveness properties, since ENABLED and fairness are beyond the
prover: `SendReturns`, `LockReleased`, `AnswersDelivered`,
`DisconnectSettlesPending`, `AnsweredFutureResolves`, `EventuallyHandled`,
`ClosedAtBothEnds`, `RemovalEnds` and `CallReturns`.

## Not modelled

- `network/json_message.hpp`: no code includes it since the protobuf messages
  replaced it.
- Of the generated protobuf code: copying, swapping, merging, arenas, reflection
  and the accessors' bookkeeping. They have no state of the program's own.
  Parsing, serializing, clearing and the defaults are in `Messages`.
- `network/Util.hpp`: ids are taken to be unlike any other; the rest formats
  and prints.
- `Dispatcher::registerHandler` as an action: handlers are registered before a
  client connects or a server starts. Which ones they are is in `Exchange`.
- `RpcServiceManager::remove`, which nobody calls.
- The answers to operations and message types that no code sends
  (`responseErr` of the registry; the unknown type in the receive loop).
- `RpcServer::start` within `Exchange`: that an announced host may not listen yet
  is in `ClientPool`.
- What a handler of the application does inside `onPublish` while another thread
  cancels the topic: nothing in the models depends on it.

## Plan

Done: `Requestor`, `RpcCaller`, `Registry`, `Discovery`, `TopicServer`, `Topics`,
`Connection`, `ClientPool`, `Messages`, `RpcRouter`, `Exchange`, with their runs
and the theorems above. What is left to prove are the exact conditions under which
the runs that end in a violation go wrong, beyond those that
`CacheLeadsToRegistry` and `HandlersFound` name.
