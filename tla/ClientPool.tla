------------------------------ MODULE ClientPool ------------------------------
(***************************************************************************)
(* RpcClient's pool of connections (client/rpc_client.hpp) beside what     *)
(* fills and empties it: the discovery of a provider and the registry's    *)
(* notices (client/service_manager.hpp), and the life of the MuduoClient   *)
(* objects in it (network/network.hpp), each with an IO thread that its    *)
(* destructor joins.                                                       *)
(*                                                                         *)
(* Whoever calls RpcClient::call is an actor: a thread of the application, *)
(* or the IO thread of a client that runs a user's callback.  The IO       *)
(* thread of the connection to the registry is an actor of its own kind.   *)
(*                                                                         *)
(* Abstractions.  One method, which every host provides; the cache of      *)
(* hosts is a set (module Discovery has the list and its index).  A mutex  *)
(* is shown only where somebody holds it over a blocking call:             *)
(* Discoverer::_mutex and RpcClient::_mutex while the registry's IO thread *)
(* joins, Dispatcher::_lock while a callback runs.  What happens to the    *)
(* request of a call is in module Requestor.                               *)
(***************************************************************************)
EXTENDS Naturals, Sequences

CONSTANTS
  Host,         \* the providers' addresses
  Thread,       \* the application's threads
  Client,       \* the MuduoClient objects, used again after their destruction
  MaxNotices,   \* bound: messages from the registry under way
  None

Actor == Thread \cup Client

ASSUME PoolAssumption ==
  /\ None \notin Host \cup Client \cup Thread
  /\ Thread \cap Client = {}
  /\ MaxNotices \in Nat

VARIABLES
  provider,   \* provider[h]: "off", "announced" but not listening, or "up"
  notices,    \* the registry's messages on their way to the client
  asked,      \* the client is among the method's discoverers
  known,      \* Discoverer::_hosts has the method
  cached,     \* the hosts of that entry
  pool,       \* RpcClient::_rpc_clients[h], None if it has no h
  host,       \* host[c]: the address c was made for
  conn,       \* conn[c]: the state of c and of its connection
  io,         \* io[c]: what c's IO thread does
  pending,    \* clients with an answer to a call on its way
  pc,         \* pc[a]: where in call() actor a is
  want,       \* want[a]: the host it was given
  got,        \* got[a]: the hosts of the answer it was given
  local,      \* local[a]: its ClientBase::ptr
  joins,      \* the client whose IO thread the registry's IO thread joins
  ended,      \* what ended the process, None while it runs
  overtaken,  \* overtaken[a]: hosts that went since a was given its hosts
  late        \* hosts whose pooled client was put there after they had gone

registryVars == <<provider, notices, asked>>
cacheVars == <<known, cached>>
clientVars == <<host, conn, io, pending>>
callVars == <<pc, want, got, local>>
vars == <<registryVars, cacheVars, pool, clientVars, callVars, joins, ended,
          overtaken, late>>

PC == {"idle", "asking", "answered", "get", "connecting", "use",
       "release", "joining"}

\* The states of a client's connection: no such object; connect() called; up;
\* up but the provider has closed it; seen closed by the client, because the
\* provider went ("dead") or for another reason ("lost").
ConnState == {"unused", "connecting", "up", "closing", "dead", "lost"}

Init ==
  /\ provider = [h \in Host |-> "off"]
  /\ notices = <<>>
  /\ asked = FALSE
  /\ known = FALSE
  /\ cached = {}
  /\ pool = [h \in Host |-> None]
  /\ host = [c \in Client |-> None]
  /\ conn = [c \in Client |-> "unused"]
  /\ io = [c \in Client |-> "idle"]
  /\ pending = {}
  /\ pc = [a \in Actor |-> "idle"]
  /\ want = [a \in Actor |-> None]
  /\ got = [a \in Actor |-> {}]
  /\ local = [a \in Actor |-> None]
  /\ joins = None
  /\ ended = None
  /\ overtaken = [a \in Actor |-> {}]
  /\ late = {}

-----------------------------------------------------------------------------
(* Getting a host.  Discoverer::_mutex is held while the registry's IO      *)
(* thread joins.                                                            *)

MutexesFree == joins = None

Goto(a, from, to) == pc[a] = from /\ pc' = [pc EXCEPT ![a] = to]

\* An application thread calls when it likes, a callback when it has come to
\* its call.  Bound: one call per run of a callback.
MayCall(a) == IF a \in Client THEN io[a] = "calling" ELSE TRUE

Enter(a) ==
  io' = IF a \in Client THEN [io EXCEPT ![a] = "called"] ELSE io

\* serviceDiscover finds hosts and takes one of them.
Choose(a, h) ==
  /\ MutexesFree /\ MayCall(a)
  /\ h \in cached
  /\ Goto(a, "idle", "get")
  /\ Enter(a)
  /\ want' = [want EXCEPT ![a] = h]
  /\ overtaken' = [overtaken EXCEPT ![a] = {}]
  /\ UNCHANGED <<registryVars, cacheVars, pool, host, conn, pending, got, local,
                 joins, late>>

Message(op, hosts, a) == [op |-> op, hosts |-> hosts, to |-> a]

\* It finds none and asks the registry, whose answer takes its place among
\* the notices.
Ask(a) ==
  /\ MutexesFree /\ MayCall(a)
  /\ cached = {}
  /\ Len(notices) < MaxNotices
  /\ Goto(a, "idle", "asking")
  /\ Enter(a)
  /\ asked' = TRUE
  /\ notices' = Append(notices,
                       Message("answer", {h \in Host : provider[h] # "off"}, a))
  /\ UNCHANGED <<provider, cacheVars, pool, host, conn, pending, want, got, local,
                 joins, overtaken, late>>

\* The answer names no host, or Requestor::send gave up on it: the call fails.
\* An answer that comes later finds no entry in the request table: it is for
\* nobody.
Fail(a) ==
  /\ \/ pc[a] = "asking"
     \/ pc[a] = "answered" /\ got[a] = {}
  /\ pc' = [pc EXCEPT ![a] = "idle"]
  /\ notices' = [i \in DOMAIN notices |->
                   IF notices[i].to = a THEN [notices[i] EXCEPT !.to = None] ELSE notices[i]]
  /\ overtaken' = [overtaken EXCEPT ![a] = {}]
  /\ UNCHANGED <<provider, asked, cacheVars, pool, clientVars, want, got, local,
                 joins, late>>

\* The hosts of the answer replace the cached ones.
Store(a, h) ==
  /\ MutexesFree
  /\ h \in got[a]
  /\ Goto(a, "answered", "get")
  /\ known' = TRUE
  /\ cached' = got[a]
  /\ want' = [want EXCEPT ![a] = h]
  /\ got' = [got EXCEPT ![a] = {}]
  /\ UNCHANGED <<registryVars, pool, clientVars, local, joins, overtaken, late>>

-----------------------------------------------------------------------------
(* Getting a client for the host.  RpcClient::_mutex is held while the      *)
(* registry's IO thread joins.                                              *)

\* getRpcClient finds a client.
Get(a) ==
  /\ MutexesFree
  /\ Goto(a, "get", "use")
  /\ pool[want[a]] # None
  /\ local' = [local EXCEPT ![a] = pool[want[a]]]
  /\ UNCHANGED <<registryVars, cacheVars, pool, clientVars, want, got, joins,
                 overtaken, late>>

\* It finds none: newRpcClient makes a client and waits in connect().
\* Bound: the objects in Client.
New(a) ==
  /\ MutexesFree
  /\ Goto(a, "get", "connecting")
  /\ pool[want[a]] = None
  /\ \E c \in Client : conn[c] = "unused"
  /\ LET c == CHOOSE x \in Client : conn[x] = "unused"
     IN /\ local' = [local EXCEPT ![a] = c]
        /\ host' = [host EXCEPT ![c] = want[a]]
        /\ conn' = [conn EXCEPT ![c] = "connecting"]
  /\ UNCHANGED <<registryVars, cacheVars, pool, io, pending, want, got, joins,
                 overtaken, late>>

\* Mutated Latched: connect() asks connected() until it is true.
Latched_Polled(c) == conn[c] \in {"up", "closing"}

\* The latch that connect() waits for has been counted down.
Latched(c) == conn[c] # "connecting"

\* putRpcClient keeps the client that is there.
Insert(h, c) == pool' = IF pool[h] = None THEN [pool EXCEPT ![h] = c] ELSE pool

\* connect() returns and the client is put into the pool.  The result of
\* putRpcClient, the client that is in the pool now, is not used: the caller
\* goes on with its own.
Put(a) ==
  /\ MutexesFree
  /\ Goto(a, "connecting", "use")
  /\ Latched(local[a])
  /\ Insert(want[a], local[a])
  /\ late' = IF pool[want[a]] = None /\ want[a] \in overtaken[a]
               THEN late \cup {want[a]} ELSE late
  /\ UNCHANGED <<registryVars, cacheVars, clientVars, want, got, local, joins,
                 overtaken>>

\* A client's connection() is null before its connection is up and after the
\* client has seen it closed.
HasConnection(c) == conn[c] \in {"up", "closing"}

\* The call is made on the client's connection, and its answer may come.
Use(a) ==
  /\ Goto(a, "use", "release")
  /\ HasConnection(local[a])
  /\ pending' \in {pending} \cup
       IF conn[local[a]] = "up" THEN {pending \cup {local[a]}} ELSE {}
  /\ UNCHANGED <<registryVars, cacheVars, pool, host, conn, io, want, got, local,
                 joins, overtaken, late>>

\* The call is made on a null connection: Requestor::send dereferences it.
UseNull(a) ==
  /\ pc[a] = "use" /\ ~HasConnection(local[a])
  /\ ended' = local[a]
  /\ UNCHANGED <<registryVars, cacheVars, pool, clientVars, callVars, joins,
                 overtaken, late>>

-----------------------------------------------------------------------------
(* Letting the client go.                                                   *)

\* Somebody other than a keeps c alive.
HeldBesides(a, c) ==
  \/ \E h \in Host : pool[h] = c
  \/ \E b \in Actor \ {a} : local[b] = c

\* call() returns and drops its reference.  The last one destroys the client,
\* which joins its IO thread.
Release(a) ==
  /\ overtaken' = [overtaken EXCEPT ![a] = {}]
  /\ IF HeldBesides(a, local[a])
       THEN /\ Goto(a, "release", "idle")
            /\ want' = [want EXCEPT ![a] = None]
            /\ local' = [local EXCEPT ![a] = None]
       ELSE Goto(a, "release", "joining") /\ UNCHANGED <<want, local>>
  /\ UNCHANGED <<registryVars, cacheVars, pool, clientVars, got, joins, late>>

\* c's IO thread has left its loop: the object is gone, and with it the
\* answers it was waiting for.
Destroy(c) ==
  /\ io[c] = "idle"
  /\ conn' = [conn EXCEPT ![c] = "unused"]
  /\ host' = [host EXCEPT ![c] = None]
  /\ pending' = pending \ {c}

Joined(a) ==
  /\ Goto(a, "joining", "idle")
  /\ Destroy(local[a])
  /\ want' = [want EXCEPT ![a] = None]
  /\ local' = [local EXCEPT ![a] = None]
  /\ UNCHANGED <<registryVars, cacheVars, pool, io, got, joins, overtaken, late>>

\* An IO thread that destroys its own client joins itself, and goes on in an
\* object that is no more.
JoinSelf(a) ==
  /\ pc[a] = "joining" /\ local[a] = a
  /\ ended' = a
  /\ UNCHANGED <<registryVars, cacheVars, pool, clientVars, callVars, joins,
                 overtaken, late>>

-----------------------------------------------------------------------------
(* The IO thread of the connection to the registry.                         *)

Incoming(op) == MutexesFree /\ notices # <<>> /\ Head(notices).op = op

Noticed == Head(notices).hosts

\* The answer goes to the actor that waits for it, if one does.
OnAnswer ==
  /\ Incoming("answer")
  /\ LET a == Head(notices).to
     IN IF a = None THEN UNCHANGED <<pc, got>>
                    ELSE Goto(a, "asking", "answered") /\ got' = [got EXCEPT ![a] = Noticed]
  /\ notices' = Tail(notices)
  /\ UNCHANGED <<provider, asked, cacheVars, pool, clientVars, want, local, joins,
                 overtaken, late>>

OnOnline ==
  /\ Incoming("on")
  /\ notices' = Tail(notices)
  /\ known' = TRUE
  /\ cached' = cached \cup Noticed
  /\ UNCHANGED <<provider, asked, pool, clientVars, callVars, joins, overtaken, late>>

\* Mutated RemoveRpcClient: the pool keeps the client.
RemoveRpcClient_Keeps(h) == UNCHANGED <<pool, joins>> /\ late' = late \ {h}

\* Mutated RemoveRpcClient: the client is destroyed whoever uses it.
RemoveRpcClient_Destroys(h) ==
  /\ pool' = [pool EXCEPT ![h] = None]
  /\ late' = late \ {h}
  /\ joins' = pool[h]

\* removeRpcClient: the pool lets go of h's client; if nobody else holds it,
\* its destructor runs in here, with RpcClient::_mutex held.
RemoveRpcClient(h) ==
  /\ pool' = [pool EXCEPT ![h] = None]
  /\ late' = late \ {h}
  /\ joins' = IF \E a \in Actor : local[a] = pool[h] THEN None ELSE pool[h]

\* A notice about a method that the client has no entry of calls nobody back.
OnOffline ==
  /\ Incoming("off")
  /\ notices' = Tail(notices)
  /\ cached' = cached \ Noticed
  /\ IF known
       THEN \E h \in Host : Noticed = {h} /\ RemoveRpcClient(h)
       ELSE UNCHANGED <<pool, joins, late>>
  /\ overtaken' = [a \in Actor |-> IF pc[a] \in {"idle", "asking", "release", "joining"}
                                     THEN overtaken[a]
                                     ELSE overtaken[a] \cup Noticed]
  /\ UNCHANGED <<provider, asked, known, clientVars, callVars>>

RegistryJoined ==
  /\ joins # None
  /\ Destroy(joins)
  /\ joins' = None
  /\ UNCHANGED <<registryVars, cacheVars, pool, io, callVars, overtaken, late>>

-----------------------------------------------------------------------------
(* The IO threads of the clients.  One of them at a time runs a callback:  *)
(* the one that has Dispatcher::_lock.                                     *)

InCallback(c) == io[c] \in {"callback", "calling", "called"}

Connected(c) ==
  /\ conn[c] = "connecting" /\ provider[host[c]] = "up"
  /\ conn' = [conn EXCEPT ![c] = "up"]
  /\ UNCHANGED <<registryVars, cacheVars, pool, host, io, pending, callVars, joins,
                 overtaken, late>>

\* An answer comes in; the dispatcher is about to lock.
Arrive(c) ==
  /\ c \in pending /\ conn[c] = "up" /\ io[c] = "idle"
  /\ io' = [io EXCEPT ![c] = "locking"]
  /\ pending' = pending \ {c}
  /\ UNCHANGED <<registryVars, cacheVars, pool, host, conn, callVars, joins,
                 overtaken, late>>

RunCallback(c) ==
  /\ io[c] = "locking" /\ \A d \in Client : ~InCallback(d)
  /\ io' = [io EXCEPT ![c] = "callback"]
  /\ UNCHANGED <<registryVars, cacheVars, pool, host, conn, pending, callVars, joins,
                 overtaken, late>>

\* The callback comes to a call of its own.
ComeToCall(c) ==
  /\ io[c] = "callback"
  /\ io' = [io EXCEPT ![c] = "calling"]
  /\ UNCHANGED <<registryVars, cacheVars, pool, host, conn, pending, callVars, joins,
                 overtaken, late>>

\* Mutated ReturnCallback: what follows the callback takes RpcClient::_mutex.
ReturnCallback_Locks(c) ==
  /\ MutexesFree
  /\ io[c] \in {"callback", "called"} /\ pc[c] = "idle"
  /\ io' = [io EXCEPT ![c] = "idle"]
  /\ UNCHANGED <<registryVars, cacheVars, pool, host, conn, pending, callVars, joins,
                 overtaken, late>>

\* The callback returns, the call it made before it.
ReturnCallback(c) ==
  /\ io[c] \in {"callback", "called"} /\ pc[c] = "idle"
  /\ io' = [io EXCEPT ![c] = "idle"]
  /\ UNCHANGED <<registryVars, cacheVars, pool, host, conn, pending, callVars, joins,
                 overtaken, late>>

\* The client sees its connection closed and resets _conn.
Closed(c) ==
  /\ conn[c] \in {"up", "closing"} /\ io[c] = "idle"
  /\ conn' = [conn EXCEPT ![c] = IF @ = "up" THEN "lost" ELSE "dead"]
  /\ pending' = pending \ {c}
  /\ UNCHANGED <<registryVars, cacheVars, pool, host, io, callVars, joins,
                 overtaken, late>>

-----------------------------------------------------------------------------
(* The providers.  RpcServer::registerService announces a host before       *)
(* start() makes it listen.  Bound: MaxNotices under way.                   *)

Notify(op, h) ==
  notices' = IF asked THEN Append(notices, Message(op, {h}, None)) ELSE notices

Announce(h) ==
  /\ Len(notices) < MaxNotices
  /\ provider[h] = "off"
  /\ provider' = [provider EXCEPT ![h] = "announced"]
  /\ Notify("on", h)
  /\ UNCHANGED <<asked, cacheVars, pool, clientVars, callVars, joins, overtaken, late>>

Start(h) ==
  /\ provider[h] = "announced"
  /\ provider' = [provider EXCEPT ![h] = "up"]
  /\ UNCHANGED <<notices, asked, cacheVars, pool, clientVars, callVars, joins,
                 overtaken, late>>

Stop(h) ==
  /\ Len(notices) < MaxNotices
  /\ provider[h] # "off"
  /\ provider' = [provider EXCEPT ![h] = "off"]
  /\ Notify("off", h)
  /\ conn' = [c \in Client |-> IF host[c] = h /\ conn[c] = "up" THEN "closing"
                                                                ELSE conn[c]]
  /\ pending' = {c \in pending : host[c] # h}
  /\ UNCHANGED <<asked, cacheVars, pool, host, io, callVars, joins, overtaken, late>>

-----------------------------------------------------------------------------
Call(a) == Ask(a) \/ \E h \in Host : Choose(a, h)

CallStep(a) ==
  \/ Fail(a) \/ \E h \in Host : Store(a, h)
  \/ Get(a) \/ New(a) \/ Put(a) \/ Use(a)
  \/ Release(a) \/ Joined(a)

Ending(a) == UseNull(a) \/ JoinSelf(a)

RegistryStep == OnAnswer \/ OnOnline \/ OnOffline \/ RegistryJoined

IoStep(c) == ReturnCallback(c) \/ Connected(c)

Next ==
  /\ ended = None
  /\ \/ \E a \in Actor : Ending(a)
     \/ /\ \/ \E a \in Actor : Call(a) \/ CallStep(a)
           \/ RegistryStep
           \/ \E c \in Client : IoStep(c) \/ RunCallback(c) \/ Arrive(c) \/ ComeToCall(c) \/ Closed(c)
           \/ \E h \in Host : Announce(h) \/ Start(h) \/ Stop(h)
        /\ UNCHANGED ended

Spec == Init /\ [][Next]_vars

\* The process's threads are scheduled, the wait for the registry's answer
\* ends, and a connection to a host that listens comes up (muduo's Connector
\* tries again).  An IO thread that waits for Dispatcher::_lock gets it if the
\* lock is given back again and again.  Neither a call nor an answer to it is
\* assumed.
Running(A) == ended = None /\ A /\ UNCHANGED ended

Fairness ==
  /\ \A a \in Actor : WF_vars(Running(CallStep(a))) /\ WF_vars(ended = None /\ Ending(a))
  /\ WF_vars(Running(RegistryStep))
  /\ \A c \in Client : WF_vars(Running(IoStep(c))) /\ SF_vars(Running(RunCallback(c)))

FairSpec == Spec /\ Fairness

-----------------------------------------------------------------------------
(* What the pool has to get right.                                          *)

\* A client lives exactly as long as somebody holds it: what the pool or a
\* caller holds exists and was made for the host it is held for, what a
\* destructor works on is out of everybody else's reach, and no client is
\* left that is neither held nor being destroyed (rpc_client.hpp:164, :198).
HeldIsAlive ==
  /\ \A h \in Host : pool[h] # None => conn[pool[h]] # "unused" /\ host[pool[h]] = h
  /\ \A a \in Actor : local[a] # None => conn[local[a]] # "unused" /\ host[local[a]] = want[a]

DestroyedIsUnheld ==
  /\ \A a \in Actor : pc[a] = "joining" => ~HeldBesides(a, local[a])
  /\ joins # None => ~HeldBesides(None, joins)

NoneLeaked ==
  \A c \in Client : conn[c] # "unused" => HeldBesides(None, c) \/ joins = c

AliveIffHeld == HeldIsAlive /\ DestroyedIsUnheld /\ NoneLeaked

\* The notice that h has gone is under way.
OffPending(h) == \E i \in DOMAIN notices : notices[i].op = "off" /\ h \in notices[i].hosts

\* A client in the pool has been connected, and if its provider has gone it is
\* on its way out: the notice is still to come, or the client was put there
\* behind it, by a call that had been given the host before the notice was
\* handled (rpc_client.hpp:198).  Only a connection that is lost while its
\* provider lives leaves a client without one in the pool for good.
PoolFollowsNotices ==
  \A h \in Host :
    pool[h] # None /\ conn[pool[h]] \notin {"up", "lost"}
      => h \in late \/ OffPending(h)

\* A callback that makes a call holds Dispatcher::_lock meanwhile, and needs
\* the mutexes that the registry's IO thread may hold while it waits for the
\* callback's thread.
NestedCall == \E c \in Client : io[c] = "calling" \/ (io[c] = "called" /\ pc[c] # "idle")

\* The registry's IO thread, which handles the answers to every discovery,
\* gets out of the destructor of the client it removed from the pool, unless
\* a callback is stuck in a call it makes (client/service_manager.hpp:145).
RemovalEnds ==
  []<>~NestedCall => ((joins # None) ~> (joins = None \/ ended # None))

\* A call returns, unless its host does not listen (rpc_client.hpp:182), once
\* clients are no longer destroyed in the registry's IO thread and callbacks
\* no longer make calls.
CallReturns ==
  <>[](joins = None /\ ~NestedCall) =>
    \A t \in Thread :
      (pc[t] # "idle") ~>
        \/ pc[t] = "idle" \/ ended # None
        \/ pc[t] = "connecting" /\ conn[local[t]] = "connecting" /\ provider[want[t]] # "up"
=============================================================================
