------------------------------ MODULE Discovery ------------------------------
(***************************************************************************)
(* One discovering client (Discoverer and MethodHosts in                   *)
(* client/service_manager.hpp, DiscoverClient in client/rpc_client.hpp)    *)
(* and the registry it keeps its cache of hosts from.                      *)
(*                                                                         *)
(* The client's threads look a method up and ask the registry if they find *)
(* nothing.  Its one IO thread takes the registry's messages off the       *)
(* connection in order: an answer goes to the thread that waits for it, a  *)
(* notice that a provider came or went goes into the cache at once.  The   *)
(* thread stores its answer when it gets to it, which may be after notices *)
(* that the registry sent after the answer.                                *)
(***************************************************************************)
EXTENDS Registry

CONSTANTS
  Client,       \* the client's connection to the registry
  Thread,       \* the client's threads
  MaxCalls,     \* bound: discoveries per thread
  Garbage       \* what a read beyond the end of a vector may yield

ASSUME DiscoveryAssumption ==
  /\ Client \in Conn
  /\ Id = Thread \X (1..MaxCalls)
  /\ Garbage \notin Host \cup {None}
  /\ MaxCalls \in Nat
  /\ None \notin Method /\ None \notin Seq(Host)

VARIABLES
  cache,        \* cache[m]: MethodHosts::_hosts of m, None if _hosts has no m
  index,        \* index[m]: MethodHosts::_index of m
  pc,           \* pc[t]: where thread t is in serviceDiscover
  want,         \* want[t]: the method it asks for
  count,        \* count[t]: discoveries it began
  got,          \* got[t]: the hosts of the answer it was given
  ret,          \* ret[t]: the host serviceDiscover returned last
  requests,     \* ids and methods on their way to the registry
  late,         \* late[t]: a notice was handled since t's answer came in
  basis,        \* basis[m]: what the cached list of m goes back to
  mixed         \* <<m, h>>: connections shared h, and one gave m more than once

threadVars == <<pc, want, count, got, ret>>
cacheVars  == <<cache, index>>
ghostVars  == <<late, basis, mixed>>
discoveryVars == <<registryVars, threadVars, cacheVars, requests, ghostVars>>

\* A list goes back to no answer at all, and is made of notices only; to an
\* answer, and the notices after it; or to an answer that was stored after a
\* notice it does not know of.
Basis == {"nothing", "answer", "overtaken"}

DiscoveryTypeOK ==
  /\ RegistryTypeOK
  /\ \A m \in Method : cache[m] = None \/ cache[m] \in Seq(Host)
  /\ index \in [Method -> Nat]
  /\ \A t \in Thread : /\ pc[t] \in {"idle", "waiting", "answered"}
                       /\ want[t] \in Method \cup {None}
                       /\ count[t] \in 0..MaxCalls
                       /\ got[t] = None \/ got[t] \in Seq(Host)
                       /\ ret[t] \in Host \cup {Garbage, None}
                       /\ pc[t] = "idle" <=> want[t] = None
                       /\ pc[t] = "answered" <=> got[t] # None
  /\ requests \subseteq Id \X Method
  /\ late \in [Thread -> BOOLEAN]
  /\ basis \in [Method -> Basis]
  /\ mixed \subseteq Method \X Host

DiscoveryInit ==
  /\ RegistryInit
  /\ cache = [m \in Method |-> None]
  /\ index = [m \in Method |-> 0]
  /\ pc = [t \in Thread |-> "idle"]
  /\ want = [t \in Thread |-> None]
  /\ count = [t \in Thread |-> 0]
  /\ got = [t \in Thread |-> None]
  /\ ret = [t \in Thread |-> None]
  /\ requests = {}
  /\ late = [t \in Thread |-> FALSE]
  /\ basis = [m \in Method |-> "nothing"]
  /\ mixed = {}

-----------------------------------------------------------------------------
(* MethodHosts.                                                            *)

Empty(m) == cache[m] \in {None, <<>>}

\* _hosts[_index] for a list of hosts: a vector is not checked, so an index
\* beyond its end reads what the allocator left there.
At(hosts, i) == IF i < Len(hosts) THEN {hosts[i + 1]} ELSE Host \cup {Garbage}

\* Mutated RemoveHost: every occurrence of the host goes.
RemoveHost_All(hosts, h) == SelectSeq(hosts, LAMBDA x : x # h)

\* removeHost takes the first occurrence of the host out, if there is one,
\* and leaves the index alone.
RemoveHost(hosts, h) == RemoveFirst(hosts, h)

-----------------------------------------------------------------------------
(* serviceDiscover.                                                        *)

\* The first critical section finds hosts and takes one in turn.
Choose(t, m) ==
  /\ pc[t] = "idle" /\ count[t] < MaxCalls /\ Client \notin gone
  /\ ~Empty(m)
  /\ \E h \in At(cache[m], index[m]) : ret' = [ret EXCEPT ![t] = h]
  /\ index' = [index EXCEPT ![m] = (@ + 1) % Len(cache[m])]
  /\ count' = [count EXCEPT ![t] = @ + 1]
  /\ UNCHANGED <<registryVars, pc, want, got, cache, requests, ghostVars>>

\* It finds none: the thread sends a request and waits.
Ask(t, m) ==
  /\ pc[t] = "idle" /\ count[t] < MaxCalls /\ Client \notin gone
  /\ Empty(m)
  /\ pc' = [pc EXCEPT ![t] = "waiting"]
  /\ want' = [want EXCEPT ![t] = m]
  /\ count' = [count EXCEPT ![t] = @ + 1]
  /\ requests' = requests \cup {<<<<t, count[t] + 1>>, m>>}
  /\ UNCHANGED <<registryVars, got, ret, cacheVars, ghostVars>>

\* Mutated Return: the answer is kept for the next call.
Return_KeepsAnswer(t) ==
  /\ pc' = [pc EXCEPT ![t] = "idle"]
  /\ want' = [want EXCEPT ![t] = None]
  /\ late' = [late EXCEPT ![t] = FALSE]
  /\ UNCHANGED got

Return(t) ==
  /\ pc' = [pc EXCEPT ![t] = "idle"]
  /\ want' = [want EXCEPT ![t] = None]
  /\ got' = [got EXCEPT ![t] = None]
  /\ late' = [late EXCEPT ![t] = FALSE]

\* Requestor::send gives up waiting; serviceDiscover returns false.
Expire(t) ==
  /\ pc[t] = "waiting"
  /\ Return(t)
  /\ UNCHANGED <<registryVars, count, ret, cacheVars, requests, basis, mixed>>

\* The answer names no host; serviceDiscover returns false.
NotFound(t) ==
  /\ pc[t] = "answered" /\ got[t] = <<>>
  /\ Return(t)
  /\ UNCHANGED <<registryVars, count, ret, cacheVars, requests, basis, mixed>>

\* The second critical section: a new list with the hosts of the answer
\* replaces whatever the cache has by now, and its first host is returned.
Store(t) ==
  /\ pc[t] = "answered" /\ got[t] # <<>>
  /\ cache' = [cache EXCEPT ![want[t]] = got[t]]
  /\ index' = [index EXCEPT ![want[t]] = 1 % Len(got[t])]
  /\ ret' = [ret EXCEPT ![t] = got[t][1]]
  /\ basis' = [basis EXCEPT ![want[t]] = IF late[t] THEN "overtaken" ELSE "answer"]
  /\ Return(t)
  /\ UNCHANGED <<registryVars, count, requests, mixed>>

-----------------------------------------------------------------------------
(* The IO thread takes the next message off the connection.                *)

Incoming(op) ==
  /\ outbox[Client] # <<>> /\ Head(outbox[Client]).op = op
  /\ outbox' = [outbox EXCEPT ![Client] = Tail(@)]
  /\ UNCHANGED <<host, methods, providers, watched, discoverers, gone>>

\* Requestor::onResponse: the thread gets its answer if it still waits.  An
\* answer without hosts leaves the cache as it is, which is right if there
\* is nothing in it.
ReceiveAnswer ==
  LET msg == Head(outbox[Client])
      t   == msg.id[1]
  IN /\ Incoming("discovered")
     /\ IF pc[t] = "waiting" /\ count[t] = msg.id[2]
          THEN /\ pc' = [pc EXCEPT ![t] = "answered"]
               /\ got' = [got EXCEPT ![t] = msg.hosts]
          ELSE UNCHANGED <<pc, got>>
     /\ basis' = IF msg.hosts = <<>> /\ Empty(msg.method)
                   THEN [basis EXCEPT ![msg.method] = "answer"] ELSE basis
     /\ UNCHANGED <<want, count, ret, cacheVars, requests, late, mixed>>

Overtake(m) ==
  late' = [t \in Thread |-> late[t] \/ (pc[t] = "answered" /\ want[t] = m)]

\* onServiceRequest, SERVICE_ONLINE.
ReceiveOnline ==
  LET msg == Head(outbox[Client])
      m   == msg.method
  IN /\ Incoming("online")
     /\ cache' = [cache EXCEPT ![m] = Append(IF @ = None THEN <<>> ELSE @, msg.host)]
     /\ Overtake(m)
     /\ UNCHANGED <<index, threadVars, requests, basis, mixed>>

\* onServiceRequest, SERVICE_OFFLINE.
ReceiveOffline ==
  LET msg == Head(outbox[Client])
      m   == msg.method
  IN /\ Incoming("offline")
     /\ cache' = IF cache[m] = None THEN cache
                   ELSE [cache EXCEPT ![m] = RemoveHost(@, msg.host)]
     /\ Overtake(m)
     /\ UNCHANGED <<index, threadVars, requests, basis, mixed>>

-----------------------------------------------------------------------------
(* The registry and the providers.                                         *)

HandleDiscovery ==
  /\ \E r \in requests : /\ OnDiscover(Client, r[2], r[1])
                         /\ requests' = requests \ {r}
  /\ UNCHANGED <<threadVars, cacheVars, ghostVars>>

\* How often each host provides m: its connections, and their registrations.
Provided(m, h) == Cardinality({c \in providers[m] : host[c] = h})
Registrations(m, h) ==
  UNION {{c} \X {i \in DOMAIN methods[c] : methods[c][i] = m} :
           c \in {d \in providers[m] : host[d] = h}}
Announced(m, h) == Cardinality(Registrations(m, h))

\* Several connections provide m with h, one of them more than once.
Mixed(m, h) == Provided(m, h) > 1 /\ Announced(m, h) > Provided(m, h)

\* A provider is an RpcServer: it registers its services with the one address
\* it listens on, and nothing keeps it from registering a name again
\* (rpc_server.hpp:63-68).  Only the model bounds how often it does.
HandleRegistration(c, m, h) ==
  /\ c # Client
  /\ host[c] \in {None, h} /\ Len(methods[c]) < MaxMethods
  /\ OnRegister(c, m, h)
  /\ mixed' = mixed \cup {p \in Method \X Host : Mixed(p[1], p[2])'}
  /\ UNCHANGED <<threadVars, cacheVars, requests, late, basis>>

ProviderLeaves(c) ==
  /\ c # Client
  /\ OnShutDown(c)
  /\ UNCHANGED <<threadVars, cacheVars, requests, ghostVars>>

\* The connection of the client is lost with the requests on it.  From then
\* on serviceDiscover returns false, for DiscoverClient is not connected.
ClientLeaves ==
  /\ OnShutDown(Client)
  /\ requests' = {}
  /\ UNCHANGED <<threadVars, cacheVars, ghostVars>>

\* The provider behind c reads the answer to its registration.
ProviderReads(c) ==
  /\ c # Client
  /\ Deliver(c)
  /\ UNCHANGED <<threadVars, cacheVars, requests, ghostVars>>

DiscoveryNext ==
  \/ \E t \in Thread, m \in Method : Choose(t, m) \/ Ask(t, m)
  \/ \E t \in Thread : Expire(t) \/ NotFound(t) \/ Store(t)
  \/ ReceiveAnswer \/ ReceiveOnline \/ ReceiveOffline
  \/ HandleDiscovery \/ ClientLeaves
  \/ \E c \in Conn : ProviderLeaves(c) \/ ProviderReads(c)
  \/ \E c \in Conn, m \in Method, h \in Host : HandleRegistration(c, m, h)

DiscoverySpec == DiscoveryInit /\ [][DiscoveryNext]_discoveryVars

-----------------------------------------------------------------------------
(* What the client may rely on.                                            *)

\* A list of hosts of m after one message.
Apply(m, hosts, msg) ==
  CASE msg.op = "online"  /\ msg.method = m -> Append(hosts, msg.host)
    [] msg.op = "offline" /\ msg.method = m -> RemoveFirst(hosts, msg.host)
    [] OTHER -> hosts

\* The same after a sequence of messages.
Replay(m, hosts, msgs) == FoldLeft(LAMBDA hs, msg : Apply(m, hs, msg), hosts, msgs)

\* How often h is in a list of hosts.
Times(hosts, h) == Cardinality({i \in 1..Len(hosts) : hosts[i] = h})

\* How often a right list of m may have h: an answer has one for each
\* connection, but the notices come one for each registration.  A connection
\* that leaves takes h out as often as it registered m, which may be more than
\* the answer gave for it; then another's goes too.
Least(m, h) == IF <<m, h>> \in mixed THEN 0 ELSE Provided(m, h)
Right(m, h) == Least(m, h)..Announced(m, h)

Cached(m) == IF cache[m] = None THEN <<>> ELSE cache[m]

\* What is in the cache for m once everything under way has arrived.
Settled(m) == Replay(m, Cached(m), outbox[Client])

\* Every answer on its way has a right list once the notices sent after it are
\* applied: no host that is provided is missing, unless it is mixed, and none
\* comes more often than it was registered, whoever registers, again or with an
\* address others have, and leaves (server/service_manager.hpp:191-254).
AnswersReplay ==
  Client \notin gone =>
    \A i \in DOMAIN outbox[Client] :
      LET msg == outbox[Client][i]
      IN msg.op = "discovered" =>
           \A h \in Host :
             Times(Replay(msg.method, msg.hosts,
                          SubSeq(outbox[Client], i + 1, Len(outbox[Client]))), h)
               \in Right(msg.method, h)

\* A list that goes back to an answer is right once everything under way has
\* arrived.  One that was built from notices alone, because no answer came in
\* time, may lack hosts that were there before, but has none too many: no host
\* is offered that left.  Only an answer stored late, after a notice it does
\* not know of, may bring one back (client/service_manager.hpp:96-166).
CacheFollowsRegistry ==
  Client \notin gone =>
    \A m \in Method, h \in Host :
      /\ basis[m] = "answer" => Times(Settled(m), h) \in Right(m, h)
      /\ basis[m] = "nothing" => Times(Settled(m), h) <= Announced(m, h)

\* What server/service_manager.hpp:213 promises of a provider that left: once
\* everything sent has arrived and nobody is discovering, its host is no
\* longer offered.
NoStaleHost ==
  (/\ Client \notin gone
   /\ outbox[Client] = <<>>
   /\ requests = {}
   /\ \A t \in Thread : pc[t] = "idle")
  => \A m \in Method : \A i \in DOMAIN Cached(m) : Provided(m, Cached(m)[i]) > 0

\* What rpc_client.hpp:123 says of a method that was discovered: its address
\* is returned at once, an address that is, and not what lies beyond them.
ChosenIsHost == \A t \in Thread : ret[t] # Garbage
=============================================================================
