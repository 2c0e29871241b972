------------------------------ MODULE Registry ------------------------------
(***************************************************************************)
(* The registry (server/service_manager.hpp): which connection provides    *)
(* which methods, which connection has asked for which, and what it tells  *)
(* the connections that asked when a provider comes and goes.              *)
(*                                                                         *)
(* The registry's server runs one event loop and no further threads, so    *)
(* every handler is one step.  A Provider or Discoverer object is its      *)
(* connection: the code makes one of each per connection.  The list of     *)
(* methods of a Discoverer is a set here, since repetitions in it have no  *)
(* effect; that of a Provider is a sequence, since every repetition of a   *)
(* method is announced again when the provider leaves.                     *)
(***************************************************************************)
EXTENDS Naturals, Sequences, SequencesExt

CONSTANTS
  Conn,         \* connections to the registry, of providers and of clients
  Method,
  Host,         \* addresses providers register
  Id,           \* ids of discovery requests
  MaxMethods,   \* bound: registrations per connection
  MaxOutbox,    \* bound: messages under way when a request is handled
  None

ASSUME RegistryAssumption == None \notin Host /\ MaxMethods \in Nat /\ MaxOutbox \in Nat

VARIABLES
  host,         \* host[c]: the host of c's Provider, None if c has none
  methods,      \* methods[c]: Provider::methods
  providers,    \* providers[m]: _providers, the connections that provide m
  watched,      \* watched[c]: Discoverer::methods
  discoverers,  \* discoverers[m]: _discoverers, the connections to tell about m
  gone,         \* connections that were closed; one never comes back
  outbox        \* outbox[c]: messages on their way to the client behind c

registryVars == <<host, methods, providers, watched, discoverers, gone, outbox>>

Message ==
  [op : {"registered"}]
    \cup [op : {"online", "offline"}, method : Method, host : Host]
    \cup [op : {"discovered"}, id : Id, method : Method, hosts : Seq(Host)]

\* The types.
RegistryTypeOK ==
  /\ host \in [Conn -> Host \cup {None}]
  /\ methods \in [Conn -> Seq(Method)]
  /\ providers \in [Method -> SUBSET Conn]
  /\ watched \in [Conn -> SUBSET Method]
  /\ discoverers \in [Method -> SUBSET Conn]
  /\ gone \subseteq Conn
  /\ \A c \in Conn : ToSet(outbox[c]) \subseteq Message

\* The messages the registry sends; id is that of the request answered.
Registered == [op |-> "registered"]
Discovered(id, m, hosts) == [op |-> "discovered", id |-> id, method |-> m, hosts |-> hosts]
Online(m, h) == [op |-> "online", method |-> m, host |-> h]
Offline(m, h) == [op |-> "offline", method |-> m, host |-> h]

RegistryInit ==
  /\ host = [c \in Conn |-> None]
  /\ methods = [c \in Conn |-> <<>>]
  /\ providers = [m \in Method |-> {}]
  /\ watched = [c \in Conn |-> {}]
  /\ discoverers = [m \in Method |-> {}]
  /\ gone = {}
  /\ outbox = [c \in Conn |-> <<>>]

-----------------------------------------------------------------------------
(* onServiceRequest, by the operation it is asked for.                     *)

\* addProvider: the first registration of a connection fixes its host.
AddProvider(c, m, h) ==
  /\ host' = IF host[c] = None THEN [host EXCEPT ![c] = h] ELSE host
  /\ providers' = [providers EXCEPT ![m] = @ \cup {c}]
  /\ methods' = [methods EXCEPT ![c] = Append(@, m)]

\* Those who asked for m are told of h, then c gets its answer.
OnRegister(c, m, h) ==
  /\ c \notin gone
  /\ AddProvider(c, m, h)
  /\ outbox' = [d \in Conn |->
       outbox[d] \o (IF d \in discoverers[m] THEN <<Online(m, h)>> ELSE <<>>)
                 \o (IF d = c THEN <<Registered>> ELSE <<>>)]
  /\ UNCHANGED <<watched, discoverers, gone>>

AddDiscoverer(c, m) ==
  /\ watched' = [watched EXCEPT ![c] = @ \cup {m}]
  /\ discoverers' = [discoverers EXCEPT ![m] = @ \cup {c}]

\* Who asks is told of m from now on, whether or not m has a provider yet.
\* An answer without hosts stands for RCODE_NOT_FOUND_SERVICE.  getHosts
\* lists the providers in the order of the addresses of their objects, that
\* is, in any order.
OnDiscover(c, m, id) ==
  /\ c \notin gone
  /\ AddDiscoverer(c, m)
  /\ \E l \in SetToSeqs(providers[m]) :
       outbox' = [outbox EXCEPT ![c] =
         Append(@, Discovered(id, m, [i \in DOMAIN l |-> host[l[i]]]))]
  /\ UNCHANGED <<host, methods, providers, gone>>

\* Mutated Farewell: one notice for each method, however often it was registered.
Farewell_OnceEach(c, d) ==
  outbox[d] \o SetToSeq({Offline(m, host[c]) : m \in {k \in ToSet(methods[c]) : d \in discoverers[k]}})

\* What is on its way to d when c has left: one notice for each entry of c's
\* method list that d has asked for is behind what was there.
Farewell(c, d) ==
  FoldLeft(LAMBDA msgs, m :
             IF d \in discoverers[m] THEN Append(msgs, Offline(m, host[c])) ELSE msgs,
           outbox[d], methods[c])

RemoveProvider(c) ==
  /\ providers' = [m \in Method |->
       IF m \in ToSet(methods[c]) THEN providers[m] \ {c} ELSE providers[m]]
  /\ host' = [host EXCEPT ![c] = None]
  /\ methods' = [methods EXCEPT ![c] = <<>>]

\* Mutated RemoveDiscover: only the Discoverer is erased.
RemoveDiscover_KeepsIndex(c) ==
  /\ watched' = [watched EXCEPT ![c] = {}]
  /\ UNCHANGED discoverers

RemoveDiscover(c) ==
  /\ discoverers' = [m \in Method |->
       IF m \in watched[c] THEN discoverers[m] \ {c} ELSE discoverers[m]]
  /\ watched' = [watched EXCEPT ![c] = {}]

\* onShutDown: what is on its way to c is lost with the connection.
OnShutDown(c) ==
  /\ c \notin gone
  /\ gone' = gone \cup {c}
  /\ outbox' = [d \in Conn |-> IF d = c THEN <<>> ELSE Farewell(c, d)]
  /\ RemoveProvider(c)
  /\ RemoveDiscover(c)

-----------------------------------------------------------------------------
\* The client behind c takes a message off its connection.
Deliver(c) ==
  /\ outbox[c] # <<>>
  /\ outbox' = [outbox EXCEPT ![c] = Tail(@)]
  /\ UNCHANGED <<host, methods, providers, watched, discoverers, gone>>

Room == \A c \in Conn : Len(outbox[c]) < MaxOutbox

\* Any client may ask for anything; the two bounds are the model's.
RegistryNext ==
  \/ /\ Room
     /\ \E c \in Conn, m \in Method :
          \/ Len(methods[c]) < MaxMethods /\ \E h \in Host : OnRegister(c, m, h)
          \/ \E id \in Id : OnDiscover(c, m, id)
  \/ \E c \in Conn : OnShutDown(c) \/ Deliver(c)

RegistrySpec == RegistryInit /\ [][RegistryNext]_registryVars

\* The two indexes of either manager agree: a method's set holds a
\* connection exactly as long as the connection's own list holds the method,
\* and a connection that was closed is in neither, whatever it registered,
\* how often and in what order (service_manager.hpp:36-87, :119-151).
IndexesAgree ==
  /\ \A c \in Conn, m \in Method :
       /\ c \in providers[m] <=> m \in ToSet(methods[c])
       /\ c \in discoverers[m] <=> m \in watched[c]
  /\ \A c \in Conn : host[c] = None <=> methods[c] = <<>>
  /\ \A c \in gone : methods[c] = <<>> /\ watched[c] = {}
=============================================================================
