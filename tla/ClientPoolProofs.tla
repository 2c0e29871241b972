--------------------------- MODULE ClientPoolProofs ---------------------------
(***************************************************************************)
(* The clients of RpcClient's pool live exactly as long as somebody holds  *)
(* them, for any number of hosts, threads and clients.                     *)
(*                                                                         *)
(* AliveIffHeld is not inductive by itself: it does not say when an actor  *)
(* holds a client, that a client under construction is wanted for a host,  *)
(* and that what the registry's IO thread destroys still exists.           *)
(*                                                                         *)
(* And a dead client leaves the pool with the notice about its host, or is *)
(* marked as put there behind it.                                          *)
(***************************************************************************)
EXTENDS ClientPool, TLAPS

\* The types of the variables that the argument is about.
HoldersTypeOK ==
  /\ pool \in [Host -> Client \cup {None}]
  /\ host \in [Client -> Host \cup {None}]
  /\ conn \in [Client -> ConnState]
  /\ pc \in [Actor -> PC]
  /\ want \in [Actor -> Host \cup {None}]
  /\ local \in [Actor -> Client \cup {None}]
  /\ joins \in Client \cup {None}

Holding == {"connecting", "use", "release", "joining"}

HoldsWhileCalling ==
  \A a \in Actor : /\ pc[a] \in Holding <=> local[a] # None
                   /\ pc[a] \in Holding \cup {"get"} => want[a] \in Host

JoinsAlive == joins # None => conn[joins] # "unused"

IInv == HoldersTypeOK /\ HoldsWhileCalling /\ JoinsAlive /\ AliveIffHeld

holderVars == <<pool, host, conn, pc, want, local, joins>>

-----------------------------------------------------------------------------
\* Nobody is called None.
LEMMA NoneIsNobody ==
  /\ None \notin Actor /\ None \notin Host /\ None \notin Client
  /\ Actor \ {None} = Actor
BY PoolAssumption DEF Actor

LEMMA InitIInv == Init => IInv
<1>1. SUFFICES ASSUME Init PROVE IInv
  OBVIOUS
<1>2. HoldersTypeOK
  BY <1>1 DEF Init, HoldersTypeOK, ConnState, PC
<1>3. HoldsWhileCalling
  BY <1>1 DEF Init, HoldsWhileCalling, Holding
<1>4. JoinsAlive
  BY <1>1 DEF Init, JoinsAlive
<1>5. AliveIffHeld
  BY <1>1 DEF Init, AliveIffHeld, HeldIsAlive, DestroyedIsUnheld, NoneLeaked
<1> QED  BY <1>2, <1>3, <1>4, <1>5 DEF IInv

\* A step that changes none of these variables.
LEMMA UnchangedIInv == IInv /\ UNCHANGED holderVars => IInv'
BY DEF IInv, holderVars, HoldersTypeOK, HoldsWhileCalling, JoinsAlive, AliveIffHeld,
       HeldIsAlive, DestroyedIsUnheld, NoneLeaked, HeldBesides

\* A step that only moves an actor that holds nothing, or that connects or
\* closes a client.
LEMMA MovesIInv ==
  ASSUME IInv, UNCHANGED <<pool, host, local, joins>>,
         conn' \in [Client -> ConnState], pc' \in [Actor -> PC],
         want' \in [Actor -> Host \cup {None}],
         \A c \in Client : conn'[c] = "unused" <=> conn[c] = "unused",
         \A a \in Actor : \/ pc'[a] = pc[a] /\ want'[a] = want[a]
                          \/ local[a] = None /\ pc'[a] \notin Holding
                             /\ (pc'[a] = "get" => want'[a] \in Host)
                          \/ local[a] # None /\ pc'[a] \in Holding \ {"joining"}
                             /\ want'[a] = want[a]
  PROVE  IInv'
<1>1. HoldersTypeOK'
  BY DEF IInv, HoldersTypeOK
<1>2. HoldsWhileCalling'
  BY DEF IInv, HoldsWhileCalling
<1>3. JoinsAlive'
  BY DEF IInv, JoinsAlive, HoldersTypeOK
<1>4. HeldIsAlive'
  <2>1. ASSUME NEW h \in Host, pool'[h] # None
        PROVE  conn'[pool'[h]] # "unused" /\ host'[pool'[h]] = h
    BY <2>1 DEF IInv, HoldersTypeOK, AliveIffHeld, HeldIsAlive
  <2>2. ASSUME NEW a \in Actor, local'[a] # None
        PROVE  conn'[local'[a]] # "unused" /\ host'[local'[a]] = want'[a]
    BY <2>2 DEF IInv, HoldersTypeOK, AliveIffHeld, HeldIsAlive
  <2> QED  BY <2>1, <2>2 DEF HeldIsAlive
<1>5. DestroyedIsUnheld'
  BY DEF IInv, AliveIffHeld, DestroyedIsUnheld, HeldBesides, Holding
<1>6. NoneLeaked'
  BY DEF IInv, AliveIffHeld, NoneLeaked, HeldBesides
<1> QED  BY <1>1, <1>2, <1>3, <1>4, <1>5, <1>6 DEF IInv, AliveIffHeld
-----------------------------------------------------------------------------
(* The actions that only move an actor or a connection.                     *)

LEMMA MoveActions ==
  ASSUME IInv,
         \/ \E a \in Actor : Ask(a) \/ Fail(a) \/ Use(a)
         \/ \E a \in Actor, h \in Host : Choose(a, h) \/ Store(a, h)
         \/ OnAnswer \/ OnOnline
         \/ \E c \in Client : Connected(c) \/ Closed(c)
         \/ \E h \in Host : Stop(h)
  PROVE  IInv'
<1> USE DEF IInv, HoldersTypeOK, HoldsWhileCalling, Holding
<1>1. ASSUME NEW a \in Actor, Ask(a) \/ Fail(a)
      PROVE  IInv'
  BY <1>1, MovesIInv DEF Ask, Fail, Goto, PC, clientVars, cacheVars
<1>2. ASSUME NEW a \in Actor, Use(a)
      PROVE  IInv'
  BY <1>2, MovesIInv DEF Use, Goto, PC
<1>3. ASSUME NEW a \in Actor, NEW h \in Host, Choose(a, h) \/ Store(a, h)
      PROVE  IInv'
  BY <1>3, MovesIInv DEF Choose, Store, Goto, PC, clientVars
<1>4. CASE OnOnline
  BY <1>4, UnchangedIInv DEF OnOnline, holderVars, clientVars, callVars
<1>5. CASE OnAnswer
  <2>1. UNCHANGED <<pool, host, conn, want, local, joins>>
    BY <1>5 DEF OnAnswer, clientVars
  <2>2. CASE pc' = pc
    BY <2>1, <2>2, UnchangedIInv DEF holderVars
  <2>3. CASE \E a : Goto(a, "asking", "answered")
    BY <2>1, <2>3, MovesIInv DEF Goto, PC
  <2> QED  BY <1>5, <2>2, <2>3 DEF OnAnswer
<1>6. ASSUME NEW c \in Client, Connected(c) \/ Closed(c)
      PROVE  IInv'
  BY <1>6, MovesIInv DEF Connected, Closed, callVars, ConnState
<1>7. ASSUME NEW h \in Host, Stop(h)
      PROVE  IInv'
  BY <1>7, MovesIInv DEF Stop, callVars, ConnState
<1> QED  BY <1>1, <1>2, <1>3, <1>4, <1>5, <1>6, <1>7

-----------------------------------------------------------------------------
(* The actions that take hold of a client or let it go.                     *)

LEMMA GetIInv == ASSUME IInv, NEW a \in Actor, Get(a) PROVE IInv'
<1> DEFINE c == pool[want[a]]
<1> USE DEF IInv, HoldersTypeOK, HoldsWhileCalling, Holding, AliveIffHeld
<1>1. /\ pc[a] = "get" /\ pc' = [pc EXCEPT ![a] = "use"] /\ local' = [local EXCEPT ![a] = c]
      /\ want[a] \in Host /\ local[a] = None
      /\ c \in Client /\ c # None /\ joins = None
      /\ UNCHANGED <<pool, host, conn, want, joins>>
  BY NoneIsNobody DEF Get, Goto, MutexesFree, clientVars
<1>2. HoldersTypeOK' /\ HoldsWhileCalling' /\ JoinsAlive'
  BY <1>1 DEF PC, JoinsAlive
<1>3. HeldIsAlive'
  BY <1>1 DEF HeldIsAlive
<1>4. DestroyedIsUnheld'
  BY <1>1 DEF DestroyedIsUnheld, HeldBesides
<1>5. NoneLeaked'
  BY <1>1, NoneIsNobody DEF NoneLeaked, HeldBesides
<1> QED  BY <1>2, <1>3, <1>4, <1>5

LEMMA NewIInv == ASSUME IInv, NEW a \in Actor, New(a) PROVE IInv'
<1> USE DEF IInv, HoldersTypeOK, HoldsWhileCalling, Holding, AliveIffHeld
<1>1. PICK c \in Client :
        /\ conn[c] = "unused" /\ local' = [local EXCEPT ![a] = c]
        /\ host' = [host EXCEPT ![c] = want[a]] /\ conn' = [conn EXCEPT ![c] = "connecting"]
  BY DEF New
<1>2. /\ pc[a] = "get" /\ pc' = [pc EXCEPT ![a] = "connecting"]
      /\ want[a] \in Host /\ local[a] = None /\ joins = None
      /\ UNCHANGED <<pool, want, joins>>
  BY DEF New, Goto, MutexesFree
<1>3. HoldersTypeOK' /\ HoldsWhileCalling' /\ JoinsAlive'
  BY <1>1, <1>2, NoneIsNobody DEF PC, ConnState, JoinsAlive
<1>4. HeldIsAlive'
  BY <1>1, <1>2 DEF HeldIsAlive
<1>5. DestroyedIsUnheld'
  BY <1>1, <1>2, NoneIsNobody DEF DestroyedIsUnheld, HeldBesides, HeldIsAlive
<1>6. NoneLeaked'
  BY <1>1, <1>2, NoneIsNobody DEF NoneLeaked, HeldBesides
<1> QED  BY <1>3, <1>4, <1>5, <1>6

LEMMA PutIInv == ASSUME IInv, NEW a \in Actor, Put(a) PROVE IInv'
<1> USE DEF IInv, HoldersTypeOK, HoldsWhileCalling, Holding, AliveIffHeld
<1>1. /\ pc[a] = "connecting" /\ pc' = [pc EXCEPT ![a] = "use"]
      /\ Insert(want[a], local[a])
      /\ want[a] \in Host /\ local[a] \in Client /\ local[a] # None /\ joins = None
      /\ UNCHANGED <<host, conn, want, local, joins>>
  BY DEF Put, Goto, MutexesFree, clientVars
<1>2. \A h \in Host : pool'[h] = pool[h] \/ (pool[h] = None /\ h = want[a] /\ pool'[h] = local[a])
  BY <1>1 DEF Insert
<1>3. HoldersTypeOK' /\ HoldsWhileCalling' /\ JoinsAlive'
  BY <1>1 DEF Insert, PC, JoinsAlive
<1>4. HeldIsAlive'
  BY <1>1, <1>2 DEF HeldIsAlive
<1>5. DestroyedIsUnheld'
  BY <1>1, <1>2 DEF DestroyedIsUnheld, HeldBesides
<1>6. NoneLeaked'
  BY <1>1, <1>2, NoneIsNobody DEF NoneLeaked, HeldBesides
<1> QED  BY <1>3, <1>4, <1>5, <1>6

LEMMA ReleaseIInv == ASSUME IInv, NEW a \in Actor, Release(a) PROVE IInv'
<1> USE DEF IInv, HoldersTypeOK, HoldsWhileCalling, Holding, AliveIffHeld
<1>1. pc[a] = "release" /\ UNCHANGED <<pool, host, conn, joins>>
  BY DEF Release, Goto, clientVars
<1>2. CASE HeldBesides(a, local[a])
  <2>1. /\ pc' = [pc EXCEPT ![a] = "idle"]
        /\ want' = [want EXCEPT ![a] = None] /\ local' = [local EXCEPT ![a] = None]
    BY <1>2 DEF Release, Goto
  <2>2. HoldersTypeOK' /\ HoldsWhileCalling' /\ JoinsAlive'
    BY <1>1, <2>1 DEF PC, JoinsAlive
  <2>3. HeldIsAlive'
    BY <1>1, <2>1 DEF HeldIsAlive
  <2>4. DestroyedIsUnheld'
    BY <1>1, <2>1, NoneIsNobody DEF DestroyedIsUnheld, HeldBesides
  <2>5. NoneLeaked'
    <3>1. SUFFICES ASSUME NEW c \in Client, conn[c] # "unused", joins # c
                   PROVE  HeldBesides(None, c)'
      BY <1>1 DEF NoneLeaked
    <3>2. CASE c = local[a]
      BY <1>1, <1>2, <2>1, <3>2, NoneIsNobody DEF HeldBesides
    <3>3. CASE c # local[a]
      BY <1>1, <2>1, <3>1, <3>3, NoneIsNobody DEF NoneLeaked, HeldBesides
    <3> QED  BY <3>2, <3>3
  <2> QED  BY <2>2, <2>3, <2>4, <2>5
<1>3. CASE ~HeldBesides(a, local[a])
  <2>1. pc' = [pc EXCEPT ![a] = "joining"] /\ UNCHANGED <<want, local>>
    BY <1>3 DEF Release, Goto
  <2>2. HoldersTypeOK' /\ HoldsWhileCalling' /\ JoinsAlive'
    BY <1>1, <2>1 DEF PC, JoinsAlive
  <2>3. HeldIsAlive'
    BY <1>1, <2>1 DEF HeldIsAlive
  <2>4. DestroyedIsUnheld'
    BY <1>1, <1>3, <2>1 DEF DestroyedIsUnheld, HeldBesides
  <2>5. NoneLeaked'
    BY <1>1, <2>1 DEF NoneLeaked, HeldBesides
  <2> QED  BY <2>2, <2>3, <2>4, <2>5
<1> QED  BY <1>2, <1>3

LEMMA JoinedIInv == ASSUME IInv, NEW a \in Actor, Joined(a) PROVE IInv'
<1> USE DEF IInv, HoldersTypeOK, HoldsWhileCalling, Holding, AliveIffHeld
<1> DEFINE c == local[a]
<1>1. /\ pc[a] = "joining" /\ pc' = [pc EXCEPT ![a] = "idle"]
      /\ conn' = [conn EXCEPT ![c] = "unused"] /\ host' = [host EXCEPT ![c] = None]
      /\ want' = [want EXCEPT ![a] = None] /\ local' = [local EXCEPT ![a] = None]
      /\ c \in Client /\ UNCHANGED <<pool, joins>>
  BY DEF Joined, Goto, Destroy
<1>2. (\A h \in Host : pool[h] # c) /\ (\A b \in Actor \ {a} : local[b] # c) /\ joins # c
  BY <1>1, NoneIsNobody DEF DestroyedIsUnheld, HeldBesides
<1>3. HoldersTypeOK' /\ HoldsWhileCalling' /\ JoinsAlive'
  BY <1>1, <1>2 DEF PC, ConnState, JoinsAlive
<1>4. HeldIsAlive'
  BY <1>1, <1>2 DEF HeldIsAlive
<1>5. DestroyedIsUnheld'
  BY <1>1, <1>2, NoneIsNobody DEF DestroyedIsUnheld, HeldBesides
<1>6. NoneLeaked'
  BY <1>1, <1>2, NoneIsNobody DEF NoneLeaked, HeldBesides
<1> QED  BY <1>3, <1>4, <1>5, <1>6

LEMMA OnOfflineIInv == ASSUME IInv, OnOffline PROVE IInv'
<1> USE DEF IInv, HoldersTypeOK, HoldsWhileCalling, Holding, AliveIffHeld
<1>1. joins = None /\ UNCHANGED <<host, conn, pc, want, local>>
  BY DEF OnOffline, Incoming, MutexesFree, clientVars, callVars
<1>2. CASE UNCHANGED <<pool, joins>>
  BY <1>1, <1>2, UnchangedIInv DEF holderVars
<1>3. ASSUME NEW h \in Host, RemoveRpcClient(h)
      PROVE  IInv'
  <2>1. pool' = [pool EXCEPT ![h] = None]
    BY <1>3 DEF RemoveRpcClient
  <2>2. CASE \E a \in Actor : local[a] = pool[h]
    <3>1. joins' = None
      BY <1>3, <2>2 DEF RemoveRpcClient
    <3>2. HoldersTypeOK' /\ HoldsWhileCalling' /\ JoinsAlive'
      BY <1>1, <2>1, <3>1 DEF JoinsAlive
    <3>3. HeldIsAlive' /\ DestroyedIsUnheld'
      BY <1>1, <2>1, <3>1 DEF HeldIsAlive, DestroyedIsUnheld, HeldBesides
    <3>4. NoneLeaked'
      BY <1>1, <2>1, <2>2, NoneIsNobody DEF NoneLeaked, HeldBesides
    <3> QED  BY <3>2, <3>3, <3>4
  <2>3. CASE ~\E a \in Actor : local[a] = pool[h]
    <3>1. joins' = pool[h]
      BY <1>3, <2>3 DEF RemoveRpcClient
    <3>2. HoldersTypeOK' /\ HoldsWhileCalling' /\ JoinsAlive'
      BY <1>1, <2>1, <3>1 DEF JoinsAlive, HeldIsAlive
    <3>3. HeldIsAlive'
      BY <1>1, <2>1 DEF HeldIsAlive
    <3>4. DestroyedIsUnheld'
      BY <1>1, <2>1, <2>3, <3>1, NoneIsNobody DEF HeldIsAlive, DestroyedIsUnheld, HeldBesides
    <3>5. NoneLeaked'
      BY <1>1, <2>1, <3>1 DEF NoneLeaked, HeldBesides
    <3> QED  BY <3>2, <3>3, <3>4, <3>5
  <2> QED  BY <2>2, <2>3
<1> QED  BY <1>2, <1>3 DEF OnOffline

LEMMA RegistryJoinedIInv == ASSUME IInv, RegistryJoined PROVE IInv'
<1> USE DEF IInv, HoldersTypeOK, HoldsWhileCalling, Holding, AliveIffHeld
<1>1. /\ joins \in Client /\ joins' = None
      /\ conn' = [conn EXCEPT ![joins] = "unused"] /\ host' = [host EXCEPT ![joins] = None]
      /\ UNCHANGED <<pool, pc, want, local>>
  BY DEF RegistryJoined, Destroy, callVars
<1>2. (\A h \in Host : pool[h] # joins) /\ (\A b \in Actor : local[b] # joins)
  BY <1>1, NoneIsNobody DEF DestroyedIsUnheld, HeldBesides
<1>3. HoldersTypeOK' /\ HoldsWhileCalling' /\ JoinsAlive'
  BY <1>1 DEF ConnState, JoinsAlive
<1>4. HeldIsAlive'
  BY <1>1, <1>2 DEF HeldIsAlive
<1>5. DestroyedIsUnheld'
  BY <1>1 DEF DestroyedIsUnheld, HeldBesides
<1>6. NoneLeaked'
  BY <1>1, <1>2 DEF NoneLeaked, HeldBesides
<1> QED  BY <1>3, <1>4, <1>5, <1>6

-----------------------------------------------------------------------------
LEMMA NextIInv == IInv /\ [Next]_vars => IInv'
<1> SUFFICES ASSUME IInv, [Next]_vars PROVE IInv'
  OBVIOUS
<1>1. CASE UNCHANGED vars
  BY <1>1, UnchangedIInv DEF vars, holderVars, clientVars, callVars
<1>2. ASSUME NEW a \in Actor, Ending(a) PROVE IInv'
  BY <1>2, UnchangedIInv DEF Ending, UseNull, JoinSelf, holderVars, clientVars, callVars
<1>3. ASSUME NEW a \in Actor, Call(a) PROVE IInv'
  BY <1>3, MoveActions DEF Call
<1>4. ASSUME NEW a \in Actor, CallStep(a) PROVE IInv'
  BY <1>4, MoveActions, GetIInv, NewIInv, PutIInv, ReleaseIInv, JoinedIInv DEF CallStep
<1>5. ASSUME RegistryStep PROVE IInv'
  BY <1>5, MoveActions, OnOfflineIInv, RegistryJoinedIInv DEF RegistryStep
<1>6. ASSUME NEW c \in Client, Connected(c) \/ Closed(c) PROVE IInv'
  BY <1>6, MoveActions
<1>7. ASSUME NEW c \in Client,
             ReturnCallback(c) \/ RunCallback(c) \/ Arrive(c) \/ ComeToCall(c)
      PROVE  IInv'
  BY <1>7, UnchangedIInv
     DEF ReturnCallback, RunCallback, Arrive, ComeToCall, holderVars, callVars
<1>8. ASSUME NEW h \in Host, Announce(h) \/ Start(h) PROVE IInv'
  BY <1>8, UnchangedIInv DEF Announce, Start, holderVars, clientVars, callVars
<1>9. ASSUME NEW h \in Host, Stop(h) PROVE IInv'
  BY <1>9, MoveActions
<1> QED  BY <1>1, <1>2, <1>3, <1>4, <1>5, <1>6, <1>7, <1>8, <1>9 DEF Next, IoStep

\* A client lives exactly as long as the pool, a call or a destructor has hold
\* of it, whatever is discovered, called, notified and closed in which order
\* (rpc_client.hpp:155-201).
THEOREM ClientsLiveWhileHeld == Spec => []AliveIffHeld
<1>1. IInv => AliveIffHeld
  BY DEF IInv
<1> QED  BY <1>1, InitIInv, NextIInv, PTL DEF Spec

-----------------------------------------------------------------------------
(* The pool follows the notices.  The notice that a host has gone is under  *)
(* way before the client's connections to it are seen closed, because the   *)
(* registry knows the client from the first host the client was given; and  *)
(* a call that connects while the notice is handled is marked as overtaken. *)

Notice == [op : {"answer", "on", "off"}, hosts : SUBSET Host, to : Actor \cup {None}]

NoticesTypeOK ==
  /\ notices \in Seq(Notice)
  /\ \A i \in DOMAIN notices :
       notices[i].op = "off" => \E h \in Host : notices[i].hosts = {h}
  /\ asked \in BOOLEAN /\ known \in BOOLEAN
  /\ cached \in SUBSET Host
  /\ late \in SUBSET Host
  /\ got \in [Actor -> SUBSET Host]
  /\ overtaken \in [Actor -> SUBSET Host]

\* The client asked the registry before it was given a host.
AskedFirst ==
  /\ known \/ notices # <<>> => asked
  /\ cached # {} => known
  /\ \A h \in Host : pool[h] # None => known
  /\ \A a \in Actor : /\ pc[a] # "idle" => asked
                      /\ pc[a] \in Holding \cup {"get"} => known

PooledWasUp == \A h \in Host : pool[h] # None => conn[pool[h]] # "connecting"

\* A call whose connection is closed before the client is in the pool.
CallersBehind ==
  \A a \in Actor :
    pc[a] = "connecting" /\ conn[local[a]] \in {"closing", "dead"}
      => want[a] \in overtaken[a] \/ OffPending(want[a])

PInv == NoticesTypeOK /\ AskedFirst /\ PooledWasUp /\ CallersBehind /\ PoolFollowsNotices

LEMMA InitPInv == Init => PInv
<1>1. SUFFICES ASSUME Init PROVE PInv
  OBVIOUS
<1>2. NoticesTypeOK
  <2>1. notices = <<>> /\ DOMAIN notices = {}
    BY <1>1 DEF Init
  <2>2. notices \in Seq(Notice)
    BY <2>1
  <2>3. /\ asked \in BOOLEAN /\ known \in BOOLEAN
        /\ cached \in SUBSET Host /\ late \in SUBSET Host
        /\ got \in [Actor -> SUBSET Host] /\ overtaken \in [Actor -> SUBSET Host]
    BY <1>1 DEF Init
  <2> QED  BY <2>1, <2>2, <2>3 DEF NoticesTypeOK
<1>3. AskedFirst
  BY <1>1 DEF Init, AskedFirst, Holding
<1>4. PooledWasUp /\ CallersBehind /\ PoolFollowsNotices
  BY <1>1 DEF Init, PooledWasUp, CallersBehind, PoolFollowsNotices
<1> QED  BY <1>2, <1>3, <1>4 DEF PInv

-----------------------------------------------------------------------------
(* What happens to the notices under way.                                   *)

LEMMA TailNotices ==
  ASSUME NoticesTypeOK, notices # <<>>, notices' = Tail(notices),
         UNCHANGED <<asked>>, known' \in BOOLEAN, cached' \in SUBSET Host,
         late' \in SUBSET Host, got' \in [Actor -> SUBSET Host],
         overtaken' \in [Actor -> SUBSET Host]
  PROVE  /\ NoticesTypeOK'
         /\ \A h \in Host : OffPending(h) /\ ~(Head(notices).op = "off" /\ h \in Noticed)
              => OffPending(h)'
<1>1. /\ Len(notices) \in Nat /\ Len(notices) # 0
      /\ DOMAIN notices = 1..Len(notices) /\ DOMAIN Tail(notices) = 1..(Len(notices) - 1)
      /\ \A i \in 1..(Len(notices) - 1) : Tail(notices)[i] = notices[i + 1]
      /\ Head(notices) = notices[1]
  BY DEF NoticesTypeOK
<1>2. NoticesTypeOK'
  <2>1. notices' \in Seq(Notice)
    BY DEF NoticesTypeOK
  <2>2. ASSUME NEW i \in DOMAIN notices', notices'[i].op = "off"
        PROVE  \E h \in Host : notices'[i].hosts = {h}
    <3>1. i + 1 \in DOMAIN notices /\ notices'[i] = notices[i + 1]
      BY <1>1, <2>2
    <3> QED  BY <2>2, <3>1 DEF NoticesTypeOK
  <2> QED  BY <2>1, <2>2 DEF NoticesTypeOK
<1>3. ASSUME NEW h \in Host, NEW i \in DOMAIN notices,
             notices[i].op = "off" /\ h \in notices[i].hosts,
             ~(Head(notices).op = "off" /\ h \in Noticed)
      PROVE  OffPending(h)'
  <2>1. i # 1
    BY <1>1, <1>3 DEF Noticed
  <2>2. i - 1 \in DOMAIN notices' /\ notices'[i - 1] = notices[i]
    BY <1>1, <2>1
  <2> QED  BY <1>3, <2>2 DEF OffPending
<1> QED  BY <1>2, <1>3 DEF OffPending

LEMMA AppendNotice ==
  ASSUME NoticesTypeOK, NEW m, notices' = Append(notices, m),
         m \in Notice,
         m.op = "off" => \E h \in Host : m.hosts = {h},
         UNCHANGED <<known, cached, late, got>>, asked' \in BOOLEAN,
         overtaken' \in [Actor -> SUBSET Host]
  PROVE  /\ NoticesTypeOK' /\ notices' # <<>>
         /\ \A h \in Host : OffPending(h) \/ (m.op = "off" /\ h \in m.hosts) => OffPending(h)'
<1>1. /\ Len(notices) \in Nat /\ DOMAIN notices = 1..Len(notices)
      /\ DOMAIN notices' = 1..(Len(notices) + 1)
      /\ \A i \in 1..Len(notices) : notices'[i] = notices[i]
      /\ notices'[Len(notices) + 1] = m
  BY DEF NoticesTypeOK
<1>2. NoticesTypeOK'
  BY <1>1 DEF NoticesTypeOK
<1>3. Len(notices) + 1 \in DOMAIN notices' /\ DOMAIN notices \subseteq DOMAIN notices'
  BY <1>1
<1> QED  BY <1>1, <1>2, <1>3 DEF OffPending

\* What an answer for a that gave up leaves.
LEMMA FailNotices ==
  ASSUME NoticesTypeOK, NEW a \in Actor, Fail(a)
  PROVE  NoticesTypeOK' /\ (\A h \in Host : OffPending(h) => OffPending(h)')
<1>1. /\ DOMAIN notices' = DOMAIN notices
      /\ \A i \in DOMAIN notices :
           notices'[i] = IF notices[i].to = a THEN [notices[i] EXCEPT !.to = None] ELSE notices[i]
  BY DEF Fail
<1>2. /\ Len(notices) \in Nat /\ DOMAIN notices = 1..Len(notices)
      /\ \A i \in DOMAIN notices : notices[i] \in Notice
  BY DEF NoticesTypeOK
<1>3. \A i \in DOMAIN notices :
        /\ notices'[i] \in Notice
        /\ notices'[i].op = notices[i].op /\ notices'[i].hosts = notices[i].hosts
  BY <1>1, <1>2 DEF Notice
<1>4. notices' \in Seq(Notice)
  <2>1. notices' = [i \in 1..Len(notices) |-> notices'[i]]
    BY <1>2 DEF Fail
  <2>2. \A n \in Nat : \A f : (\A i \in 1..n : f[i] \in Notice) => [i \in 1..n |-> f[i]] \in Seq(Notice)
    OBVIOUS
  <2> QED  BY <1>2, <1>3, <2>1, <2>2
<1>5. UNCHANGED <<asked, known, cached, late, got>>
  BY DEF Fail, cacheVars
<1>6. overtaken' \in [Actor -> SUBSET Host]
  BY DEF Fail, NoticesTypeOK
<1>7. NoticesTypeOK'
  BY <1>1, <1>3, <1>4, <1>5, <1>6 DEF NoticesTypeOK
<1> QED  BY <1>1, <1>3, <1>7 DEF OffPending

-----------------------------------------------------------------------------
\* Nobody begins to wait for a connection unless it is being made, and nobody
\* is given a host that the registry does not know of.
ActorsQuiet ==
  \A a \in Actor :
    /\ pc'[a] # "idle" => asked'
    /\ pc'[a] \in Holding \cup {"get"} => known'
    /\ pc'[a] = "connecting" =>
         \/ conn'[local'[a]] = "connecting"
         \/ /\ pc[a] = "connecting" /\ local'[a] = local[a]
            /\ want'[a] = want[a] /\ overtaken'[a] = overtaken[a]

\* No connection that is up is closed by its provider.
ConnectionsQuiet ==
  \A c \in Client : \/ conn'[c] = conn[c] \/ conn'[c] \in {"up", "lost", "unused"}
                    \/ conn[c] = "closing" /\ conn'[c] = "dead"
                    \/ conn[c] = "unused" /\ conn'[c] = "connecting"

NoticesKept == \A h \in Host : OffPending(h) => OffPending(h)'

\* A step that puts no client into the pool, closes no connection that is up
\* with its provider, and handles no notice that a host has gone.
LEMMA QuietPInv ==
  ASSUME IInv, PInv, IInv', NoticesTypeOK', NoticesKept, pool' = pool, late' = late,
         known => known', cached' # {} => known', known' \/ notices' # <<>> => asked',
         ActorsQuiet, ConnectionsQuiet
  PROVE  PInv'
<1> USE DEF ActorsQuiet, ConnectionsQuiet
<1>1. AskedFirst'
  BY DEF PInv, AskedFirst
<1>2. PooledWasUp'
  BY DEF PInv, PooledWasUp, IInv, HoldersTypeOK, AliveIffHeld, HeldIsAlive
<1>3. CallersBehind'
  <2>1. SUFFICES ASSUME NEW a \in Actor, pc'[a] = "connecting",
                        conn'[local'[a]] \in {"closing", "dead"}
                 PROVE  (want[a] \in overtaken[a] \/ OffPending(want[a]))'
    BY DEF CallersBehind
  <2>2. /\ pc[a] = "connecting" /\ local'[a] = local[a]
        /\ want'[a] = want[a] /\ overtaken'[a] = overtaken[a]
    BY <2>1
  <2>3. local[a] \in Client /\ want[a] \in Host
    BY <2>2 DEF IInv, HoldersTypeOK, HoldsWhileCalling, Holding
  <2>4. conn[local[a]] \in {"closing", "dead"}
    BY <2>1, <2>2, <2>3
  <2>5. want[a] \in overtaken[a] \/ OffPending(want[a])
    BY <2>2, <2>4 DEF PInv, CallersBehind
  <2>6. CASE want[a] \in overtaken[a]
    BY <2>2, <2>6
  <2>7. CASE OffPending(want[a])
    <3>1. \A h \in Host : h = want[a] => OffPending(h)'
      BY <2>7 DEF NoticesKept
    <3> QED  BY <2>2, <2>3, <3>1 DEF OffPending
  <2> QED  BY <2>5, <2>6, <2>7
<1>4. PoolFollowsNotices'
  <2>1. SUFFICES ASSUME NEW h \in Host, pool'[h] # None, conn'[pool'[h]] \notin {"up", "lost"}
                 PROVE  h \in late' \/ OffPending(h)'
    BY DEF PoolFollowsNotices
  <2>2. pool[h] \in Client /\ pool'[h] = pool[h] /\ pool[h] # None
    BY <2>1 DEF IInv, HoldersTypeOK
  <2>3. conn'[pool[h]] # "unused" /\ conn[pool[h]] # "unused"
    BY <2>1, <2>2 DEF IInv, AliveIffHeld, HeldIsAlive
  <2>4. conn[pool[h]] \notin {"up", "lost"}
    BY <2>1, <2>2, <2>3
  <2>5. h \in late \/ OffPending(h)
    BY <2>2, <2>4 DEF PInv, PoolFollowsNotices
  <2> QED  BY <2>5 DEF NoticesKept
<1> QED  BY <1>1, <1>2, <1>3, <1>4 DEF PInv

\* A step that leaves the registry's messages and the cache alone.
LEMMA CalmPInv ==
  ASSUME IInv, PInv, IInv', UNCHANGED <<notices, asked, cacheVars, pool, late, got>>,
         overtaken' \in [Actor -> SUBSET Host], ActorsQuiet, ConnectionsQuiet
  PROVE  PInv'
<1>1. NoticesTypeOK'
  BY DEF PInv, NoticesTypeOK, cacheVars
<1>2. NoticesKept
  BY DEF NoticesKept, OffPending
<1>3. pool' = pool /\ late' = late /\ known' = known
  BY DEF cacheVars
<1>4. (cached' # {} => known') /\ (known' \/ notices' # <<>> => asked')
  BY DEF PInv, AskedFirst, cacheVars
<1> QED  BY <1>1, <1>2, <1>3, <1>4, QuietPInv

-----------------------------------------------------------------------------
LEMMA CallPInv ==
  ASSUME IInv, PInv, IInv', NEW a \in Actor,
         Get(a) \/ New(a) \/ Use(a) \/ Release(a) \/ Joined(a) \/ \E h \in Host : Choose(a, h)
  PROVE  PInv'
<1> USE DEF PInv, AskedFirst, NoticesTypeOK, IInv, HoldersTypeOK, Holding
<1>1. UNCHANGED <<notices, asked, cacheVars, pool, late, got>>
  BY DEF Get, New, Use, Release, Joined, Choose, registryVars, callVars
<1>2. overtaken' \in [Actor -> SUBSET Host]
  BY DEF Get, New, Use, Release, Joined, Choose
<1>3. CASE Get(a)
  <2>1. ActorsQuiet /\ ConnectionsQuiet
    BY <1>1, <1>3 DEF Get, Goto, ActorsQuiet, ConnectionsQuiet, clientVars, cacheVars
  <2> QED  BY <1>1, <1>2, <2>1, CalmPInv
<1>4. CASE New(a)
  <2>1. PICK c \in Client : /\ conn[c] = "unused" /\ local' = [local EXCEPT ![a] = c]
                            /\ conn' = [conn EXCEPT ![c] = "connecting"]
    BY <1>4 DEF New
  <2>2. ActorsQuiet /\ ConnectionsQuiet
    BY <1>1, <1>4, <2>1 DEF New, Goto, ActorsQuiet, ConnectionsQuiet, cacheVars
  <2> QED  BY <1>1, <1>2, <2>2, CalmPInv
<1>5. CASE Use(a)
  <2>1. ActorsQuiet /\ ConnectionsQuiet
    BY <1>1, <1>5 DEF Use, Goto, ActorsQuiet, ConnectionsQuiet, cacheVars
  <2> QED  BY <1>1, <1>2, <2>1, CalmPInv
<1>6. CASE Release(a)
  <2>1. ActorsQuiet /\ ConnectionsQuiet
    BY <1>1, <1>6 DEF Release, Goto, ActorsQuiet, ConnectionsQuiet, clientVars, cacheVars
  <2> QED  BY <1>1, <1>2, <2>1, CalmPInv
<1>7. CASE Joined(a)
  <2>1. ActorsQuiet /\ ConnectionsQuiet
    BY <1>1, <1>7 DEF Joined, Destroy, Goto, ActorsQuiet, ConnectionsQuiet, cacheVars
  <2> QED  BY <1>1, <1>2, <2>1, CalmPInv
<1>8. CASE \E h \in Host : Choose(a, h)
  <2>1. ActorsQuiet /\ ConnectionsQuiet
    BY <1>1, <1>8 DEF Choose, Goto, ActorsQuiet, ConnectionsQuiet, cacheVars
  <2> QED  BY <1>1, <1>2, <2>1, CalmPInv
<1> QED  BY <1>3, <1>4, <1>5, <1>6, <1>7, <1>8

\* The steps of the IO threads, the ends of the process and the start of a
\* provider.
LEMMA OtherPInv ==
  ASSUME IInv, PInv, IInv',
         \/ RegistryJoined \/ UNCHANGED vars
         \/ \E a \in Actor : Ending(a)
         \/ \E c \in Client : IoStep(c) \/ RunCallback(c) \/ Arrive(c) \/ ComeToCall(c) \/ Closed(c)
         \/ \E h \in Host : Start(h)
  PROVE  PInv'
<1> USE DEF PInv, AskedFirst, NoticesTypeOK, IInv, HoldersTypeOK
<1>1. UNCHANGED <<notices, asked, cacheVars, pool, late, got, overtaken, pc, want, local>>
  BY DEF RegistryJoined, vars, Ending, UseNull, JoinSelf, IoStep, ReturnCallback, Connected,
         RunCallback, Arrive, ComeToCall, Closed, Start, registryVars, callVars
<1>2. ConnectionsQuiet
  BY DEF RegistryJoined, Destroy, vars, Ending, UseNull, JoinSelf, IoStep, ReturnCallback,
         Connected, RunCallback, Arrive, ComeToCall, Closed, Start, clientVars, ConnectionsQuiet
<1>3. ActorsQuiet
  BY <1>1 DEF ActorsQuiet, cacheVars
<1> QED  BY <1>1, <1>2, <1>3, CalmPInv

\* The steps that give the client a host, or the registry a question.
LEMMA AskStorePInv ==
  ASSUME IInv, PInv, IInv', NEW a \in Actor, Ask(a) \/ Fail(a) \/ \E h \in Host : Store(a, h)
  PROVE  PInv'
<1> USE DEF PInv, AskedFirst, IInv, HoldersTypeOK, Holding
<1>1. CASE Ask(a)
  <2> DEFINE m == Message("answer", {h \in Host : provider[h] # "off"}, a)
  <2>1. notices' = Append(notices, m) /\ m \in Notice /\ m.op # "off"
    BY <1>1 DEF Ask, Message, Notice
  <2>2. /\ UNCHANGED <<known, cached, late, got, overtaken, pool, conn, want, local>>
        /\ asked' = TRUE /\ pc' = [pc EXCEPT ![a] = "asking"]
    BY <1>1 DEF Ask, cacheVars, Goto
  <2> HIDE DEF m
  <2>3. NoticesTypeOK' /\ NoticesKept
    BY <2>1, <2>2, AppendNotice DEF NoticesKept, NoticesTypeOK
  <2>4. ActorsQuiet /\ ConnectionsQuiet
    BY <2>2 DEF ActorsQuiet, ConnectionsQuiet
  <2> QED  BY <2>2, <2>3, <2>4, QuietPInv
<1>2. CASE Fail(a)
  <2>1. NoticesTypeOK' /\ NoticesKept
    BY <1>2, FailNotices DEF NoticesKept
  <2>2. /\ UNCHANGED <<known, cached, asked, late, pool, conn, want, local>>
        /\ pc' = [pc EXCEPT ![a] = "idle"]
        /\ overtaken' = [overtaken EXCEPT ![a] = {}] /\ pc[a] # "idle"
    BY <1>2 DEF Fail, cacheVars, clientVars
  <2>3. ActorsQuiet /\ ConnectionsQuiet
    BY <2>2 DEF ActorsQuiet, ConnectionsQuiet, NoticesTypeOK
  <2> QED  BY <2>1, <2>2, <2>3, QuietPInv
<1>3. ASSUME NEW h \in Host, Store(a, h)
      PROVE  PInv'
  <2>1. /\ UNCHANGED <<notices, asked, late, pool, conn, local, overtaken>>
        /\ known' = TRUE /\ cached' = got[a] /\ got' = [got EXCEPT ![a] = {}]
        /\ pc[a] = "answered" /\ pc' = [pc EXCEPT ![a] = "get"]
        /\ want' = [want EXCEPT ![a] = h]
    BY <1>3 DEF Store, registryVars, clientVars, Goto
  <2>2. NoticesTypeOK' /\ NoticesKept
    BY <2>1 DEF NoticesTypeOK, NoticesKept, OffPending
  <2>3. ActorsQuiet /\ ConnectionsQuiet
    BY <2>1 DEF ActorsQuiet, ConnectionsQuiet
  <2>4. asked'
    BY <2>1
  <2> QED  BY <2>1, <2>2, <2>3, <2>4, QuietPInv
<1> QED  BY <1>1, <1>2, <1>3

\* The notices about a host that comes or goes, at the registry.
LEMMA NotifyPInv ==
  ASSUME NoticesTypeOK, NEW h \in Host, NEW op \in {"on", "off"}, Notify(op, h),
         UNCHANGED <<asked, known, cached, late, got, overtaken>>
  PROVE  /\ NoticesTypeOK' /\ NoticesKept
         /\ notices' # <<>> => notices # <<>> \/ asked
         /\ asked /\ op = "off" => OffPending(h)'
<1>1. CASE asked
  <2> DEFINE m == Message(op, {h}, None)
  <2>1. notices' = Append(notices, m) /\ m \in Notice /\ m.hosts = {h} /\ m.op = op
    BY <1>1 DEF Notify, Message, Notice
  <2> HIDE DEF m
  <2>2. asked' \in BOOLEAN /\ overtaken' \in [Actor -> SUBSET Host]
    BY DEF NoticesTypeOK
  <2> QED  BY <1>1, <2>1, <2>2, AppendNotice DEF NoticesKept
<1>2. CASE ~asked
  <2>1. notices' = notices
    BY <1>2 DEF Notify
  <2> QED  BY <1>2, <2>1 DEF NoticesTypeOK, NoticesKept, OffPending
<1> QED  BY <1>1, <1>2

LEMMA AnnouncePInv == ASSUME IInv, PInv, IInv', NEW h \in Host, Announce(h) PROVE PInv'
<1> USE DEF PInv, AskedFirst
<1>1. UNCHANGED <<asked, known, cached, pool, late, conn, pc, want, got, local, overtaken>>
  BY DEF Announce, cacheVars, clientVars, callVars
<1>2. /\ NoticesTypeOK' /\ NoticesKept
      /\ notices' # <<>> => notices # <<>> \/ asked
  BY <1>1, NotifyPInv DEF Announce
<1>3. ActorsQuiet /\ ConnectionsQuiet
  BY <1>1 DEF ActorsQuiet, ConnectionsQuiet
<1> QED  BY <1>1, <1>2, <1>3, QuietPInv

\* A provider goes: whoever has a connection to it has been given its host,
\* so the notice is on its way.
LEMMA StopPInv == ASSUME IInv, PInv, IInv', NEW h \in Host, Stop(h) PROVE PInv'
<1> USE DEF PInv, AskedFirst, IInv, HoldersTypeOK, HoldsWhileCalling, Holding
<1>1. UNCHANGED <<asked, known, cached, pool, late, host, pc, want, got, local, overtaken>>
  BY DEF Stop, cacheVars, callVars
<1>2. /\ NoticesTypeOK' /\ NoticesKept
      /\ notices' # <<>> => notices # <<>> \/ asked
      /\ asked => OffPending(h)'
  BY <1>1, NotifyPInv DEF Stop
<1>3. \A c \in Client : conn'[c] # conn[c] => host[c] = h /\ conn[c] = "up" /\ conn'[c] = "closing"
  BY DEF Stop
<1>4. AskedFirst'
  BY <1>1, <1>2
<1>5. PooledWasUp'
  BY <1>1, <1>3 DEF PooledWasUp
<1>6. CallersBehind'
  <2>1. SUFFICES ASSUME NEW a \in Actor, pc[a] = "connecting", conn'[local[a]] \in {"closing", "dead"}
                 PROVE  want[a] \in overtaken[a] \/ (\E g \in Host : g = want[a] /\ OffPending(g)')
    BY <1>1 DEF CallersBehind, OffPending
  <2>2. local[a] \in Client /\ want[a] \in Host /\ asked
    BY <2>1
  <2>3. CASE conn'[local[a]] = conn[local[a]]
    BY <2>1, <2>2, <2>3, <1>2 DEF CallersBehind, NoticesKept
  <2>4. CASE conn'[local[a]] # conn[local[a]]
    <3>1. want[a] = h
      BY <1>3, <2>1, <2>2, <2>4, NoneIsNobody DEF AliveIffHeld, HeldIsAlive
    <3> QED  BY <1>2, <2>2, <3>1
  <2> QED  BY <2>3, <2>4
<1>7. PoolFollowsNotices'
  <2>1. SUFFICES ASSUME NEW g \in Host, pool[g] # None, conn'[pool[g]] \notin {"up", "lost"}
                 PROVE  g \in late \/ OffPending(g)'
    BY <1>1 DEF PoolFollowsNotices, OffPending
  <2>2. pool[g] \in Client /\ host[pool[g]] = g /\ asked
    BY <2>1 DEF AliveIffHeld, HeldIsAlive
  <2>3. CASE conn'[pool[g]] = conn[pool[g]]
    BY <2>1, <2>2, <2>3, <1>2 DEF PoolFollowsNotices, NoticesKept
  <2>4. CASE conn'[pool[g]] # conn[pool[g]]
    BY <1>2, <1>3, <2>2, <2>4
  <2> QED  BY <2>3, <2>4
<1> QED  BY <1>2, <1>4, <1>5, <1>6, <1>7

\* The client is put into the pool: if its connection has been closed since,
\* the notice is still to come, or came while the call connected.
LEMMA PutPInv == ASSUME IInv, PInv, IInv', NEW a \in Actor, Put(a) PROVE PInv'
<1> USE DEF PInv, IInv, HoldersTypeOK, HoldsWhileCalling, Holding
<1>1. /\ UNCHANGED <<notices, asked, known, cached, conn, want, got, local, overtaken>>
      /\ pc[a] = "connecting" /\ pc' = [pc EXCEPT ![a] = "use"]
      /\ local[a] \in Client /\ want[a] \in Host /\ conn[local[a]] # "connecting"
      /\ Insert(want[a], local[a])
      /\ late' = IF pool[want[a]] = None /\ want[a] \in overtaken[a]
                   THEN late \cup {want[a]} ELSE late
  BY NoneIsNobody DEF Put, Goto, Latched, registryVars, cacheVars, clientVars
<1>2. \A h \in Host : pool'[h] = pool[h] \/ (pool[h] = None /\ h = want[a] /\ pool'[h] = local[a])
  BY <1>1 DEF Insert
<1>3. NoticesTypeOK' /\ (\A h : OffPending(h)' = OffPending(h))
  BY <1>1 DEF NoticesTypeOK, OffPending
<1>4. AskedFirst'
  BY <1>1, <1>2 DEF AskedFirst
<1>5. PooledWasUp'
  BY <1>1, <1>2 DEF PooledWasUp
<1>6. CallersBehind'
  BY <1>1 DEF CallersBehind, OffPending
<1>7. PoolFollowsNotices'
  <2>1. SUFFICES ASSUME NEW h \in Host, pool'[h] # None, conn[pool'[h]] \notin {"up", "lost"}
                 PROVE  h \in late' \/ OffPending(h)
    BY <1>1, <1>3 DEF PoolFollowsNotices
  <2>2. CASE pool'[h] = pool[h]
    BY <1>1, <2>1, <2>2 DEF PoolFollowsNotices
  <2>3. CASE pool[h] = None /\ h = want[a] /\ pool'[h] = local[a]
    <3>1. conn[local[a]] \in {"closing", "dead"}
      BY <1>1, <2>1, <2>3, NoneIsNobody DEF ConnState, AliveIffHeld, HeldIsAlive
    <3>2. want[a] \in overtaken[a] \/ OffPending(want[a])
      BY <1>1, <3>1 DEF CallersBehind
    <3> QED  BY <1>1, <2>3, <3>2
  <2> QED  BY <1>2, <2>2, <2>3
<1> QED  BY <1>3, <1>4, <1>5, <1>6, <1>7

\* An actor that gets an answer is the only one that moves.
LEMMA OnePasses ==
  ASSUME pc \in [Actor -> PC], pc' = pc \/ \E b : Goto(b, "asking", "answered"), NEW a \in Actor
  PROVE  pc'[a] = pc[a] \/ (pc[a] = "asking" /\ pc'[a] = "answered")
<1>1. ASSUME NEW b, Goto(b, "asking", "answered")
      PROVE  pc'[a] = pc[a] \/ (pc[a] = "asking" /\ pc'[a] = "answered")
  <2>1. pc' = [pc EXCEPT ![b] = "answered"] /\ pc[b] = "asking"
    BY <1>1 DEF Goto
  <2>2. CASE a = b
    BY <2>1, <2>2
  <2>3. CASE a # b
    BY <2>1, <2>3
  <2> QED  BY <2>2, <2>3
<1> QED  BY <1>1

\* The notice that is handled next.
LEMMA FirstNotice ==
  ASSUME NoticesTypeOK, notices # <<>>
  PROVE  /\ Noticed \in SUBSET Host
         /\ Head(notices).op = "off" => \E h \in Host : Noticed = {h}
<1>1. notices \in Seq(Notice) /\ notices # <<>>
  BY DEF NoticesTypeOK
<1>2. 1 \in DOMAIN notices /\ Head(notices) = notices[1] /\ notices[1] \in Notice
  BY <1>1
<1>3. notices[1].op = "off" => \E h \in Host : notices[1].hosts = {h}
  BY <1>2 DEF NoticesTypeOK
<1> QED  BY <1>2, <1>3 DEF Notice, Noticed

\* An answer comes in, or the notice that a host has come.
LEMMA ArrivalPInv == ASSUME IInv, PInv, IInv', OnAnswer \/ OnOnline PROVE PInv'
<1> USE DEF PInv, AskedFirst, IInv, HoldersTypeOK
<1>1. /\ UNCHANGED <<asked, pool, late, conn, want, local, overtaken>>
      /\ notices # <<>> /\ notices' = Tail(notices) /\ Head(notices).op # "off"
      /\ known => known'
  BY DEF OnAnswer, OnOnline, Incoming, cacheVars, clientVars, callVars
<1>2. Noticed \in SUBSET Host
  BY <1>1, FirstNotice
<1>3. known' \in BOOLEAN /\ cached' \in SUBSET Host /\ (cached' # {} => known')
  BY <1>2 DEF OnAnswer, OnOnline, cacheVars, NoticesTypeOK
<1>4. got' \in [Actor -> SUBSET Host]
  BY <1>2 DEF OnAnswer, OnOnline, callVars, NoticesTypeOK
<1>5. NoticesTypeOK' /\ NoticesKept
  <2>1. late' \in SUBSET Host /\ overtaken' \in [Actor -> SUBSET Host]
    BY <1>1 DEF NoticesTypeOK
  <2> QED  BY <1>1, <1>3, <1>4, <2>1, TailNotices DEF NoticesKept
<1>6. \A a \in Actor : pc'[a] = pc[a] \/ (pc[a] = "asking" /\ pc'[a] = "answered")
  BY OnePasses DEF OnAnswer, OnOnline, Goto, callVars
<1>7. ActorsQuiet /\ ConnectionsQuiet
  BY <1>1, <1>6 DEF ActorsQuiet, ConnectionsQuiet, Holding
<1> QED  BY <1>1, <1>3, <1>5, <1>7, QuietPInv

\* The notice that a host has gone: the pool lets go of its client, and whoever
\* connects to it is overtaken.
LEMMA OnOfflinePInv == ASSUME IInv, PInv, IInv', OnOffline PROVE PInv'
<1> USE DEF PInv, IInv, HoldersTypeOK, HoldsWhileCalling, Holding
<1>1. /\ UNCHANGED <<asked, known, conn, pc, want, got, local>>
      /\ notices # <<>> /\ notices' = Tail(notices) /\ Head(notices).op = "off"
      /\ cached' = cached \ Noticed
  BY DEF OnOffline, Incoming, clientVars, callVars
<1>2. PICK h \in Host : Noticed = {h}
  BY <1>1, FirstNotice
<1>3. \/ known /\ pool' = [pool EXCEPT ![h] = None] /\ late' = late \ {h}
      \/ ~known /\ UNCHANGED <<pool, late>>
  BY <1>2 DEF OnOffline, RemoveRpcClient
<1>4. \A g \in Host : pool'[g] # None => g # h /\ pool'[g] = pool[g] /\ (g \in late => g \in late')
  BY <1>3 DEF AskedFirst
<1>5. /\ overtaken' \in [Actor -> SUBSET Host]
      /\ \A a \in Actor : pc[a] = "connecting" =>
           overtaken[a] \subseteq overtaken'[a] /\ h \in overtaken'[a]
  BY <1>2 DEF OnOffline, NoticesTypeOK
<1>6. NoticesTypeOK' /\ (\A g \in Host : OffPending(g) /\ g # h => OffPending(g)')
  <2>1. /\ known' \in BOOLEAN /\ cached' \in SUBSET Host /\ late' \in SUBSET Host
        /\ got' \in [Actor -> SUBSET Host]
    BY <1>1, <1>3 DEF NoticesTypeOK
  <2> QED  BY <1>1, <1>2, <1>5, <2>1, TailNotices
<1>7. AskedFirst'
  BY <1>1, <1>4 DEF AskedFirst
<1>8. PooledWasUp'
  BY <1>1, <1>4 DEF PooledWasUp
<1>9. CallersBehind'
  <2>1. SUFFICES ASSUME NEW a \in Actor, pc[a] = "connecting", conn[local[a]] \in {"closing", "dead"}
                 PROVE  want[a] \in overtaken'[a] \/ (\E g \in Host : g = want[a] /\ OffPending(g)')
    BY <1>1 DEF CallersBehind, OffPending
  <2>2. want[a] \in Host /\ (want[a] \in overtaken[a] \/ OffPending(want[a]))
    BY <2>1 DEF CallersBehind
  <2>3. CASE want[a] = h \/ want[a] \in overtaken[a]
    BY <1>5, <2>1, <2>3
  <2>4. CASE want[a] # h /\ OffPending(want[a])
    BY <1>6, <2>2, <2>4
  <2> QED  BY <2>2, <2>3, <2>4
<1>10. PoolFollowsNotices'
  <2>1. SUFFICES ASSUME NEW g \in Host, pool'[g] # None, conn[pool'[g]] \notin {"up", "lost"}
                 PROVE  g \in late' \/ OffPending(g)'
    BY <1>1 DEF PoolFollowsNotices
  <2>2. g # h /\ pool'[g] = pool[g] /\ (g \in late => g \in late')
    BY <1>4, <2>1
  <2>3. g \in late \/ OffPending(g)
    BY <2>1, <2>2 DEF PoolFollowsNotices
  <2> QED  BY <1>6, <2>2, <2>3
<1> QED  BY <1>6, <1>7, <1>8, <1>9, <1>10

LEMMA NextPInv == IInv /\ PInv /\ IInv' /\ [Next]_vars => PInv'
<1> SUFFICES ASSUME IInv, PInv, IInv', [Next]_vars PROVE PInv'
  OBVIOUS
<1>1. CASE UNCHANGED vars
  BY <1>1, OtherPInv
<1>2. ASSUME NEW a \in Actor, Ending(a) PROVE PInv'
  BY <1>2, OtherPInv
<1>3. ASSUME NEW a \in Actor, Call(a) PROVE PInv'
  BY <1>3, CallPInv, AskStorePInv DEF Call
<1>4. ASSUME NEW a \in Actor, CallStep(a) PROVE PInv'
  BY <1>4, CallPInv, AskStorePInv, PutPInv DEF CallStep
<1>5. ASSUME RegistryStep PROVE PInv'
  BY <1>5, ArrivalPInv, OnOfflinePInv, OtherPInv DEF RegistryStep
<1>6. ASSUME NEW c \in Client,
             IoStep(c) \/ RunCallback(c) \/ Arrive(c) \/ ComeToCall(c) \/ Closed(c)
      PROVE  PInv'
  BY <1>6, OtherPInv
<1>7. ASSUME NEW h \in Host, Announce(h) \/ Start(h) \/ Stop(h) PROVE PInv'
  BY <1>7, AnnouncePInv, OtherPInv, StopPInv
<1> QED  BY <1>1, <1>2, <1>3, <1>4, <1>5, <1>6, <1>7 DEF Next

\* Of the clients in the pool, only one whose notice is still to come, that was
\* put there behind its notice, or that lost a connection to a living provider
\* is without a connection: a notice is never handled before the pool can act
\* on it (rpc_client.hpp:164-201, client/service_manager.hpp:148-165).
THEOREM NoticesEmptyThePool == Spec => []PoolFollowsNotices
<1>1. PInv => PoolFollowsNotices
  BY DEF PInv
<1> QED  BY <1>1, InitIInv, NextIInv, InitPInv, NextPInv, PTL DEF Spec
=============================================================================
