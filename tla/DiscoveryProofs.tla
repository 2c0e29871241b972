--------------------------- MODULE DiscoveryProofs ---------------------------
(***************************************************************************)
(* Theorems of Registry and Discovery, for any connections, methods, hosts *)
(* and threads and any number of calls and registrations: the registry's   *)
(* indexes agree, an answer and the notices behind it lead to what the     *)
(* registry has, so does a cached list that goes back to an answer, and    *)
(* one that is made of notices alone has no host too often.                *)
(*                                                                         *)
(* What a list of hosts leads to is counted host by host: a set of counts  *)
(* is right for each method and host.  One message changes the counts of   *)
(* one method at both ends alike: After says how, ApplyTimes that the      *)
(* client does it, RegisterMoves, FarewellInHand and RightLeave that the   *)
(* registry does it with the messages it sends.                            *)
(***************************************************************************)
EXTENDS Discovery, FoldProofs, FiniteSetTheorems

-----------------------------------------------------------------------------
(* Registry.                                                               *)

\* The types of what the registry stores; what is under way is left out, for
\* no handler reads it.
IndexTypeOK ==
  /\ host \in [Conn -> Host \cup {None}]
  /\ methods \in [Conn -> Seq(Method)]
  /\ providers \in [Method -> SUBSET Conn]
  /\ watched \in [Conn -> SUBSET Method]
  /\ discoverers \in [Method -> SUBSET Conn]
  /\ gone \subseteq Conn

RInv == IndexTypeOK /\ IndexesAgree

\* What is in a list after one more is appended.
LEMMA ElementsOfAppend ==
  ASSUME NEW S, NEW s \in Seq(S), NEW x \in S
  PROVE  /\ Append(s, x) \in Seq(S)
         /\ Append(s, x) # <<>>
         /\ ToSet(Append(s, x)) = ToSet(s) \cup {x}
<1>1. Append(s, x) \in Seq(S) /\ Append(s, x) # <<>>
  BY SMTT(40)
<1>2. DOMAIN Append(s, x) = (DOMAIN s) \cup {Len(s) + 1}
  OBVIOUS
<1>3. \A i \in DOMAIN s : Append(s, x)[i] = s[i]
  OBVIOUS
<1>4. Append(s, x)[Len(s) + 1] = x
  OBVIOUS
<1> QED
  BY <1>1, <1>2, <1>3, <1>4 DEF ToSet

LEMMA ElementsOfEmpty == ToSet(<<>>) = {}
BY DEF ToSet

\* The registry starts with nothing stored (server/service_manager.hpp:20-182).
LEMMA InitRInv == RegistryInit => RInv
BY ElementsOfEmpty DEF RegistryInit, RInv, IndexTypeOK, IndexesAgree

\* onServiceRequest, SERVICE_REGISTRY: addProvider changes both indexes.
LEMMA RegisterRInv ==
  ASSUME RInv, NEW c \in Conn, NEW m \in Method, NEW h \in Host, OnRegister(c, m, h)
  PROVE  RInv'
<1> USE RegistryAssumption DEF RInv, IndexTypeOK, IndexesAgree
<1> USE DEF OnRegister, AddProvider
<1>1. /\ methods'[c] \in Seq(Method)
      /\ methods'[c] # <<>>
      /\ ToSet(methods'[c]) = ToSet(methods[c]) \cup {m}
  BY ElementsOfAppend
<1>2. \A d \in Conn \ {c} : methods'[d] = methods[d] /\ host'[d] = host[d]
  OBVIOUS
<1>3. IndexTypeOK'
  BY <1>1
<1>4. IndexesAgree'
  BY <1>1, <1>2
<1>5. QED
  BY <1>3, <1>4

\* onServiceRequest, SERVICE_DISCOVERY: addDiscoverer changes both indexes.
LEMMA DiscoverRInv ==
  ASSUME RInv, NEW c \in Conn, NEW m \in Method, NEW id, OnDiscover(c, m, id)
  PROVE  RInv'
BY DEF OnDiscover, AddDiscoverer, RInv, IndexTypeOK, IndexesAgree

\* onConnShutDown takes a connection out of every index it is in.
LEMMA ShutDownRInv ==
  ASSUME RInv, NEW c \in Conn, OnShutDown(c)
  PROVE  RInv'
<1> USE RegistryAssumption, ElementsOfEmpty DEF RInv, IndexTypeOK, IndexesAgree
<1> USE DEF OnShutDown, RemoveProvider, RemoveDiscover
<1>1. IndexTypeOK'
  OBVIOUS
<1>2. /\ methods'[c] = <<>> /\ watched'[c] = {} /\ host'[c] = None
      /\ \A d \in Conn \ {c} : /\ methods'[d] = methods[d] /\ host'[d] = host[d]
                               /\ watched'[d] = watched[d]
  OBVIOUS
<1>3. IndexesAgree'
  BY <1>2
<1>4. QED
  BY <1>1, <1>3

\* A step of the client changes no index.
LEMMA SameRInv ==
  ASSUME RInv, UNCHANGED <<host, methods, providers, watched, discoverers, gone>>
  PROVE  RInv'
BY DEF RInv, IndexTypeOK, IndexesAgree

\* Every step of the registry keeps its indexes together.
LEMMA NextRInv == RInv /\ [RegistryNext]_registryVars => RInv'
<1> SUFFICES ASSUME RInv, [RegistryNext]_registryVars PROVE RInv'
  OBVIOUS
<1>1. ASSUME NEW c \in Conn, NEW m \in Method, NEW h \in Host, OnRegister(c, m, h)
      PROVE  RInv'
  BY <1>1, RegisterRInv, Zenon
<1>2. ASSUME NEW c \in Conn, NEW m \in Method, NEW id \in Id, OnDiscover(c, m, id)
      PROVE  RInv'
  BY <1>2, DiscoverRInv, Zenon
<1>3. ASSUME NEW c \in Conn, OnShutDown(c)
      PROVE  RInv'
  BY <1>3, ShutDownRInv, Zenon
<1>4. ASSUME NEW c \in Conn, Deliver(c)
      PROVE  RInv'
  BY <1>4, SameRInv, Zenon DEF Deliver
<1>5. CASE UNCHANGED registryVars
  BY <1>5, SameRInv, Zenon DEF registryVars
<1> QED
  BY <1>1, <1>2, <1>3, <1>4, <1>5, Zenon DEF RegistryNext

\* A method's index and a connection's own list never disagree, and nothing
\* of a closed connection is left in either.
THEOREM IndexesAlwaysAgree == RegistrySpec => []IndexesAgree
<1>1. RInv => IndexesAgree
  BY DEF RInv
<1> QED
  BY <1>1, InitRInv, NextRInv, PTL DEF RegistrySpec

-----------------------------------------------------------------------------
(* Counting a host in a list.                                              *)

\* The count is a number, and 0 for a host that is not there.
LEMMA TimesIs ==
  ASSUME NEW S, NEW s \in Seq(S), NEW h
  PROVE  /\ IsFiniteSet({i \in 1..Len(s) : s[i] = h}) /\ Times(s, h) \in Nat
         /\ Times(s, h) = 0 <=> ~\E i \in 1..Len(s) : s[i] = h
<1> DEFINE I == {i \in 1..Len(s) : s[i] = h}
<1>1. IsFiniteSet(1..Len(s))
  <2>1. 1 \in Int /\ Len(s) \in Int
    BY SMT
  <2>2. QED
    BY <2>1, FS_Interval, Zenon
<1>2. IsFiniteSet(I)
  <2>1. I \in SUBSET (1..Len(s))
    BY Zenon
  <2>2. QED
    BY <1>1, <2>1, FS_Subset, Zenon
<1>3. Cardinality(I) \in Nat
  BY <1>2, FS_CardinalityType, Zenon
<1>4. Cardinality(I) = 0 <=> I = {}
  BY <1>2, FS_EmptySet, Zenon
<1>5. I = {} <=> ~\E i \in 1..Len(s) : s[i] = h
  BY Zenon
<1>6. QED
  BY <1>2, <1>3, <1>4, <1>5, Zenon DEF Times

\* Nothing is in an empty list.
LEMMA TimesEmpty == \A h : Times(<<>>, h) = 0
<1> SUFFICES ASSUME NEW h PROVE Times(<<>>, h) = 0
  OBVIOUS
<1>1. <<>> \in Seq({}) /\ Len(<<>>) = 0 /\ 1..0 = {}
  BY SMT
<1>2. QED
  BY <1>1, TimesIs, Zenon

\* push_back counts one more.
LEMMA TimesAppend ==
  ASSUME NEW S, NEW s \in Seq(S), NEW x \in S, NEW h
  PROVE  Times(Append(s, x), h) = IF x = h THEN Times(s, h) + 1 ELSE Times(s, h)
<1> DEFINE t == Append(s, x)
           n == Len(s)
           I == {i \in 1..n : s[i] = h}
           J == {i \in 1..Len(t) : t[i] = h}
<1>1. Len(t) = n + 1 /\ n \in Nat /\ (\A i \in 1..n : t[i] = s[i]) /\ t[n + 1] = x
  BY AppendIs, SMT
<1>2. Times(s, h) = Cardinality(I) /\ IsFiniteSet(I) /\ Times(t, h) = Cardinality(J)
  BY TimesIs, Zenon DEF Times
<1> HIDE DEF t, n
<1>3. \A i : i \in 1..(n + 1) <=> i \in 1..n \/ i = n + 1
  BY <1>1, SMT
<1>4. n + 1 \notin 1..n
  BY <1>1, SMT
<1>5. CASE x = h
  <2>1. J = I \cup {n + 1}
    BY <1>1, <1>3, <1>4, <1>5, Zenon
  <2>2. n + 1 \notin I
    BY <1>4, Zenon
  <2> HIDE DEF I, J
  <2>3. Cardinality(J) = Cardinality(I) + 1
    BY <2>1, <2>2, <1>2, FS_AddElement, Zenon
  <2>4. QED
    BY <2>3, <1>2, <1>5, Zenon DEF t
<1>6. CASE x # h
  <2>1. J = I
    BY <1>1, <1>3, <1>4, <1>6, Zenon
  <2>2. QED
    BY <2>1, <1>2, <1>6, Zenon DEF t
<1>7. QED
  BY <1>5, <1>6, Zenon

\* The first position of h, if any.
LEMMA FirstOf ==
  ASSUME NEW S, NEW s \in Seq(S), NEW h
  PROVE  \/ ~(\E i \in 1..Len(s) : s[i] = h) /\ RemoveFirst(s, h) = s
         \/ \E i \in 1..Len(s) : s[i] = h /\ RemoveFirst(s, h) = RemoveAt(s, i)
<1> DEFINE I == {i \in 1..Len(s) : s[i] = h}
<1>1. CASE \E i \in 1..Len(s) : s[i] = h
  <2>1. I # {} /\ I \subseteq Nat
    BY <1>1, SMT
  <2>2. Min(I) \in I
    <3> HIDE DEF I
    <3>1. QED
      BY <2>1, LeastIs, Zenon
  <2>3. RemoveFirst(s, h) = RemoveAt(s, Min(I))
    BY <1>1, <2>1, Zenon DEF RemoveFirst, SelectInSeq
  <2>4. QED
    BY <2>2, <2>3, Zenon
<1>2. CASE ~\E i \in 1..Len(s) : s[i] = h
  BY <1>2, Zenon DEF RemoveFirst
<1>3. QED
  BY <1>1, <1>2, Zenon

\* erase moves what is behind it one place forward.
LEMMA RemoveAtIs ==
  ASSUME NEW S, NEW s \in Seq(S), NEW i \in 1..Len(s)
  PROVE  /\ RemoveAt(s, i) \in Seq(S) /\ Len(RemoveAt(s, i)) = Len(s) - 1
         /\ \A j \in 1..(i - 1) : RemoveAt(s, i)[j] = s[j]
         /\ \A j \in i..(Len(s) - 1) : RemoveAt(s, i)[j] = s[j + 1]
<1> DEFINE a == SubSeq(s, 1, i - 1)
           b == SubSeq(s, i + 1, Len(s))
           n == Len(s)
           t == a \o b
<1>1. a \in Seq(S) /\ Len(a) = i - 1 /\ \A j \in 1..(i - 1) : a[j] = s[j]
  BY SMT
<1>2. b \in Seq(S) /\ Len(b) = n - i /\ \A j \in 1..(n - i) : b[j] = s[i + j]
  BY SMT
<1>3. n \in Nat /\ i \in 1..n
  BY SMT
<1>4. RemoveAt(s, i) = t
  BY Zenon DEF RemoveAt
<1> HIDE DEF a, b
<1>5. /\ t \in Seq(S) /\ Len(t) = Len(a) + Len(b)
      /\ (\A j \in 1..Len(a) : t[j] = a[j]) /\ \A j \in 1..Len(b) : t[Len(a) + j] = b[j]
  <2>1. a \in Seq(S) /\ b \in Seq(S)
    BY <1>1, <1>2
  <2>2. QED
    BY <2>1, SMT
<1> HIDE DEF t, n
<1>6. Len(t) = n - 1
  BY <1>1, <1>2, <1>3, <1>5, SMT
<1>7. \A j \in 1..(i - 1) : t[j] = s[j]
  BY <1>1, <1>5, Zenon
<1>8. ASSUME NEW j \in i..(n - 1) PROVE t[j] = s[j + 1]
  <2> DEFINE k == j - (i - 1)
  <2>1. k \in 1..(n - i) /\ (i - 1) + k = j /\ i + k = j + 1
    BY <1>3, SMT
  <2> HIDE DEF k
  <2>2. QED
    BY <2>1, <1>1, <1>2, <1>5, Zenon
<1>9. QED
  BY <1>4, <1>5, <1>6, <1>7, <1>8, Zenon DEF n

\* erase counts one less of what was there.
LEMMA TimesRemoveAt ==
  ASSUME NEW S, NEW s \in Seq(S), NEW i \in 1..Len(s), NEW h
  PROVE  Times(RemoveAt(s, i), h) = IF s[i] = h THEN Times(s, h) - 1 ELSE Times(s, h)
<1> DEFINE t == RemoveAt(s, i)
           n == Len(s)
           I == {j \in 1..n : s[j] = h}
           J == {j \in 1..Len(t) : t[j] = h}
           K == I \ {i}
<1>1. /\ t \in Seq(S) /\ Len(t) = n - 1
      /\ (\A j \in 1..(i - 1) : t[j] = s[j]) /\ \A j \in i..(n - 1) : t[j] = s[j + 1]
  BY RemoveAtIs, Zenon
<1>2. Times(s, h) = Cardinality(I) /\ IsFiniteSet(I) /\ Times(t, h) = Cardinality(J)
      /\ IsFiniteSet(J)
  BY <1>1, TimesIs, Zenon DEF Times
<1>3. n \in Nat /\ i \in 1..n
  BY SMT
<1>4. Cardinality(K) = (IF i \in I THEN Cardinality(I) - 1 ELSE Cardinality(I))
  BY <1>2, FS_RemoveElement, Zenon
<1>5. i \in I <=> s[i] = h
  BY Zenon
<1> HIDE DEF t, n
<1> DEFINE f == [j \in J |-> IF j < i THEN j ELSE j + 1]
<1>6. ASSUME NEW j \in J PROVE /\ f[j] \in K /\ j \in 1..(n - 1)
                               /\ f[j] = IF j < i THEN j ELSE j + 1
  <2>1. j \in 1..(n - 1) /\ t[j] = h
    BY <1>1, Zenon
  <2>2. CASE j < i
    <3>1. j \in 1..(i - 1) /\ j \in 1..n /\ j # i
      BY <2>1, <2>2, <1>3, SMT
    <3>2. QED
      BY <2>1, <2>2, <3>1, <1>1, Zenon
  <2>3. CASE ~(j < i)
    <3>1. j \in i..(n - 1) /\ j + 1 \in 1..n /\ j + 1 # i
      BY <2>1, <2>3, <1>3, SMT
    <3>2. QED
      BY <2>1, <2>3, <3>1, <1>1, Zenon
  <2>4. QED
    BY <2>2, <2>3, Zenon
<1>7. ASSUME NEW j \in J, NEW k \in J, f[j] = f[k] PROVE j = k
  <2>1. /\ j \in 1..(n - 1) /\ f[j] = IF j < i THEN j ELSE j + 1
        /\ k \in 1..(n - 1) /\ f[k] = IF k < i THEN k ELSE k + 1
    BY <1>6, Zenon
  <2> HIDE DEF f
  <2>2. QED
    BY <2>1, <1>7, <1>3, SMT
<1>8. ASSUME NEW k \in K PROVE \E j \in J : f[j] = k
  <2>1. k \in 1..n /\ s[k] = h /\ k # i
    BY Zenon
  <2>2. CASE k < i
    <3>1. k \in 1..(i - 1) /\ k \in 1..(n - 1)
      BY <2>1, <2>2, <1>3, SMT
    <3>2. k \in J /\ f[k] = k
      BY <2>1, <2>2, <3>1, <1>1, Zenon
    <3>3. QED
      BY <3>2, Zenon
  <2>3. CASE ~(k < i)
    <3> DEFINE j == k - 1
    <3>1. j \in i..(n - 1) /\ j \in 1..(n - 1) /\ j + 1 = k /\ ~(j < i)
      BY <2>1, <2>3, <1>3, SMT
    <3> HIDE DEF j
    <3>2. t[j] = h
      BY <2>1, <3>1, <1>1, Zenon
    <3>3. j \in J /\ f[j] = k
      BY <3>1, <3>2, <1>1, Zenon
    <3>4. QED
      BY <3>3, Zenon
  <2>4. QED
    BY <2>2, <2>3, Zenon
<1>9. ExistsBijection(J, K)
  <2> HIDE DEF J, K
  <2>1. f \in [J -> K]
    BY <1>6, Zenon
  <2> HIDE DEF f
  <2>2. f \in Bijection(J, K)
    BY <2>1, <1>7, <1>8, Zenon DEF Bijection, Injection, Surjection, IsInjective
  <2>3. QED
    BY <2>2, Zenon DEF ExistsBijection
<1>10. Cardinality(K) = Cardinality(J)
  <2> HIDE DEF J, K
  <2>1. QED
    BY <1>2, <1>9, FS_Bijection, Zenon
<1>11. QED
  BY <1>2, <1>4, <1>5, <1>10, Zenon DEF t, n

\* Taking the first h out leaves the other counts.
LEMMA TimesRemoveFirst ==
  ASSUME NEW S, NEW s \in Seq(S), NEW x, NEW h
  PROVE  /\ RemoveFirst(s, x) \in Seq(S)
         /\ Times(RemoveFirst(s, x), h) =
              IF x = h /\ Times(s, h) # 0 THEN Times(s, h) - 1 ELSE Times(s, h)
<1>1. CASE ~(\E i \in 1..Len(s) : s[i] = x) /\ RemoveFirst(s, x) = s
  <2>1. x = h => Times(s, h) = 0
    BY <1>1, TimesIs, Zenon
  <2>2. QED
    BY <1>1, <2>1, Zenon
<1>2. CASE \E i \in 1..Len(s) : s[i] = x /\ RemoveFirst(s, x) = RemoveAt(s, i)
  <2>1. PICK i \in 1..Len(s) : s[i] = x /\ RemoveFirst(s, x) = RemoveAt(s, i)
    BY <1>2
  <2>2. RemoveAt(s, i) \in Seq(S)
    BY RemoveAtIs, Zenon
  <2>3. Times(RemoveAt(s, i), h) = IF s[i] = h THEN Times(s, h) - 1 ELSE Times(s, h)
    BY TimesRemoveAt, Zenon
  <2>4. x = h => Times(s, h) # 0
    BY <2>1, TimesIs, Zenon
  <2>5. QED
    BY <2>1, <2>2, <2>3, <2>4, Zenon
<1>3. QED
  BY <1>1, <1>2, FirstOf, Zenon

-----------------------------------------------------------------------------
(* Messages, and what one makes of a list of hosts.                        *)

\* What the registry sends, by its kind.
LEMMA MessageIs ==
  ASSUME NEW x \in Message
  PROVE  /\ x.op \in {"registered", "online", "offline", "discovered"}
         /\ x.op \in {"online", "offline"} => x.method \in Method /\ x.host \in Host
         /\ x.op = "discovered" => x.id \in Id /\ x.method \in Method /\ x.hosts \in Seq(Host)
<1> DEFINE L == Seq(Host)
<1>1. x \in [op : {"registered"}]
             \cup [op : {"online", "offline"}, method : Method, host : Host]
             \cup [op : {"discovered"}, id : Id, method : Method, hosts : L]
  BY Zenon DEF Message
<1> HIDE DEF L
<1>2. /\ x.op \in {"registered", "online", "offline", "discovered"}
      /\ x.op \in {"online", "offline"} => x.method \in Method /\ x.host \in Host
      /\ x.op = "discovered" => x.id \in Id /\ x.method \in Method /\ x.hosts \in L
  BY <1>1, SMT
<1>3. QED
  BY <1>2, Zenon DEF L

\* What the client does with a message, by its kind.
LEMMA ApplyIs ==
  ASSUME NEW m, NEW hosts \in Seq(Host), NEW x \in Message, NEW h
  PROVE  /\ Apply(m, hosts, x) \in Seq(Host)
         /\ (x.op \in {"online", "offline"} => x.method # m) => Apply(m, hosts, x) = hosts
         /\ x.op = "online" /\ x.method = m => Apply(m, hosts, x) = Append(hosts, x.host)
         /\ x.op = "offline" /\ x.method = m => Apply(m, hosts, x) = RemoveFirst(hosts, x.host)
<1>1. x.op = "online" /\ x.method = m => Apply(m, hosts, x) = Append(hosts, x.host)
  BY DEF Apply
<1>2. x.op = "offline" /\ x.method = m => Apply(m, hosts, x) = RemoveFirst(hosts, x.host)
  BY DEF Apply
<1>3. (x.op \in {"online", "offline"} => x.method # m) => Apply(m, hosts, x) = hosts
  BY DEF Apply
<1>4. x.op \in {"online", "offline"} => Append(hosts, x.host) \in Seq(Host)
  BY MessageIs, AppendIs, Zenon
<1>5. RemoveFirst(hosts, x.host) \in Seq(Host)
  BY TimesRemoveFirst, Zenon
<1>6. QED
  BY <1>1, <1>2, <1>3, <1>4, <1>5, Zenon

-----------------------------------------------------------------------------
(* Replay, message by message.                                             *)

\* r has the lists of hosts between hosts and Replay(m, hosts, msgs).
Replays(r, m, hosts, msgs) ==
  /\ r[0] = hosts
  /\ \A k \in 0..(Len(msgs) - 1) : r[k + 1] = Apply(m, r[k], msgs[k + 1])
  /\ Replay(m, hosts, msgs) = r[Len(msgs)]

\* What FoldLeft asks of the function it chooses.
ReplayWalk(g, m, hosts, d) ==
  g = [s \in SUBSET (DOMAIN d) |->
         IF s = {} THEN hosts ELSE Apply(m, g[s \ {Max(s)}], d[Max(s)])]

\* A replay of d passes through one list of hosts per message.
LEMMA ReplaySteps ==
  ASSUME NEW m, NEW hosts \in Seq(Host), NEW d \in Seq(Message)
  PROVE  \E r \in [0..Len(d) -> Seq(Host)] : Replays(r, m, hosts, d)
<1> DEFINE n == Len(d)
           T == Seq(Host)
           F == [p \in T \X (1..n) |-> Apply(m, p[1], d[p[2]])]
<1>1. n \in Nat /\ DOMAIN d = 1..n /\ hosts \in T
  BY SMT
<1>e. \A i \in 1..n : d[i] \in Message
  BY <1>1
<1>2. F \in [T \X (1..n) -> T]
  <2>1. ASSUME NEW t \in T, NEW i \in 1..n PROVE Apply(m, t, d[i]) \in T
    BY <1>e, ApplyIs, Zenon
  <2> HIDE DEF T
  <2>2. QED
    BY <2>1, Zenon
<1> HIDE DEF n, T
<1>3. \A t \in T, i \in 1..n : F[<<t, i>>] = Apply(m, t, d[i])
  BY Zenon
<1> HIDE DEF F
<1>4. PICK f \in [SUBSET (1..n) -> T] : Walks(f, F, hosts, n)
  BY <1>1, <1>2, WalkExists, Zenon
<1>5. ASSUME NEW s \in SUBSET (1..n)
      PROVE  f[s] = IF s = {} THEN hosts ELSE Apply(m, f[s \ {Max(s)}], d[Max(s)])
  <2>1. CASE s = {}
    BY <1>4, <2>1, Zenon DEF Walks
  <2>2. CASE s # {}
    <3>1. Max(s) \in s
      BY <2>2, <1>1, GreatestOf, Zenon
    <3>2. Max(s) \in 1..n /\ f[s \ {Max(s)}] \in T
      BY <3>1, <1>4, Zenon
    <3>3. f[s] = F[<<f[s \ {Max(s)}], Max(s)>>]
      BY <1>4, <2>2, Zenon DEF Walks
    <3>4. QED
      BY <1>3, <2>2, <3>2, <3>3, Zenon
  <2>3. QED
    BY <2>1, <2>2, Zenon
<1>6. ReplayWalk(f, m, hosts, d)
  BY <1>1, <1>4, <1>5, Zenon DEF ReplayWalk
<1>7. PICK g : ReplayWalk(g, m, hosts, d) /\ Replay(m, hosts, d) = g[DOMAIN d]
  BY <1>6, Zenon DEF ReplayWalk, Replay, FoldLeft, MapThenFoldSet
<1>8. \A s \in SUBSET (1..n) :
        g[s] = IF s = {} THEN hosts ELSE Apply(m, g[s \ {Max(s)}], d[Max(s)])
  BY <1>1, <1>7, Zenon DEF ReplayWalk
<1> DEFINE r == [k \in 0..n |-> g[1..k]]
<1>9. r[0] = hosts
  <2>1. 0 \in 0..n /\ 1..0 = {} /\ {} \in SUBSET (1..n)
    BY <1>1, SMT
  <2>2. QED
    BY <1>8, <2>1, Zenon
<1>10. ASSUME NEW k \in 0..(n - 1) PROVE r[k + 1] = Apply(m, r[k], d[k + 1])
  <2>1. k \in 0..n /\ k + 1 \in 0..n
    BY <1>1, SMT
  <2>2. g[1..(k + 1)] = Apply(m, g[1..k], d[k + 1])
    <3> DEFINE s == 1..(k + 1)
    <3>1. s \in SUBSET (1..n) /\ s # {} /\ Max(s) = k + 1 /\ s \ {k + 1} = 1..k
      BY <1>1, UpToNext, Zenon
    <3> HIDE DEF s
    <3>2. g[s] = Apply(m, g[s \ {Max(s)}], d[Max(s)])
      BY <1>8, <3>1, Zenon
    <3>3. QED
      BY <3>1, <3>2, Zenon DEF s
  <2>3. QED
    BY <2>1, <2>2, Zenon
<1>11. r[n] = Replay(m, hosts, d)
  <2>1. n \in 0..n
    BY <1>1, SMT
  <2>2. QED
    BY <2>1, <1>1, <1>7, Zenon
<1>12. r \in [0..n -> T]
  <2> DEFINE S == {k \in Nat : r[k] \in T}
  <2>1. 0 \in S
    BY <1>1, <1>9, SMT
  <2>2. ASSUME NEW k \in 0..(n - 1), k \in S PROVE k + 1 \in S
    <3>1. k + 1 \in 1..n /\ k + 1 \in Nat
      BY <1>1, SMT
    <3>2. d[k + 1] \in Message /\ r[k] \in Seq(Host)
      BY <1>e, <2>2, <3>1, Zenon DEF T
    <3> HIDE DEF r
    <3>3. Apply(m, r[k], d[k + 1]) \in T
      BY <3>2, ApplyIs, Zenon DEF T
    <3>4. QED
      BY <3>1, <3>3, <1>10, Zenon
  <2> HIDE DEF S
  <2>3. \A k \in 0..n : k \in S
    BY <1>1, <2>1, <2>2, UpToInduction, Zenon
  <2>4. \A k \in 0..n : r[k] \in T
    BY <2>3, Zenon DEF S
  <2>5. r = [k \in 0..n |-> r[k]]
    BY Zenon
  <2> HIDE DEF r
  <2>6. QED
    BY <2>4, <2>5, Zenon
<1> HIDE DEF r
<1>13. Replays(r, m, hosts, d)
  BY <1>9, <1>10, <1>11, Zenon DEF Replays, n
<1>14. QED
  BY <1>12, <1>13, Zenon DEF n, T

\* Without messages a list stays as it is.
LEMMA ReplayEmpty ==
  ASSUME NEW m, NEW hosts \in Seq(Host)
  PROVE  Replay(m, hosts, <<>>) = hosts
<1>1. <<>> \in Seq(Message) /\ Len(<<>>) = 0
  BY SMT
<1>2. PICK r \in [0..Len(<<>>) -> Seq(Host)] : Replays(r, m, hosts, <<>>)
  BY <1>1, ReplaySteps, Zenon
<1>3. QED
  BY <1>1, <1>2, Zenon DEF Replays

\* A replay leads to a list of hosts.
LEMMA ReplayType ==
  ASSUME NEW m, NEW hosts \in Seq(Host), NEW msgs \in Seq(Message)
  PROVE  Replay(m, hosts, msgs) \in Seq(Host)
<1>1. Len(msgs) \in 0..Len(msgs)
  BY SMT
<1>2. PICK r \in [0..Len(msgs) -> Seq(Host)] : Replays(r, m, hosts, msgs)
  BY ReplaySteps, Zenon
<1>3. r[Len(msgs)] \in Seq(Host)
  BY <1>1, <1>2, Zenon
<1>4. QED
  BY <1>2, <1>3, Zenon DEF Replays

\* One more message at the end.
LEMMA ReplayAppend ==
  ASSUME NEW m, NEW hosts \in Seq(Host), NEW msgs \in Seq(Message), NEW x \in Message
  PROVE  Replay(m, hosts, Append(msgs, x)) = Apply(m, Replay(m, hosts, msgs), x)
<1> DEFINE n == Len(msgs)
           t == Append(msgs, x)
<1>1. /\ t \in Seq(Message) /\ Len(t) = n + 1 /\ n \in Nat
      /\ (\A i \in 1..n : t[i] = msgs[i]) /\ t[n + 1] = x
  BY AppendIs, Zenon
<1>2. PICK r : Replays(r, m, hosts, msgs)
  BY ReplaySteps, Zenon
<1> HIDE DEF t
<1>3. PICK q : Replays(q, m, hosts, t)
  BY <1>1, ReplaySteps, Zenon
<1> HIDE DEF n
<1>4. /\ r[0] = hosts /\ q[0] = hosts
      /\ (\A k \in 0..(n - 1) : r[k + 1] = Apply(m, r[k], msgs[k + 1]))
      /\ (\A k \in 0..((n + 1) - 1) : q[k + 1] = Apply(m, q[k], t[k + 1]))
      /\ Replay(m, hosts, msgs) = r[n] /\ Replay(m, hosts, t) = q[n + 1]
  BY <1>1, <1>2, <1>3, Zenon DEF Replays, n
<1>5. ASSUME NEW k \in 0..(n - 1), r[k] = q[k] PROVE r[k + 1] = q[k + 1]
  <2>1. k + 1 \in 1..n /\ k \in 0..((n + 1) - 1)
    BY <1>1, SMT
  <2>2. QED
    BY <2>1, <1>1, <1>4, <1>5, Zenon
<1>6. \A k \in 0..n : r[k] = q[k]
  <2>1. n \in Nat /\ r[0] = q[0]
    BY <1>1, <1>4, Zenon
  <2>2. QED
    BY <2>1, <1>5, SameSteps, Zenon
<1>7. n \in 0..n /\ n \in 0..((n + 1) - 1)
  BY <1>1, SMT
<1>8. q[n + 1] = Apply(m, r[n], x)
  BY <1>1, <1>4, <1>6, <1>7, Zenon
<1>9. QED
  BY <1>4, <1>8, Zenon DEF t

\* The first message is taken.
LEMMA ReplayTail ==
  ASSUME NEW m, NEW hosts \in Seq(Host), NEW msgs \in Seq(Message), msgs # <<>>
  PROVE  Replay(m, hosts, msgs) = Replay(m, Apply(m, hosts, Head(msgs)), Tail(msgs))
<1> DEFINE n == Len(msgs)
           t == Tail(msgs)
           x == Head(msgs)
           a == Apply(m, hosts, x)
<1>1. /\ t \in Seq(Message) /\ Len(t) = n - 1 /\ n \in Nat /\ n > 0 /\ x \in Message
      /\ (\A i \in 1..(n - 1) : t[i] = msgs[i + 1]) /\ msgs[1] = x
  BY SMT
<1>x. t = Tail(msgs) /\ x = Head(msgs)
  OBVIOUS
<1> HIDE DEF t, x
<1>2. a \in Seq(Host)
  BY <1>1, ApplyIs, Zenon
<1>a. a = Apply(m, hosts, x)
  OBVIOUS
<1> HIDE DEF a
<1>3. PICK r : Replays(r, m, hosts, msgs)
  BY ReplaySteps, Zenon
<1>4. PICK q : Replays(q, m, a, t)
  BY <1>1, <1>2, ReplaySteps, Zenon
<1> HIDE DEF n
<1> DEFINE k1 == n - 1
<1>5. /\ r[0] = hosts /\ q[0] = a
      /\ (\A k \in 0..(n - 1) : r[k + 1] = Apply(m, r[k], msgs[k + 1]))
      /\ (\A k \in 0..(k1 - 1) : q[k + 1] = Apply(m, q[k], t[k + 1]))
      /\ Replay(m, hosts, msgs) = r[n] /\ Replay(m, a, t) = q[k1]
  BY <1>1, <1>3, <1>4, Zenon DEF Replays, n
<1>6. k1 \in Nat /\ k1 + 1 = n /\ 0 \in 0..(n - 1) /\ 0 + 1 = 1
  BY <1>1, SMT
<1>k. k1 = n - 1
  OBVIOUS
<1> HIDE DEF k1
<1> DEFINE s == [k \in 0..k1 |-> r[k + 1]]
<1>7. \A k \in 0..k1 : s[k] = r[k + 1]
  BY Zenon
<1> HIDE DEF s
<1>8. s[0] = q[0]
  <2>1. 0 \in 0..k1
    BY <1>6, SMT
  <2>2. r[1] = Apply(m, hosts, x)
    BY <1>1, <1>5, <1>6, Zenon
  <2>3. QED
    BY <2>1, <2>2, <1>5, <1>6, <1>7, <1>a, Zenon
<1>9. ASSUME NEW k \in 0..(k1 - 1), s[k] = q[k] PROVE s[k + 1] = q[k + 1]
  <2>1. k \in 0..k1 /\ k + 1 \in 0..k1 /\ k + 1 \in 0..(n - 1) /\ k + 1 \in 1..(n - 1)
    BY <1>6, <1>k, <1>1, SMT
  <2>2. s[k + 1] = Apply(m, r[k + 1], msgs[(k + 1) + 1])
    BY <2>1, <1>5, <1>7, Zenon
  <2>3. QED
    BY <2>1, <2>2, <1>1, <1>5, <1>7, <1>9, Zenon
<1>10. \A k \in 0..k1 : s[k] = q[k]
  BY <1>6, <1>8, <1>9, SameSteps, ZenonT(40)
<1>11. k1 \in 0..k1
  BY <1>6, SMT
<1>12. r[n] = q[k1]
  BY <1>6, <1>7, <1>10, <1>11, Zenon
<1>13. QED
  BY <1>5, <1>12, <1>a, <1>x, Zenon

-----------------------------------------------------------------------------
(* Farewell, message by message.                                           *)

\* onConnShutDown, for one method c provided: d is told if it asked for it.
Say(msgs, c, d, m) ==
  IF d \in discoverers[m] THEN Append(msgs, Offline(m, host[c])) ELSE msgs

\* r has the outboxes of d between outbox[d] and Farewell(c, d).
Farewells(r, c, d) ==
  /\ r[0] = outbox[d]
  /\ \A k \in 0..(Len(methods[c]) - 1) : r[k + 1] = Say(r[k], c, d, methods[c][k + 1])
  /\ Farewell(c, d) = r[Len(methods[c])]

\* What FoldLeft asks of the function it chooses.
FarewellWalk(g, c, d) ==
  g = [s \in SUBSET (DOMAIN methods[c]) |->
         IF s = {} THEN outbox[d] ELSE Say(g[s \ {Max(s)}], c, d, methods[c][Max(s)])]

\* A notice that a host is gone is a message.
LEMMA OfflineIs == \A m \in Method, h \in Host : Offline(m, h) \in Message
BY DEF Offline, Message

\* Saying goodbye for one method leaves a sequence of messages.
LEMMA SayIs ==
  ASSUME NEW msgs \in Seq(Message), NEW c, NEW d, host[c] \in Host, NEW m \in Method
  PROVE  Say(msgs, c, d, m) \in Seq(Message)
BY OfflineIs, AppendIs, Zenon DEF Say

\* The goodbye of c to d passes through one outbox per method c provided.
LEMMA FarewellSteps ==
  ASSUME NEW c, NEW d, methods[c] \in Seq(Method), outbox[d] \in Seq(Message),
         methods[c] # <<>> => host[c] \in Host
  PROVE  \E r \in [0..Len(methods[c]) -> Seq(Message)] : Farewells(r, c, d)
<1> DEFINE e == methods[c]
           n == Len(e)
           T == Seq(Message)
           base == outbox[d]
           F == [p \in T \X (1..n) |-> Say(p[1], c, d, e[p[2]])]
<1>0. e \in Seq(Method) /\ base \in T /\ e = methods[c] /\ base = outbox[d]
      /\ (e # <<>> => host[c] \in Host)
  BY Zenon
<1> HIDE DEF e, base
<1>1. n \in Nat /\ DOMAIN e = 1..n
  BY <1>0, SMT
<1>e. \A i \in 1..n : e[i] \in Method
  BY <1>0, <1>1
<1>h. ASSUME NEW i \in 1..n PROVE host[c] \in Host
  <2>1. Len(e) # 0 /\ Len(<<>>) = 0
    BY <1>1, SMT
  <2>2. e # <<>>
    BY <2>1, Zenon
  <2>3. QED
    BY <2>2, <1>0, Zenon
<1>2. F \in [T \X (1..n) -> T]
  <2>1. ASSUME NEW t \in T, NEW i \in 1..n PROVE Say(t, c, d, e[i]) \in T
    BY <1>e, <1>h, SayIs, Zenon
  <2> HIDE DEF T
  <2>2. QED
    BY <2>1, Zenon
<1> HIDE DEF n, T
<1>3. \A t \in T, i \in 1..n : F[<<t, i>>] = Say(t, c, d, e[i])
  BY Zenon
<1> HIDE DEF F
<1>4. PICK f \in [SUBSET (1..n) -> T] : Walks(f, F, base, n)
  BY <1>0, <1>1, <1>2, WalkExists, Zenon
<1>5. ASSUME NEW s \in SUBSET (1..n)
      PROVE  f[s] = IF s = {} THEN base ELSE Say(f[s \ {Max(s)}], c, d, e[Max(s)])
  <2>1. CASE s = {}
    BY <1>4, <2>1, Zenon DEF Walks
  <2>2. CASE s # {}
    <3>1. Max(s) \in s
      BY <2>2, <1>1, GreatestOf, Zenon
    <3>2. Max(s) \in 1..n /\ f[s \ {Max(s)}] \in T
      BY <3>1, <1>4, Zenon
    <3>3. f[s] = F[<<f[s \ {Max(s)}], Max(s)>>]
      BY <1>4, <2>2, Zenon DEF Walks
    <3>4. QED
      BY <1>3, <2>2, <3>2, <3>3, Zenon
  <2>3. QED
    BY <2>1, <2>2, Zenon
<1>6. FarewellWalk(f, c, d)
  BY <1>0, <1>1, <1>4, <1>5, Zenon DEF FarewellWalk
<1>7. PICK g : FarewellWalk(g, c, d) /\ Farewell(c, d) = g[DOMAIN methods[c]]
  BY <1>6, Zenon DEF FarewellWalk, Farewell, Say, FoldLeft, MapThenFoldSet
<1>8. \A s \in SUBSET (1..n) :
        g[s] = IF s = {} THEN base ELSE Say(g[s \ {Max(s)}], c, d, e[Max(s)])
  BY <1>0, <1>1, <1>7, Zenon DEF FarewellWalk
<1> DEFINE r == [k \in 0..n |-> g[1..k]]
<1>9. r[0] = base
  <2>1. 0 \in 0..n /\ 1..0 = {} /\ {} \in SUBSET (1..n)
    BY <1>1, SMT
  <2>2. QED
    BY <1>8, <2>1, Zenon
<1>10. ASSUME NEW k \in 0..(n - 1) PROVE r[k + 1] = Say(r[k], c, d, e[k + 1])
  <2>1. k \in 0..n /\ k + 1 \in 0..n
    BY <1>1, SMT
  <2>2. g[1..(k + 1)] = Say(g[1..k], c, d, e[k + 1])
    <3> DEFINE s == 1..(k + 1)
    <3>1. s \in SUBSET (1..n) /\ s # {} /\ Max(s) = k + 1 /\ s \ {k + 1} = 1..k
      BY <1>1, UpToNext, Zenon
    <3> HIDE DEF s
    <3>2. g[s] = Say(g[s \ {Max(s)}], c, d, e[Max(s)])
      BY <1>8, <3>1, Zenon
    <3>3. QED
      BY <3>1, <3>2, Zenon DEF s
  <2>3. QED
    BY <2>1, <2>2, Zenon
<1>11. r[n] = Farewell(c, d)
  <2>1. n \in 0..n
    BY <1>1, SMT
  <2>2. QED
    BY <2>1, <1>0, <1>1, <1>7, Zenon
<1>12. r \in [0..n -> T]
  <2> DEFINE S == {k \in Nat : r[k] \in T}
  <2>1. 0 \in S
    BY <1>0, <1>9, SMT
  <2>2. ASSUME NEW k \in 0..(n - 1), k \in S PROVE k + 1 \in S
    <3>1. k + 1 \in 1..n /\ k + 1 \in Nat
      BY <1>1, SMT
    <3>2. e[k + 1] \in Method /\ host[c] \in Host /\ r[k] \in Seq(Message)
      BY <1>e, <1>h, <2>2, <3>1, Zenon DEF T
    <3> HIDE DEF r
    <3>3. Say(r[k], c, d, e[k + 1]) \in T
      BY <3>2, SayIs, Zenon DEF T
    <3>4. QED
      BY <3>1, <3>3, <1>10, Zenon
  <2> HIDE DEF S
  <2>3. \A k \in 0..n : k \in S
    BY <1>1, <2>1, <2>2, UpToInduction, Zenon
  <2>4. \A k \in 0..n : r[k] \in T
    BY <2>3, Zenon DEF S
  <2>5. r = [k \in 0..n |-> r[k]]
    BY Zenon
  <2> HIDE DEF r
  <2>6. QED
    BY <2>4, <2>5, Zenon
<1> HIDE DEF r
<1>13. Farewells(r, c, d)
  BY <1>0, <1>9, <1>10, <1>11, Zenon DEF Farewells, n
<1>14. QED
  BY <1>0, <1>12, <1>13, Zenon DEF n, T

-----------------------------------------------------------------------------
(* The same, counted.                                                      *)

\* What a message leaves of the count of h in a list of hosts of m.
After(m, h, x, n) ==
  IF x.op = "online" /\ x.method = m /\ x.host = h THEN n + 1
  ELSE IF x.op = "offline" /\ x.method = m /\ x.host = h /\ n # 0 THEN n - 1
  ELSE n

\* The client's handlers count as After says (client/service_manager.hpp:50-70).
LEMMA ApplyTimes ==
  ASSUME NEW m, NEW hosts \in Seq(Host), NEW x \in Message, NEW h
  PROVE  Times(Apply(m, hosts, x), h) = After(m, h, x, Times(hosts, h))
<1>1. CASE x.op = "online" /\ x.method = m
  <2>1. Apply(m, hosts, x) = Append(hosts, x.host) /\ x.host \in Host
    BY <1>1, ApplyIs, MessageIs, ZenonT(40)
  <2>2. Times(Append(hosts, x.host), h) = IF x.host = h THEN Times(hosts, h) + 1 ELSE Times(hosts, h)
    <3> DEFINE z == x.host
    <3>1. z \in Host
      BY <2>1
    <3> HIDE DEF z
    <3>2. Times(Append(hosts, z), h) = IF z = h THEN Times(hosts, h) + 1 ELSE Times(hosts, h)
      BY <3>1, TimesAppend, SMT
    <3>3. QED
      BY <3>2, Zenon DEF z
  <2>3. QED
    BY <1>1, <2>1, <2>2, Zenon DEF After
<1>2. CASE x.op = "offline" /\ x.method = m
  <2>1. Apply(m, hosts, x) = RemoveFirst(hosts, x.host)
    BY <1>2, ApplyIs, Zenon
  <2>2. Times(RemoveFirst(hosts, x.host), h) =
          IF x.host = h /\ Times(hosts, h) # 0 THEN Times(hosts, h) - 1 ELSE Times(hosts, h)
    BY TimesRemoveFirst, ZenonT(40)
  <2>3. QED
    BY <1>2, <2>1, <2>2, Zenon DEF After
<1>3. CASE x.op \in {"online", "offline"} => x.method # m
  <2>1. Apply(m, hosts, x) = hosts
    BY <1>3, ApplyIs, Zenon
  <2>2. QED
    BY <1>3, <2>1, Zenon DEF After
<1>4. QED
  BY <1>1, <1>2, <1>3, Zenon

-----------------------------------------------------------------------------
\* A list of hosts of m and the messages after it lead into P, which has the
\* counts that are right for each method and host.
Tracks(m, hosts, msgs, P) == \A h \in Host : Times(Replay(m, hosts, msgs), h) \in P[<<m, h>>]

\* What is right by P for the methods of A is right by Q.
Within(A, P, Q) == \A m \in A, h \in Host : P[<<m, h>>] \subseteq Q[<<m, h>>]

\* What is right by P for the methods of A is right by Q after x.
Moves(A, P, x, Q) ==
  \A m \in A, h \in Host : \A n \in P[<<m, h>>] : After(m, h, x, n) \in Q[<<m, h>>]

\* A message that changes the target as it changes lists may be sent.
LEMMA TracksAppend ==
  ASSUME NEW A, NEW m \in A, NEW hosts \in Seq(Host), NEW msgs \in Seq(Message),
         NEW x \in Message, NEW P, NEW Q, Tracks(m, hosts, msgs, P), Moves(A, P, x, Q)
  PROVE  Tracks(m, hosts, Append(msgs, x), Q)
<1> DEFINE r == Replay(m, hosts, msgs)
<1>1. r \in Seq(Host)
  BY ReplayType, Zenon
<1>2. Replay(m, hosts, Append(msgs, x)) = Apply(m, r, x)
  BY ReplayAppend, Zenon
<1>3. \A h \in Host : Times(r, h) \in P[<<m, h>>]
  BY Zenon DEF Tracks
<1> HIDE DEF r
<1>4. ASSUME NEW h \in Host PROVE Times(Apply(m, r, x), h) \in Q[<<m, h>>]
  <2>1. Times(Apply(m, r, x), h) = After(m, h, x, Times(r, h))
    BY <1>1, ApplyTimes, Zenon
  <2>2. After(m, h, x, Times(r, h)) \in Q[<<m, h>>]
    BY <1>3, Zenon DEF Moves
  <2>3. QED
    BY <2>1, <2>2, Zenon
<1>5. QED
  BY <1>2, <1>4, Zenon DEF Tracks

\* The first message may be applied.
LEMMA TracksTail ==
  ASSUME NEW m, NEW hosts \in Seq(Host), NEW msgs \in Seq(Message), msgs # <<>>,
         NEW P, Tracks(m, hosts, msgs, P)
  PROVE  Tracks(m, Apply(m, hosts, Head(msgs)), Tail(msgs), P)
BY ReplayTail, Zenon DEF Tracks

\* The target may grow.
LEMMA TracksSame ==
  ASSUME NEW A, NEW m \in A, NEW hosts, NEW msgs, NEW P, NEW Q,
         Tracks(m, hosts, msgs, P), Within(A, P, Q)
  PROVE  Tracks(m, hosts, msgs, Q)
BY Zenon DEF Tracks, Within

\* A list that is right leads into the target with no message.
LEMMA TracksEmpty ==
  ASSUME NEW m, NEW hosts \in Seq(Host), NEW P,
         \A h \in Host : Times(hosts, h) \in P[<<m, h>>]
  PROVE  Tracks(m, hosts, <<>>, P)
BY ReplayEmpty, Zenon DEF Tracks

-----------------------------------------------------------------------------
(* The answers in a sequence of messages.                                  *)

\* Every answer in out is to a request of R, for a method of A, and leads,
\* with the messages behind it, into P.
Answering(out, R, A, P) ==
  \A i \in 1..Len(out) :
    out[i].op = "discovered" =>
      /\ <<out[i].id, out[i].method>> \in R /\ out[i].method \in A
      /\ Tracks(out[i].method, out[i].hosts, SubSeq(out, i + 1, Len(out)), P)

\* What is behind a position, after one more is appended.
LEMMA SubSeqAppend ==
  ASSUME NEW S, NEW s \in Seq(S), NEW x \in S, NEW i \in 1..Len(s)
  PROVE  /\ SubSeq(s, i + 1, Len(s)) \in Seq(S)
         /\ SubSeq(Append(s, x), i + 1, Len(s) + 1) = Append(SubSeq(s, i + 1, Len(s)), x)
<1> DEFINE n == Len(s)
           t == Append(s, x)
           a == SubSeq(s, i + 1, n)
           b == SubSeq(t, i + 1, n + 1)
           c == Append(a, x)
<1>1. n \in Nat /\ i \in 1..n /\ i \in Nat /\ i <= n /\ n + 1 \in Nat /\ i <= n + 1
  BY SMT
<1>2. /\ t \in Seq(S) /\ Len(t) = n + 1
      /\ (\A j \in 1..n : t[j] = s[j]) /\ t[n + 1] = x
  BY AppendIs, SMT
<1>3. a \in Seq(S) /\ Len(a) = n - i /\ \A j \in 1..(n - i) : a[j] = s[i + j]
  BY SMT
<1>t. t = Append(s, x) /\ a = SubSeq(s, i + 1, n) /\ n = Len(s)
  OBVIOUS
<1> HIDE DEF t, a, n
<1>4. b \in Seq(S) /\ Len(b) = (n + 1) - i /\ \A j \in 1..((n + 1) - i) : b[j] = t[i + j]
  BY <1>1, <1>2, SMT
<1>5. c \in Seq(S) /\ Len(c) = Len(a) + 1 /\ (\A j \in 1..Len(a) : c[j] = a[j])
      /\ c[Len(a) + 1] = x
  BY <1>3, SMT
<1> HIDE DEF b, c
<1>6. ASSUME NEW j \in 1..Len(b) PROVE b[j] = c[j]
  <2>1. CASE j \in 1..(n - i)
    <3>1. j \in 1..((n + 1) - i) /\ i + j \in 1..n
      BY <2>1, <1>1, SMT
    <3>2. QED
      BY <2>1, <3>1, <1>2, <1>3, <1>4, <1>5, Zenon
  <2>2. CASE j \notin 1..(n - i)
    <3>1. j = (n - i) + 1 /\ i + j = n + 1
      BY <2>2, <1>1, <1>4, SMT
    <3>2. QED
      BY <3>1, <1>2, <1>3, <1>4, <1>5, Zenon
  <2>3. QED
    BY <2>1, <2>2, Zenon
<1>7. Len(b) = Len(c)
  BY <1>1, <1>3, <1>4, <1>5, SMT
<1>8. b = c
  BY <1>4, <1>5, <1>6, <1>7, SameSeq, Zenon
<1>9. QED
  BY <1>3, <1>8, <1>t, Zenon DEF b, c

\* One more message is sent.
LEMMA AnsweringAppend ==
  ASSUME NEW out \in Seq(Message), NEW x \in Message, NEW R, NEW A, NEW P, NEW Q,
         Answering(out, R, A, P), Moves(A, P, x, Q),
         x.op = "discovered" =>
           /\ <<x.id, x.method>> \in R /\ x.method \in A
           /\ Tracks(x.method, x.hosts, <<>>, Q)
  PROVE  Answering(Append(out, x), R, A, Q)
<1> DEFINE n == Len(out)
           o == Append(out, x)
<1>1. /\ o \in Seq(Message) /\ Len(o) = n + 1 /\ n \in Nat
      /\ (\A i \in 1..n : o[i] = out[i]) /\ o[n + 1] = x
  BY AppendIs, Zenon
<1>2. ASSUME NEW i \in 1..n, o[i].op = "discovered"
      PROVE  /\ <<o[i].id, o[i].method>> \in R /\ o[i].method \in A
             /\ Tracks(o[i].method, o[i].hosts, SubSeq(o, i + 1, n + 1), Q)
  <2> DEFINE y == out[i]
             s == SubSeq(out, i + 1, n)
  <2>1. o[i] = y /\ y \in Message
    <3>1. \A j \in 1..n : out[j] \in Message
      OBVIOUS
    <3>2. QED
      BY <3>1, <1>1, Zenon
  <2>2. y.op = "discovered" /\ <<y.id, y.method>> \in R /\ y.method \in A /\ Tracks(y.method, y.hosts, s, P)
    BY <1>2, <2>1, Zenon DEF Answering
  <2>3. y.hosts \in Seq(Host)
    BY <2>1, <2>2, MessageIs, Zenon
  <2>4. s \in Seq(Message) /\ SubSeq(o, i + 1, n + 1) = Append(s, x)
    BY SubSeqAppend, Zenon
  <2> HIDE DEF s, o, y, n
  <2>5. Tracks(y.method, y.hosts, Append(s, x), Q)
    BY <2>2, <2>3, <2>4, TracksAppend, Zenon
  <2>6. QED
    BY <2>1, <2>2, <2>4, <2>5, Zenon
<1>3. ASSUME o[n + 1].op = "discovered"
      PROVE  /\ <<o[n + 1].id, o[n + 1].method>> \in R /\ o[n + 1].method \in A
             /\ Tracks(o[n + 1].method, o[n + 1].hosts, SubSeq(o, (n + 1) + 1, n + 1), Q)
  <2>1. SubSeq(o, (n + 1) + 1, n + 1) = <<>>
    <3> HIDE DEF o, n
    <3>1. QED
      BY <1>1, SMT
  <2>2. QED
    BY <2>1, <1>1, <1>3, Zenon
<1> HIDE DEF o, n
<1>4. \A i \in 1..(n + 1) : i \in 1..n \/ i = n + 1
  BY <1>1, SMT
<1>5. QED
  BY <1>1, <1>2, <1>3, <1>4, Zenon DEF Answering, o

\* The target grows.
LEMMA AnsweringSame ==
  ASSUME NEW out, NEW R, NEW A, NEW P, NEW Q, Answering(out, R, A, P), Within(A, P, Q)
  PROVE  Answering(out, R, A, Q)
BY TracksSame, Zenon DEF Answering

\* More requests are due, more methods asked for.
LEMMA AnsweringMore ==
  ASSUME NEW out, NEW R, NEW T, NEW A, NEW B, NEW P,
         Answering(out, R, A, P), R \subseteq T, A \subseteq B
  PROVE  Answering(out, T, B, P)
BY Zenon DEF Answering

\* The first message is taken; if it is an answer, what is behind it says the
\* rest.
LEMMA AnsweringTail ==
  ASSUME NEW out \in Seq(Message), out # <<>>, NEW R, NEW A, NEW P,
         Answering(out, R, A, P)
  PROVE  /\ Answering(Tail(out), R, A, P)
         /\ Head(out).op = "discovered" =>
              /\ <<Head(out).id, Head(out).method>> \in R /\ Head(out).method \in A
              /\ Tracks(Head(out).method, Head(out).hosts, Tail(out), P)
<1> DEFINE n == Len(out)
           t == Tail(out)
           k == n - 1
<1>1. /\ t \in Seq(Message) /\ Len(t) = k /\ n \in Nat /\ n > 0
      /\ (\A i \in 1..k : t[i] = out[i + 1]) /\ out[1] = Head(out)
  BY SMT
<1>2. ASSUME NEW i \in 1..n PROVE SubSeq(out, i + 1, n) = SubSeq(t, i, k)
  <2> DEFINE a == SubSeq(out, i + 1, n)
             b == SubSeq(t, i, k)
  <2>1. a \in Seq(Message) /\ Len(a) = n - i /\ \A j \in 1..(n - i) : a[j] = out[i + j]
    BY SMT
  <2> HIDE DEF a, t
  <2>2. b \in Seq(Message) /\ Len(b) = n - i /\ \A j \in 1..(n - i) : b[j] = t[(i + j) - 1]
    BY <1>1, SMT
  <2>3. ASSUME NEW j \in 1..(n - i) PROVE a[j] = b[j]
    <3>1. (i + j) - 1 \in 1..k /\ ((i + j) - 1) + 1 = i + j
      BY <1>1, SMT
    <3>2. QED
      BY <3>1, <1>1, <2>1, <2>2, Zenon
  <2> HIDE DEF b
  <2>4. a = b
    BY <2>1, <2>2, <2>3, SameSeq, Zenon
  <2>5. QED
    BY <2>4, Zenon DEF a, b
<1>3. 1 \in 1..n /\ SubSeq(t, 1, k) = t
  <2> HIDE DEF t
  <2>1. QED
    BY <1>1, SMT
<1>4. \A i \in 1..n : out[i].op = "discovered" =>
        /\ <<out[i].id, out[i].method>> \in R /\ out[i].method \in A
        /\ Tracks(out[i].method, out[i].hosts, SubSeq(out, i + 1, n), P)
  BY Zenon DEF Answering
<1> HIDE DEF t, n
<1>5. ASSUME NEW i \in 1..k, t[i].op = "discovered"
      PROVE  /\ <<t[i].id, t[i].method>> \in R /\ t[i].method \in A
             /\ Tracks(t[i].method, t[i].hosts, SubSeq(t, i + 1, k), P)
  <2>1. i + 1 \in 1..n
    BY <1>1, SMT
  <2>2. t[i] = out[i + 1] /\ SubSeq(out, (i + 1) + 1, n) = SubSeq(t, i + 1, k)
    BY <2>1, <1>1, <1>2, Zenon
  <2>3. QED
    BY <2>1, <2>2, <1>4, <1>5, Zenon
<1>6. Answering(t, R, A, P)
  BY <1>1, <1>5, Zenon DEF Answering
<1>7. Head(out).op = "discovered" =>
        /\ <<Head(out).id, Head(out).method>> \in R /\ Head(out).method \in A
        /\ Tracks(Head(out).method, Head(out).hosts, t, P)
  BY <1>1, <1>2, <1>3, <1>4, Zenon
<1>8. QED
  BY <1>6, <1>7, Zenon DEF t

-----------------------------------------------------------------------------
(* What the client holds.                                                  *)

\* The counts that are right by the registry.
Target == [p \in Method \X Host |-> Right(p[1], p[2])]

\* The methods that the client is told about.
Asked == {m \in Method : Client \in discoverers[m]}

\* The counts that are not too high; the client knows nothing of the others.
Ceiling ==
  [p \in Method \X Host |-> IF p[1] \in Asked THEN 0..Announced(p[1], p[2]) ELSE {0}]

\* The lists the client holds lead into P if they go back to an answer, and
\* into U if they are made of notices, with the messages out.
Holding(out, A, P, U) ==
  /\ \A m \in Method :
       /\ basis[m] = "answer" => m \in A /\ Tracks(m, Cached(m), out, P)
       /\ basis[m] = "nothing" => Tracks(m, Cached(m), out, U)
  /\ \A t \in Thread : pc[t] = "answered" =>
       want[t] \in A /\ (~late[t] => Tracks(want[t], got[t], out, P))

\* So do the answers among them.
InHand(out, R, A, P, U) == Answering(out, R, A, P) /\ Holding(out, A, P, U)

\* The lists the client holds are lists of hosts.
HandTypes ==
  /\ \A m \in Method : Cached(m) \in Seq(Host)
  /\ \A t \in Thread : pc[t] = "answered" => got[t] \in Seq(Host)

\* One more message is sent to the client.
LEMMA InHandAppend ==
  ASSUME NEW out \in Seq(Message), NEW x \in Message, NEW R, NEW A \in SUBSET Method,
         NEW P, NEW Q, NEW U, NEW V,
         HandTypes, InHand(out, R, A, P, U), Moves(A, P, x, Q), Moves(Method, U, x, V),
         x.op = "discovered" =>
           /\ <<x.id, x.method>> \in R /\ x.method \in A
           /\ Tracks(x.method, x.hosts, <<>>, Q)
  PROVE  InHand(Append(out, x), R, A, Q, V)
<1>1. Answering(Append(out, x), R, A, Q)
  BY AnsweringAppend, Zenon DEF InHand
<1>2. ASSUME NEW m \in Method
      PROVE  /\ basis[m] = "answer" => m \in A /\ Tracks(m, Cached(m), Append(out, x), Q)
             /\ basis[m] = "nothing" => Tracks(m, Cached(m), Append(out, x), V)
  <2>1. /\ basis[m] = "answer" => m \in A /\ Tracks(m, Cached(m), out, P)
        /\ basis[m] = "nothing" => Tracks(m, Cached(m), out, U)
        /\ Cached(m) \in Seq(Host)
    BY Zenon DEF InHand, Holding, HandTypes
  <2>2. m \in A /\ Tracks(m, Cached(m), out, P) => Tracks(m, Cached(m), Append(out, x), Q)
    BY <2>1, TracksAppend, Zenon
  <2>3. Tracks(m, Cached(m), out, U) => Tracks(m, Cached(m), Append(out, x), V)
    BY <2>1, TracksAppend, Zenon
  <2>4. QED
    BY <2>1, <2>2, <2>3, Zenon
<1>3. ASSUME NEW t \in Thread, pc[t] = "answered"
      PROVE  want[t] \in A /\ (~late[t] => Tracks(want[t], got[t], Append(out, x), Q))
  <2>1. want[t] \in A /\ got[t] \in Seq(Host) /\ (~late[t] => Tracks(want[t], got[t], out, P))
    BY <1>3, Zenon DEF InHand, Holding, HandTypes
  <2>2. QED
    BY <2>1, TracksAppend, Zenon
<1>4. QED
  BY <1>1, <1>2, <1>3, Zenon DEF InHand, Holding

\* The targets grow.
LEMMA InHandSame ==
  ASSUME NEW out, NEW R, NEW A \in SUBSET Method, NEW P, NEW Q, NEW U, NEW V,
         InHand(out, R, A, P, U), Within(A, P, Q), Within(Method, U, V)
  PROVE  InHand(out, R, A, Q, V)
<1>1. Answering(out, R, A, Q)
  BY AnsweringSame, Zenon DEF InHand
<1>2. ASSUME NEW m \in Method
      PROVE  /\ basis[m] = "answer" => m \in A /\ Tracks(m, Cached(m), out, Q)
             /\ basis[m] = "nothing" => Tracks(m, Cached(m), out, V)
  <2>1. /\ basis[m] = "answer" => m \in A /\ Tracks(m, Cached(m), out, P)
        /\ basis[m] = "nothing" => Tracks(m, Cached(m), out, U)
    BY Zenon DEF InHand, Holding
  <2>2. QED
    BY <2>1, TracksSame, Zenon
<1>3. ASSUME NEW t \in Thread, pc[t] = "answered"
      PROVE  want[t] \in A /\ (~late[t] => Tracks(want[t], got[t], out, Q))
  <2>1. want[t] \in A /\ (~late[t] => Tracks(want[t], got[t], out, P))
    BY <1>3, Zenon DEF InHand, Holding
  <2>2. QED
    BY <2>1, TracksSame, Zenon
<1>4. QED
  BY <1>1, <1>2, <1>3, Zenon DEF InHand, Holding

\* More requests are due, more methods asked for.
LEMMA InHandMore ==
  ASSUME NEW out, NEW R, NEW T, NEW A, NEW B, NEW P, NEW U,
         InHand(out, R, A, P, U), R \subseteq T, A \subseteq B
  PROVE  InHand(out, T, B, P, U)
<1>1. Answering(out, T, B, P)
  BY AnsweringMore, Zenon DEF InHand
<1>2. Holding(out, B, P, U)
  BY Zenon DEF InHand, Holding
<1>3. QED
  BY <1>1, <1>2, Zenon DEF InHand

-----------------------------------------------------------------------------
(* Counting providers.                                                     *)

\* A provider has a host, and provides what it is listed for.
LEMMA RInvHosts ==
  ASSUME RInv
  PROVE  /\ \A c \in Conn : methods[c] # <<>> => host[c] \in Host
         /\ \A m \in Method : \A c \in providers[m] : c \in Conn /\ host[c] \in Host
         /\ \A m \in Method, c \in Conn : host[c] = None => c \notin providers[m]
         /\ \A m \in Method, c \in Conn : c \in providers[m] <=> m \in ToSet(methods[c])
<1>1. /\ host \in [Conn -> Host \cup {None}]
      /\ providers \in [Method -> SUBSET Conn]
      /\ \A c \in Conn : host[c] = None <=> methods[c] = <<>>
      /\ \A c \in Conn, m \in Method : c \in providers[m] <=> m \in ToSet(methods[c])
  BY Zenon DEF RInv, IndexTypeOK, IndexesAgree
<1>2. \A c \in Conn : methods[c] # <<>> => host[c] \in Host
  BY <1>1, Zenon
<1>3. \A m \in Method, c \in Conn : host[c] = None => c \notin providers[m]
  BY <1>1, ElementsOfEmpty, Zenon
<1>4. \A m \in Method : \A c \in providers[m] : c \in Conn /\ host[c] \in Host
  BY <1>1, <1>3, Zenon
<1>5. QED
  BY <1>1, <1>2, <1>3, <1>4, Zenon

Listed(m, h) == {c \in providers[m] : host[c] = h}

\* A host is provided as often as there are connections listed with it.
LEMMA ProvidedIs ==
  ASSUME NEW m, NEW h, IsFiniteSet(providers[m])
  PROVE  /\ IsFiniteSet(Listed(m, h)) /\ Provided(m, h) = Cardinality(Listed(m, h))
         /\ Provided(m, h) \in Nat
         /\ \A c \in Listed(m, h) : Provided(m, h) # 0
<1>1. Listed(m, h) \in SUBSET providers[m]
  BY Zenon DEF Listed
<1>2. IsFiniteSet(Listed(m, h))
  BY <1>1, FS_Subset, Zenon
<1>3. Provided(m, h) = Cardinality(Listed(m, h))
  BY Zenon DEF Provided, Listed
<1>4. Cardinality(Listed(m, h)) \in Nat
  BY <1>2, FS_CardinalityType, Zenon
<1>5. Cardinality(Listed(m, h)) = 0 <=> Listed(m, h) = {}
  BY <1>2, FS_EmptySet, Zenon
<1>6. QED
  BY <1>2, <1>3, <1>4, <1>5, Zenon

\* The hosts of an answer are those of the providers, one by one.
LEMMA AnswerCounts ==
  ASSUME NEW m, IsFiniteSet(providers[m]), \A c \in providers[m] : host[c] \in Host,
         NEW l \in SetToSeqs(providers[m]), NEW hosts, hosts = [i \in DOMAIN l |-> host[l[i]]]
  PROVE  hosts \in Seq(Host) /\ \A h \in Host : Times(hosts, h) = Provided(m, h)
<1> DEFINE S == providers[m]
           n == Cardinality(S)
<1>1. n \in Nat
  BY FS_CardinalityType, Zenon
<1>2. l \in [1..n -> S] /\ \A i, j \in 1..n : i # j => l[i] # l[j]
  BY Zenon DEF SetToSeqs
<1>3. DOMAIN l = 1..n
  BY <1>2, Zenon
<1>4. \A i \in 1..n : hosts[i] = host[l[i]] /\ host[l[i]] \in Host
  BY <1>2, <1>3, Zenon
<1>5. hosts \in [1..n -> Host]
  BY <1>3, <1>4, Zenon
<1>6. hosts \in Seq(Host) /\ Len(hosts) = n
  <2> HIDE DEF n
  <2>1. QED
    BY <1>1, <1>5, SMT
<1>7. \A c \in S : \E i \in 1..n : l[i] = c
  <2>1. IsFiniteSet(1..n) /\ Cardinality(1..n) = n
    <3>1. 1 \in Int /\ n \in Int /\ (IF 1 > n THEN 0 ELSE n - 1 + 1) = n
      <4> HIDE DEF n
      <4>1. QED
        BY <1>1, SMT
    <3>2. QED
      BY <3>1, FS_Interval, Zenon
  <2>2. l \in Injection(1..n, S)
    BY <1>2, Zenon DEF Injection, IsInjective
  <2>3. IsFiniteSet(S)
    BY Zenon
  <2>4. l \in Surjection(1..n, S)
    <3>1. Cardinality(1..n) = Cardinality(S)
      BY <2>1, Zenon
    <3> HIDE DEF n, S
    <3>2. QED
      BY <2>2, <2>3, <3>1, FS_Injection, Zenon
  <2>5. QED
    BY <2>4, Zenon DEF Surjection
<1>8. ASSUME NEW h \in Host PROVE Times(hosts, h) = Provided(m, h)
  <2> DEFINE I == {i \in 1..n : hosts[i] = h}
             J == Listed(m, h)
             f == [i \in I |-> l[i]]
  <2>1. IsFiniteSet(J) /\ Provided(m, h) = Cardinality(J)
    BY ProvidedIs, Zenon
  <2>2. IsFiniteSet(I) /\ Times(hosts, h) = Cardinality(I)
    BY <1>6, TimesIs, ZenonT(40) DEF Times
  <2>3. \A i \in I : l[i] \in J /\ i \in 1..n
    BY <1>2, <1>4, Zenon DEF Listed
  <2>4. \A c \in J : \E i \in I : l[i] = c
    <3>1. ASSUME NEW c \in J PROVE \E i \in I : l[i] = c
      <4>1. c \in S /\ host[c] = h
        BY Zenon DEF Listed
      <4>2. PICK i \in 1..n : l[i] = c
        BY <1>7, <4>1, Zenon
      <4>3. i \in I
        BY <4>1, <4>2, <1>4, Zenon
      <4>4. QED
        BY <4>2, <4>3, Zenon
    <3>2. QED
      BY <3>1, Zenon
  <2> HIDE DEF I, J, n, S
  <2>5. f \in Bijection(I, J)
    <3>1. f \in [I -> J] /\ \A i \in I : f[i] = l[i]
      BY <2>3, Zenon
    <3> HIDE DEF f
    <3>2. QED
      BY <3>1, <2>3, <2>4, <1>2, Zenon DEF Bijection, Injection, Surjection, IsInjective
  <2>6. Cardinality(J) = Cardinality(I)
    <3>1. ExistsBijection(I, J)
      BY <2>5, Zenon DEF ExistsBijection
    <3>2. QED
      BY <2>2, <3>1, FS_Bijection, Zenon
  <2>7. QED
    BY <2>1, <2>2, <2>6, Zenon
<1>9. QED
  BY <1>6, <1>8, Zenon

\* The sets counted here are finite.
Finite ==
  /\ \A m \in Method : IsFiniteSet(providers[m])
  /\ \A m \in Method, h \in Host : IsFiniteSet(Registrations(m, h))

\* The i-th registration of c was for m, with host h.
Entry(c, i, m, h) ==
  c \in providers[m] /\ host[c] = h /\ i \in DOMAIN methods[c] /\ methods[c][i] = m

\* Those are what is counted.
LEMMA RegistrationsAre ==
  \A m, h, p : p \in Registrations(m, h) <=> \E c, i : Entry(c, i, m, h) /\ p = <<c, i>>
<1>1. ASSUME NEW m, NEW h, NEW p
      PROVE  p \in Registrations(m, h) <=> \E c, i : Entry(c, i, m, h) /\ p = <<c, i>>
  BY DEF Registrations, Entry
<1>2. QED
  BY <1>1, Zenon

\* After a step too.
LEMMA RegistrationsNext ==
  \A m, h, p : p \in Registrations(m, h)' <=> \E c, i : Entry(c, i, m, h)' /\ p = <<c, i>>
<1>1. (\A m, h, p : p \in Registrations(m, h) <=> \E c, i : Entry(c, i, m, h) /\ p = <<c, i>>)'
  BY RegistrationsAre, PTL
<1>2. QED
  BY <1>1, Zenon

\* Every connection that provides m with h has registered it.
LEMMA ProvidedAnnounced ==
  RInv /\ Finite => \A m \in Method, h \in Host :
    /\ Provided(m, h) \in Nat /\ Announced(m, h) \in Nat
    /\ Provided(m, h) <= Announced(m, h)
<1> SUFFICES ASSUME RInv, Finite, NEW m \in Method, NEW h \in Host
             PROVE  /\ Provided(m, h) \in Nat /\ Announced(m, h) \in Nat
                    /\ Provided(m, h) <= Announced(m, h)
  OBVIOUS
<1> DEFINE L == Listed(m, h)
           W == Registrations(m, h)
           f == [p \in W |-> p[1]]
<1>1. IsFiniteSet(L) /\ Provided(m, h) = Cardinality(L) /\ Provided(m, h) \in Nat
  BY ProvidedIs, Zenon DEF Finite
<1>2. IsFiniteSet(W) /\ Announced(m, h) = Cardinality(W) /\ Announced(m, h) \in Nat
  BY FS_CardinalityType DEF Finite, Announced
<1>r. \A p : p \in W <=> \E c, i : Entry(c, i, m, h) /\ p = <<c, i>>
  BY RegistrationsAre
<1>3. \A p \in W : p[1] \in L
  <2>1. ASSUME NEW p \in W PROVE p[1] \in L
    <3>1. PICK c, i : Entry(c, i, m, h) /\ p = <<c, i>>
      BY <1>r, Zenon
    <3>2. p[1] = c
      BY <3>1
    <3>3. QED
      BY <3>1, <3>2, Zenon DEF Listed, Entry
  <2>2. QED
    BY <2>1, Zenon
<1>4. \A c \in L : \E p \in W : p[1] = c
  <2>1. ASSUME NEW c \in L PROVE \E p \in W : p[1] = c
    <3>1. c \in providers[m] /\ host[c] = h /\ m \in ToSet(methods[c])
      BY RInvHosts, Zenon DEF Listed
    <3>2. PICK i \in DOMAIN methods[c] : methods[c][i] = m
      BY <3>1, Zenon DEF ToSet
    <3>3. <<c, i>> \in W
      BY <3>1, <3>2, <1>r, Zenon DEF Entry
    <3>4. <<c, i>>[1] = c
      OBVIOUS
    <3>5. QED
      BY <3>3, <3>4, Zenon
  <2>2. QED
    BY <2>1, Zenon
<1> HIDE DEF L, W
<1>5. f \in Surjection(W, L)
  <2>1. f \in [W -> L] /\ \A p \in W : f[p] = p[1]
    BY <1>3, Zenon
  <2> HIDE DEF f
  <2>2. QED
    BY <2>1, <1>4, Zenon DEF Surjection
<1>6. Cardinality(L) <= Cardinality(W)
  BY <1>2, <1>5, FS_Surjection, Zenon
<1>7. QED
  BY <1>1, <1>2, <1>6, Zenon

\* What the registration of n by c, with host x, does for m.
Registers(c, n, x, m) ==
  /\ providers'[m] = IF m = n THEN providers[m] \cup {c} ELSE providers[m]
  /\ \A d \in Conn : d # c => host'[d] = host[d] /\ methods'[d] = methods[d]
  /\ host'[c] = x /\ (c \in providers[m] => host[c] = x)
  /\ methods'[c] = Append(methods[c], n) /\ methods[c] \in Seq(Method)
  /\ \A d \in providers[m] : d \in Conn

\* So much does it change: c has one more entry, and has its host.
LEMMA RegisterIs ==
  ASSUME RInv, NEW c \in Conn, NEW n \in Method, NEW x \in Host,
         OnRegister(c, n, x), host[c] \in {None, x}, NEW m \in Method
  PROVE  Registers(c, n, x, m)
<1>1. /\ host \in [Conn -> Host \cup {None}] /\ providers \in [Method -> SUBSET Conn]
      /\ methods \in [Conn -> Seq(Method)]
  BY Zenon DEF RInv, IndexTypeOK
<1>2. /\ host' = IF host[c] = None THEN [host EXCEPT ![c] = x] ELSE host
      /\ providers' = [providers EXCEPT ![n] = @ \cup {c}]
      /\ methods' = [methods EXCEPT ![c] = Append(@, n)]
  BY Zenon DEF OnRegister, AddProvider
<1>3. host'[c] = x
  <2>1. CASE host[c] = None
    BY <2>1, <1>1, <1>2, Zenon
  <2>2. CASE host[c] # None
    BY <2>2, <1>2, Zenon
  <2>3. QED
    BY <2>1, <2>2, Zenon
<1>4. c \in providers[m] => host[c] = x
  BY RInvHosts, Zenon
<1>5. \A d \in Conn : d # c => host'[d] = host[d] /\ methods'[d] = methods[d]
  BY <1>1, <1>2, Zenon
<1>6. methods'[c] = Append(methods[c], n) /\ methods[c] \in Seq(Method)
  BY <1>1, <1>2, Zenon
<1>7. /\ providers'[m] = IF m = n THEN providers[m] \cup {c} ELSE providers[m]
      /\ \A d \in providers[m] : d \in Conn
  BY <1>1, <1>2, Zenon
<1>8. QED
  BY <1>3, <1>4, <1>5, <1>6, <1>7, Zenon DEF Registers

\* Its connection counts once more for its host, if it did not provide the
\* method yet.
LEMMA RegisterProvided ==
  ASSUME RInv, Finite, NEW c \in Conn, NEW n \in Method, NEW x \in Host,
         OnRegister(c, n, x), host[c] \in {None, x}, NEW m \in Method, NEW h \in Host
  PROVE  /\ IsFiniteSet(providers'[m])
         /\ Provided(m, h)' = Provided(m, h) \/ Provided(m, h)' = Provided(m, h) + 1
         /\ m # n \/ h # x => Provided(m, h)' = Provided(m, h)
<1> DEFINE L == Listed(m, h)
           M == {d \in providers'[m] : host'[d] = h}
<1>1. /\ providers'[m] = IF m = n THEN providers[m] \cup {c} ELSE providers[m]
      /\ \A d \in Conn : d # c => host'[d] = host[d]
      /\ host'[c] = x /\ (c \in providers[m] => host[c] = x)
      /\ \A d \in providers[m] : d \in Conn
  <2>1. Registers(c, n, x, m)
    BY RegisterIs, Zenon
  <2>2. QED
    BY <2>1, Zenon DEF Registers
<1>2. IsFiniteSet(providers[m]) /\ IsFiniteSet(providers'[m])
  <2>1. IsFiniteSet(providers[m] \cup {c}) /\ IsFiniteSet(providers[m])
    BY FS_AddElement, Zenon DEF Finite
  <2>2. QED
    BY <2>1, <1>1, Zenon
<1>3. Provided(m, h)' = Cardinality(M)
  BY Zenon DEF Provided
<1>4. IsFiniteSet(L) /\ Provided(m, h) = Cardinality(L)
  BY <1>2, ProvidedIs, Zenon
<1>5. CASE m = n /\ h = x /\ c \notin providers[n]
  <2>1. M = L \cup {c} /\ c \notin L
    BY <1>1, <1>5, Zenon DEF Listed
  <2>2. Cardinality(L \cup {c}) = IF c \in L THEN Cardinality(L) ELSE Cardinality(L) + 1
    <3> HIDE DEF L
    <3>1. QED
      BY <1>4, FS_AddElement, Zenon
  <2>3. QED
    BY <1>2, <1>3, <1>4, <1>5, <2>1, <2>2, Zenon
<1>6. CASE ~(m = n /\ h = x /\ c \notin providers[n])
  <2>1. M = L
    <3>1. CASE c \in providers[m]
      <4>1. host'[c] = host[c] /\ providers'[m] = providers[m]
        BY <3>1, <1>1, Zenon
      <4>2. \A d \in providers[m] : host'[d] = host[d]
        BY <4>1, <1>1, Zenon
      <4>3. QED
        BY <4>1, <4>2, Zenon DEF Listed
    <3>2. CASE c \notin providers[m]
      <4>1. c \in providers'[m] => host'[c] # h
        BY <3>2, <1>6, <1>1, Zenon
      <4>2. \A d : d # c => (d \in providers'[m] <=> d \in providers[m])
        BY <1>1, Zenon
      <4>3. QED
        BY <4>1, <4>2, <3>2, <1>1, Zenon DEF Listed
    <3>3. QED
      BY <3>1, <3>2, Zenon
  <2>2. QED
    BY <2>1, <1>2, <1>3, <1>4, <1>6, Zenon
<1>7. QED
  BY <1>5, <1>6, Zenon

\* A list has the places it had, and one more.
LEMMA PlacesOfAppend ==
  ASSUME NEW S, NEW s \in Seq(S), NEW x \in S
  PROVE  /\ \A i : i \in DOMAIN Append(s, x) <=> i \in DOMAIN s \/ i = Len(s) + 1
         /\ \A i \in DOMAIN s : Append(s, x)[i] = s[i]
         /\ Append(s, x)[Len(s) + 1] = x /\ Len(s) + 1 \notin DOMAIN s
<1>1. /\ Len(s) \in Nat /\ DOMAIN s = 1..Len(s) /\ DOMAIN Append(s, x) = 1..(Len(s) + 1)
      /\ (\A i \in 1..Len(s) : Append(s, x)[i] = s[i]) /\ Append(s, x)[Len(s) + 1] = x
  BY SMT
<1>2. \A i : i \in 1..(Len(s) + 1) <=> i \in 1..Len(s) \/ i = Len(s) + 1
  BY <1>1, SMT
<1>3. Len(s) + 1 \notin 1..Len(s)
  BY <1>1, SMT
<1>4. QED
  BY <1>1, <1>2, <1>3, Zenon

\* One more for host x of method n.
Up(n, x, m, h, k) == IF m = n /\ h = x THEN k + 1 ELSE k

\* The registration counts once more for its host.
LEMMA RegisterAnnounced ==
  ASSUME RInv, Finite, NEW c \in Conn, NEW n \in Method, NEW x \in Host,
         OnRegister(c, n, x), host[c] \in {None, x}, NEW m \in Method, NEW h \in Host
  PROVE  /\ IsFiniteSet(Registrations(m, h)')
         /\ Announced(m, h)' = Up(n, x, m, h, Announced(m, h))
<1>0. PICK k, q : k = Len(methods[c]) + 1 /\ q = <<c, k>>
  OBVIOUS
<1> DEFINE W == Registrations(m, h)
           V == Registrations(m, h)'
<1>1. /\ providers'[m] = IF m = n THEN providers[m] \cup {c} ELSE providers[m]
      /\ \A d \in Conn : d # c => host'[d] = host[d] /\ methods'[d] = methods[d]
      /\ host'[c] = x /\ (c \in providers[m] => host[c] = x)
      /\ \A d \in providers[m] : d \in Conn
  <2>1. Registers(c, n, x, m)
    BY RegisterIs, Zenon
  <2>2. QED
    BY <2>1, Zenon DEF Registers
<1>2. /\ \A i : i \in DOMAIN methods'[c] <=> i \in DOMAIN methods[c] \/ i = k
      /\ \A i \in DOMAIN methods[c] : methods'[c][i] = methods[c][i]
      /\ methods'[c][k] = n /\ k \notin DOMAIN methods[c]
  <2>1. methods'[c] = Append(methods[c], n) /\ methods[c] \in Seq(Method)
    BY RegisterIs, Zenon DEF Registers
  <2> DEFINE s == methods[c]
  <2> HIDE DEF s
  <2>2. /\ \A i : i \in DOMAIN Append(s, n) <=> i \in DOMAIN s \/ i = Len(s) + 1
        /\ \A i \in DOMAIN s : Append(s, n)[i] = s[i]
        /\ Append(s, n)[Len(s) + 1] = n /\ Len(s) + 1 \notin DOMAIN s
    BY <2>1, PlacesOfAppend DEF s
  <2>3. QED
    BY <2>1, <2>2, <1>0, Zenon DEF s
<1>3. IsFiniteSet(W) /\ Announced(m, h) = Cardinality(W) /\ Announced(m, h)' = Cardinality(V)
  BY Zenon DEF Finite, Announced
<1>4. /\ \A p : p \in W <=> \E d, i : Entry(d, i, m, h) /\ p = <<d, i>>
      /\ \A p : p \in V <=> \E d, i : Entry(d, i, m, h)' /\ p = <<d, i>>
  BY RegistrationsAre, RegistrationsNext
<1>5. ~Entry(c, k, m, h)
  BY <1>2, Zenon DEF Entry
<1>6. c \in providers[m] <=> \E i \in DOMAIN methods[c] : methods[c][i] = m
  <2>1. c \in providers[m] <=> m \in ToSet(methods[c])
    BY RInvHosts, Zenon
  <2>2. QED
    BY <2>1, Zenon DEF ToSet
<1>7. ASSUME NEW d, NEW i
      PROVE  Entry(d, i, m, h)' <=> Entry(d, i, m, h) \/ (m = n /\ h = x /\ d = c /\ i = k)
  <2>1. CASE d # c
    <3>1. d \in providers'[m] <=> d \in providers[m]
      BY <2>1, <1>1, Zenon
    <3>2. d \in providers[m] => host'[d] = host[d] /\ methods'[d] = methods[d]
      BY <2>1, <1>1, Zenon
    <3>3. QED
      BY <2>1, <3>1, <3>2, Zenon DEF Entry
  <2>2. CASE d = c /\ i = k
    <3>1. Entry(c, k, m, h)' <=> m = n /\ h = x
      <4>1. c \in providers'[m] /\ methods'[c][k] = m => m = n
        BY <1>2, Zenon
      <4>2. m = n => c \in providers'[m]
        BY <1>1, Zenon
      <4>3. QED
        BY <4>1, <4>2, <1>1, <1>2, Zenon DEF Entry
    <3>2. QED
      BY <2>2, <3>1, <1>5, Zenon
  <2>3. CASE d = c /\ i # k
    <3>1. i \in DOMAIN methods'[c] /\ methods'[c][i] = m <=>
            i \in DOMAIN methods[c] /\ methods[c][i] = m
      BY <2>3, <1>2, Zenon
    <3>2. i \in DOMAIN methods[c] /\ methods[c][i] = m =>
            c \in providers[m] /\ c \in providers'[m] /\ host[c] = host'[c]
      BY <1>1, <1>6, Zenon
    <3>3. Entry(c, i, m, h)' <=> Entry(c, i, m, h)
      BY <3>1, <3>2, Zenon DEF Entry
    <3>4. QED
      BY <2>3, <3>3, Zenon
  <2>4. QED
    BY <2>1, <2>2, <2>3, Zenon
<1>8. q \notin W
  <2>1. \A d, i : q = <<d, i>> => d = c /\ i = k
    BY <1>0
  <2>2. q \in W => \E d, i : Entry(d, i, m, h) /\ q = <<d, i>>
    BY <1>4
  <2> HIDE DEF W
  <2>3. QED
    BY <2>1, <2>2, <1>5, Zenon
<1>9. \A p : p \in V <=> p \in W \/ (m = n /\ h = x /\ p = q)
  <2>1. ASSUME NEW p
        PROVE  p \in V <=> p \in W \/ (m = n /\ h = x /\ p = q)
    <3>1. /\ p \in W <=> \E d, i : Entry(d, i, m, h) /\ p = <<d, i>>
          /\ p \in V <=> \E d, i : Entry(d, i, m, h)' /\ p = <<d, i>>
      BY <1>4
    <3>2. \A d, i : Entry(d, i, m, h)' <=>
            Entry(d, i, m, h) \/ (m = n /\ h = x /\ d = c /\ i = k)
      BY <1>7
    <3>3. m = n /\ h = x => (p = q <=> \E d, i : m = n /\ h = x /\ d = c /\ i = k /\ p = <<d, i>>)
      BY <1>0
    <3> HIDE DEF W, V
    <3>4. QED
      BY <3>1, <3>2, <3>3, SMT
  <2> HIDE DEF W, V
  <2>2. QED
    BY <2>1, Zenon
<1> HIDE DEF W, V
<1>10. CASE m = n /\ h = x
  <2>1. V = W \cup {q}
    BY <1>9, <1>10, Zenon
  <2>2. /\ IsFiniteSet(W \cup {q})
        /\ Cardinality(W \cup {q}) = IF q \in W THEN Cardinality(W) ELSE Cardinality(W) + 1
    BY <1>3, FS_AddElement, Zenon
  <2>3. IsFiniteSet(V) /\ Cardinality(V) = Cardinality(W) + 1
    BY <2>1, <2>2, <1>8, Zenon
  <2>4. QED
    BY <2>3, <1>3, <1>10, Zenon DEF V, Up
<1>11. CASE ~(m = n /\ h = x)
  <2>1. V = W
    BY <1>9, <1>11, Zenon
  <2>2. QED
    BY <2>1, <1>3, <1>11, Zenon DEF V, Up
<1>12. QED
  BY <1>10, <1>11, Zenon

\* The counts that are right, before a step and after it.
LEMMA TargetIs ==
  ASSUME NEW m \in Method, NEW h \in Host
  PROVE  /\ Target[<<m, h>>] = Right(m, h) /\ Target'[<<m, h>>] = Right(m, h)'
         /\ Ceiling[<<m, h>>] = IF m \in Asked THEN 0..Announced(m, h) ELSE {0}
         /\ Ceiling'[<<m, h>>] = IF m \in Asked' THEN 0..Announced(m, h)' ELSE {0}
BY DEF Target, Ceiling

\* A notice that a host came counts once for its method and the host.
LEMMA AfterOnline ==
  ASSUME NEW n, NEW x, NEW m, NEW h, NEW k
  PROVE  After(m, h, Online(n, x), k) = Up(n, x, m, h, k)
BY DEF After, Online, Up

\* What is right stays right if the registry and the list both count one more.
LEMMA RightRegister ==
  ASSUME RInv, Finite, NEW c \in Conn, NEW n \in Method, NEW x \in Host,
         OnRegister(c, n, x), host[c] \in {None, x}, mixed \subseteq mixed',
         NEW m \in Method, NEW h \in Host
  PROVE  /\ \A k \in Right(m, h) : Up(n, x, m, h, k) \in Right(m, h)'
         /\ \A k \in 0..Announced(m, h) : Up(n, x, m, h, k) \in 0..Announced(m, h)'
<1> DEFINE p == Provided(m, h)
           a == Announced(m, h)
           p2 == Provided(m, h)'
           a2 == Announced(m, h)'
           lo == IF <<m, h>> \in mixed THEN 0 ELSE p
           lo2 == IF <<m, h>> \in mixed' THEN 0 ELSE p2
           new == m = n /\ h = x
<1>1. p \in Nat /\ a \in Nat /\ p <= a
  BY ProvidedAnnounced, Zenon
<1>2. a2 = IF new THEN a + 1 ELSE a
  <2>1. a2 = Up(n, x, m, h, a)
    BY RegisterAnnounced, Zenon
  <2>2. QED
    BY <2>1, Zenon DEF Up
<1>3. (p2 = p \/ p2 = p + 1) /\ (~new => p2 = p)
  BY RegisterProvided, Zenon
<1>4. Right(m, h) = lo..a /\ Right(m, h)' = lo2..a2
  BY Zenon DEF Right, Least
<1>5. (lo = 0 \/ lo = p) /\ (lo2 = 0 \/ lo2 = p2) /\ (lo # p => lo2 = 0)
  BY Zenon
<1> HIDE DEF p, a, p2, a2, lo, lo2
<1>6. \A k \in lo..a : Up(n, x, m, h, k) \in lo2..a2
  <2>1. \A k \in lo..a : (IF new THEN k + 1 ELSE k) \in lo2..a2
    <3> HIDE DEF new
    <3>1. QED
      BY <1>1, <1>2, <1>3, <1>5, SMT
  <2>2. QED
    BY <2>1, Zenon DEF Up
<1>7. \A k \in 0..a : Up(n, x, m, h, k) \in 0..a2
  <2>1. \A k \in 0..a : (IF new THEN k + 1 ELSE k) \in 0..a2
    <3> HIDE DEF new
    <3>1. QED
      BY <1>1, <1>2, SMT
  <2>2. QED
    BY <2>1, Zenon DEF Up
<1>8. QED
  BY <1>4, <1>6, <1>7, Zenon DEF a, a2

\* A registration moves the targets as its notice moves the lists.
LEMMA RegisterMoves ==
  ASSUME RInv, Finite, NEW c \in Conn, NEW n \in Method, NEW x \in Host,
         OnRegister(c, n, x), host[c] \in {None, x}, mixed \subseteq mixed', Asked' = Asked
  PROVE  /\ Moves(Method, Target, Online(n, x), Target')
         /\ Within(Method \ {n}, Target, Target')
         /\ n \in Asked => Moves(Method, Ceiling, Online(n, x), Ceiling')
         /\ n \notin Asked => Within(Method, Ceiling, Ceiling')
<1>1. ASSUME NEW m \in Method, NEW h \in Host
      PROVE  /\ \A k \in Target[<<m, h>>] : After(m, h, Online(n, x), k) \in Target'[<<m, h>>]
             /\ m # n => Target[<<m, h>>] \subseteq Target'[<<m, h>>]
             /\ n \in Asked =>
                  \A k \in Ceiling[<<m, h>>] : After(m, h, Online(n, x), k) \in Ceiling'[<<m, h>>]
             /\ n \notin Asked => Ceiling[<<m, h>>] \subseteq Ceiling'[<<m, h>>]
  <2> DEFINE T == Right(m, h)
             U == Right(m, h)'
             C == 0..Announced(m, h)
             D == 0..Announced(m, h)'
             New(k) == After(m, h, Online(n, x), k)
  <2>1. Target[<<m, h>>] = T /\ Target'[<<m, h>>] = U
    BY TargetIs, Zenon
  <2>2. /\ Ceiling[<<m, h>>] = IF m \in Asked THEN C ELSE {0}
        /\ Ceiling'[<<m, h>>] = IF m \in Asked THEN D ELSE {0}
    <3>1. /\ Ceiling[<<m, h>>] = IF m \in Asked THEN 0..Announced(m, h) ELSE {0}
          /\ Ceiling'[<<m, h>>] = IF m \in Asked' THEN 0..Announced(m, h)' ELSE {0}
      BY TargetIs
    <3>2. QED
      BY <3>1, Zenon
  <2>3. \A k : New(k) = Up(n, x, m, h, k)
    BY AfterOnline, Zenon
  <2>4. /\ \A k \in Right(m, h) : Up(n, x, m, h, k) \in Right(m, h)'
        /\ \A k \in 0..Announced(m, h) : Up(n, x, m, h, k) \in 0..Announced(m, h)'
    BY RightRegister, Zenon
  <2>5. (\A k \in T : New(k) \in U) /\ (\A k \in C : New(k) \in D)
    BY <2>3, <2>4, Zenon
  <2>6. m # n => \A k : New(k) = k
    BY <2>3, Zenon DEF Up
  <2> HIDE DEF T, U, C, D, New
  <2>7. m # n => T \subseteq U /\ C \subseteq D
    BY <2>5, <2>6, Zenon
  <2>8. m # n => New(0) = 0
    BY <2>6, Zenon
  <2>9. /\ \A k \in Target[<<m, h>>] : New(k) \in Target'[<<m, h>>]
        /\ m # n => Target[<<m, h>>] \subseteq Target'[<<m, h>>]
    BY <2>1, <2>5, <2>7, Zenon
  <2>10. /\ n \in Asked => \A k \in Ceiling[<<m, h>>] : New(k) \in Ceiling'[<<m, h>>]
         /\ n \notin Asked => Ceiling[<<m, h>>] \subseteq Ceiling'[<<m, h>>]
    <3>1. CASE m \in Asked
      <4>1. Ceiling[<<m, h>>] = C /\ Ceiling'[<<m, h>>] = D
        BY <3>1, <2>2, Zenon
      <4>2. n \notin Asked => m # n
        BY <3>1, Zenon
      <4>3. QED
        BY <4>1, <4>2, <2>5, <2>7, Zenon
    <3>2. CASE m \notin Asked
      <4>1. Ceiling[<<m, h>>] = {0} /\ Ceiling'[<<m, h>>] = {0}
        BY <3>2, <2>2, Zenon
      <4>2. n \in Asked => New(0) = 0
        BY <3>2, <2>8, Zenon
      <4>3. QED
        BY <4>1, <4>2, Zenon
    <3>3. QED
      BY <3>1, <3>2, Zenon
  <2>11. QED
    BY <2>9, <2>10, Zenon DEF New
<1>2. QED
  BY <1>1, Zenon DEF Moves, Within

\* What is left of a count when k go, for there are no fewer than none.
Monus(n, k) == IF k < n THEN n - k ELSE 0

\* How many of the first k registrations of c were for m.
Said(c, k, m) == Cardinality({j \in 1..k : methods[c][j] = m})

\* What the notices for those leave of a count of h.
Part(c, k, m, h, n) == IF h = host[c] THEN Monus(n, Said(c, k, m)) ELSE n

\* What the end of c's connection does for m.
Leaves(c, m) ==
  /\ providers'[m] = providers[m] \ {c}
  /\ \A d \in providers[m] : d # c => host'[d] = host[d] /\ methods'[d] = methods[d]
  /\ methods[c] \in Seq(Method)
  /\ c \in providers[m] <=> \E i \in DOMAIN methods[c] : methods[c][i] = m

\* So much does it do.
LEMMA LeaveIs ==
  ASSUME RInv, NEW c \in Conn, OnShutDown(c), NEW m \in Method
  PROVE  Leaves(c, m)
<1>1. /\ host \in [Conn -> Host \cup {None}] /\ providers \in [Method -> SUBSET Conn]
      /\ methods \in [Conn -> Seq(Method)]
  BY Zenon DEF RInv, IndexTypeOK
<1>2. /\ host' = [host EXCEPT ![c] = None] /\ methods' = [methods EXCEPT ![c] = <<>>]
      /\ providers' = [k \in Method |->
           IF k \in ToSet(methods[c]) THEN providers[k] \ {c} ELSE providers[k]]
  BY Zenon DEF OnShutDown, RemoveProvider
<1>3. c \in providers[m] <=> m \in ToSet(methods[c])
  BY RInvHosts, Zenon
<1>4. c \in providers[m] <=> \E i \in DOMAIN methods[c] : methods[c][i] = m
  BY <1>3, Zenon DEF ToSet
<1>5. providers'[m] = providers[m] \ {c}
  BY <1>2, <1>3, Zenon
<1>6. \A d \in Conn : d # c => host'[d] = host[d] /\ methods'[d] = methods[d]
  BY <1>1, <1>2, Zenon
<1>7. \A d \in providers[m] : d # c => host'[d] = host[d] /\ methods'[d] = methods[d]
  BY <1>1, <1>6, Zenon
<1>8. QED
  BY <1>1, <1>4, <1>5, <1>7, Zenon DEF Leaves

\* A provider that leaves is one less with its host for what it provided.
LEMMA LeaveProvided ==
  ASSUME RInv, Finite, NEW c \in Conn, OnShutDown(c), NEW m \in Method, NEW h \in Host
  PROVE  /\ IsFiniteSet(providers'[m])
         /\ c \in providers[m] /\ h = host[c] => Provided(m, h)' = Provided(m, h) - 1
         /\ c \notin providers[m] \/ h # host[c] => Provided(m, h)' = Provided(m, h)
<1>1. Leaves(c, m)
  BY LeaveIs, Zenon
<1>2. /\ providers'[m] = providers[m] \ {c}
      /\ \A d \in providers[m] : d # c => host'[d] = host[d]
  BY <1>1, Zenon DEF Leaves
<1>3. IsFiniteSet(providers[m]) /\ IsFiniteSet(providers'[m])
  BY <1>2, FS_RemoveElement, ZenonT(40) DEF Finite
<1> DEFINE L == Listed(m, h)
           M == {d \in providers'[m] : host'[d] = h}
<1>4. Provided(m, h)' = Cardinality(M)
  BY Zenon DEF Provided
<1>5. IsFiniteSet(L) /\ Provided(m, h) = Cardinality(L)
  BY <1>3, ProvidedIs, Zenon
<1>6. M = L \ {c}
  BY <1>2, Zenon DEF Listed
<1>7. Cardinality(L \ {c}) = IF c \in L THEN Cardinality(L) - 1 ELSE Cardinality(L)
  <2> HIDE DEF L
  <2>1. QED
    BY <1>5, FS_RemoveElement, Zenon
<1>8. c \in L <=> c \in providers[m] /\ h = host[c]
  BY Zenon DEF Listed
<1> HIDE DEF L, M
<1>9. QED
  BY <1>3, <1>4, <1>5, <1>6, <1>7, <1>8, Zenon

\* So many of them are in the list.
LEMMA SaidIs ==
  ASSUME NEW c, methods[c] \in Seq(Method), NEW k \in 0..Len(methods[c]), NEW m
  PROVE  /\ Said(c, k, m) \in Nat /\ IsFiniteSet({j \in 1..k : methods[c][j] = m})
         /\ Said(c, k, m) = 0 <=> ~\E j \in 1..k : methods[c][j] = m
<1> DEFINE I == {j \in 1..k : methods[c][j] = m}
<1>1. Len(methods[c]) \in Nat
  <2> DEFINE s == methods[c]
  <2>1. s \in Seq(Method)
    OBVIOUS
  <2> HIDE DEF s
  <2>2. Len(s) \in Nat
    BY <2>1, SMT
  <2>3. QED
    BY <2>2 DEF s
<1>2. 1 \in Int /\ k \in Int
  BY <1>1, SMT
<1>3. IsFiniteSet(1..k)
  BY <1>2, FS_Interval, Zenon
<1>4. IsFiniteSet(I)
  <2>1. I \in SUBSET (1..k)
    BY Zenon
  <2>2. QED
    BY <1>3, <2>1, FS_Subset, Zenon
<1>5. Cardinality(I) \in Nat /\ (Cardinality(I) = 0 <=> I = {})
  BY <1>4, FS_CardinalityType, FS_EmptySet, Zenon
<1>6. I = {} <=> ~\E j \in 1..k : methods[c][j] = m
  BY Zenon
<1>7. QED
  BY <1>4, <1>5, <1>6, Zenon DEF Said

\* It takes all its registrations with it.
LEMMA LeaveAnnounced ==
  ASSUME RInv, Finite, NEW c \in Conn, OnShutDown(c), NEW m \in Method, NEW h \in Host
  PROVE  /\ IsFiniteSet(Registrations(m, h)')
         /\ h = host[c] => Announced(m, h)' = Announced(m, h) - Said(c, Len(methods[c]), m)
         /\ h # host[c] => Announced(m, h)' = Announced(m, h)
<1> DEFINE W == Registrations(m, h)
           V == Registrations(m, h)'
           s == methods[c]
           I == {j \in 1..Len(s) : s[j] = m}
           B == {c} \X I
<1>1. Leaves(c, m)
  BY LeaveIs, Zenon
<1>2. /\ providers'[m] = providers[m] \ {c}
      /\ \A d \in providers[m] : d # c => host'[d] = host[d] /\ methods'[d] = methods[d]
      /\ s \in Seq(Method)
      /\ c \in providers[m] <=> \E i \in DOMAIN s : s[i] = m
  BY <1>1, Zenon DEF Leaves
<1>3. IsFiniteSet(W) /\ Announced(m, h) = Cardinality(W) /\ Announced(m, h)' = Cardinality(V)
  BY Zenon DEF Finite, Announced
<1>4. /\ \A p : p \in W <=> \E d, i : Entry(d, i, m, h) /\ p = <<d, i>>
      /\ \A p : p \in V <=> \E d, i : Entry(d, i, m, h)' /\ p = <<d, i>>
  BY RegistrationsAre, RegistrationsNext
<1>5. ASSUME NEW d, NEW i
      PROVE  Entry(d, i, m, h)' <=> Entry(d, i, m, h) /\ d # c
  <2>1. d \in providers'[m] <=> d \in providers[m] /\ d # c
    BY <1>2, Zenon
  <2>2. d \in providers[m] /\ d # c => host'[d] = host[d] /\ methods'[d] = methods[d]
    BY <1>2, Zenon
  <2>3. QED
    BY <2>1, <2>2, Zenon DEF Entry
<1>6. DOMAIN s = 1..Len(s) /\ Len(s) \in 0..Len(s)
  <2> HIDE DEF s
  <2>1. QED
    BY <1>2, SMT
<1>7. IsFiniteSet(I) /\ Said(c, Len(s), m) = Cardinality(I)
  <2>1. IsFiniteSet({j \in 1..Len(methods[c]) : methods[c][j] = m})
    BY <1>2, <1>6, SaidIs, ZenonT(60)
  <2>2. QED
    BY <2>1, Zenon DEF Said
<1>8. ASSUME NEW i PROVE Entry(c, i, m, h) <=> i \in I /\ h = host[c]
  BY <1>2, <1>6, Zenon DEF Entry
<1>9. Cardinality(B) = Cardinality(I) /\ IsFiniteSet(B)
  <2>1. IsFiniteSet({c}) /\ Cardinality({c}) = 1
    BY FS_Singleton, Zenon
  <2>2. IsFiniteSet(B) /\ Cardinality(B) = Cardinality({c}) * Cardinality(I)
    <3> HIDE DEF I
    <3>1. QED
      BY <2>1, <1>7, FS_Product, Zenon
  <2>3. Cardinality(I) \in Nat
    BY <1>7, FS_CardinalityType, Zenon
  <2> HIDE DEF I, B
  <2>4. QED
    BY <2>1, <2>2, <2>3, SMT
<1>10. ASSUME NEW p PROVE p \in V <=> p \in W /\ ~(h = host[c] /\ p \in B)
  <2>1. /\ p \in W <=> \E d, i : Entry(d, i, m, h) /\ p = <<d, i>>
        /\ p \in V <=> \E d, i : Entry(d, i, m, h)' /\ p = <<d, i>>
    BY <1>4
  <2>2. \A d, i : Entry(d, i, m, h)' <=> Entry(d, i, m, h) /\ d # c
    BY <1>5
  <2>3. \A d, i : p = <<d, i>> => (p \in B <=> d = c /\ i \in I)
    OBVIOUS
  <2>4. \A i : Entry(c, i, m, h) <=> i \in I /\ h = host[c]
    BY <1>8
  <2>5. \A d, i, e, j : p = <<d, i>> /\ p = <<e, j>> => d = e /\ i = j
    OBVIOUS
  <2> HIDE DEF W, V, B, I, s
  <2>6. QED
    BY <2>1, <2>2, <2>3, <2>4, <2>5, SMT
<1>11. h = host[c] => B \subseteq W
  <2>1. ASSUME h = host[c], NEW p \in B PROVE p \in W
    <3>1. PICK i \in I : p = <<c, i>>
      OBVIOUS
    <3>2. Entry(c, i, m, h)
      BY <2>1, <1>8, Zenon
    <3>3. QED
      BY <3>1, <3>2, <1>4
  <2>2. QED
    BY <2>1, Zenon
<1> HIDE DEF W, V, B, I, s
<1>12. CASE h = host[c]
  <2>1. V = W \ B /\ W \cap B = B
    BY <1>10, <1>11, <1>12, Zenon
  <2>2. IsFiniteSet(W \ B) /\ Cardinality(W \ B) = Cardinality(W) - Cardinality(W \cap B)
    BY <1>3, FS_Difference, Zenon
  <2>3. IsFiniteSet(V) /\ Cardinality(V) = Cardinality(W) - Said(c, Len(s), m)
    BY <2>1, <2>2, <1>7, <1>9, Zenon
  <2>4. QED
    BY <2>3, <1>3, <1>12, Zenon DEF V, s
<1>13. CASE h # host[c]
  <2>1. V = W
    BY <1>10, <1>13, Zenon
  <2>2. QED
    BY <2>1, <1>3, <1>13, Zenon DEF V
<1>14. QED
  BY <1>12, <1>13, Zenon

\* The same holds after a step.
LEMMA ProvidedNext ==
  RInv' /\ Finite' => \A m \in Method, h \in Host :
    /\ Provided(m, h)' \in Nat /\ Announced(m, h)' \in Nat
    /\ Provided(m, h)' <= Announced(m, h)'
<1>1. (RInv /\ Finite => \A m \in Method, h \in Host :
         /\ Provided(m, h) \in Nat /\ Announced(m, h) \in Nat
         /\ Provided(m, h) <= Announced(m, h))'
  BY ProvidedAnnounced, PTL
<1>2. QED
  BY <1>1

\* What is right stays right if the registry forgets what c registered and the
\* list loses as much: only the list of a mixed host can then have too few.
LEMMA RightLeave ==
  ASSUME RInv, Finite, RInv', Finite', NEW c \in Conn, OnShutDown(c), mixed' = mixed,
         NEW m \in Method, NEW h \in Host, Mixed(m, h) => <<m, h>> \in mixed
  PROVE  /\ \A k \in Right(m, h) : Part(c, Len(methods[c]), m, h, k) \in Right(m, h)'
         /\ \A k \in 0..Announced(m, h) :
              Part(c, Len(methods[c]), m, h, k) \in 0..Announced(m, h)'
         /\ Mixed(m, h)' => Mixed(m, h)
<1> DEFINE p == Provided(m, h)
           a == Announced(m, h)
           p2 == Provided(m, h)'
           a2 == Announced(m, h)'
           mx == <<m, h>> \in mixed
           lo == IF mx THEN 0 ELSE p
           lo2 == IF mx THEN 0 ELSE p2
           t == Said(c, Len(methods[c]), m)
           f(k) == Part(c, Len(methods[c]), m, h, k)
<1>1. p \in Nat /\ a \in Nat /\ p <= a
  BY ProvidedAnnounced, Zenon
<1>2. p2 \in Nat /\ a2 \in Nat /\ p2 <= a2
  BY ProvidedNext, Zenon
<1>3. Right(m, h) = lo..a /\ Right(m, h)' = lo2..a2
  BY Zenon DEF Right, Least
<1>4. t \in Nat /\ (t = 0 <=> c \notin providers[m])
  <2>1. Leaves(c, m)
    BY LeaveIs, Zenon
  <2>2. methods[c] \in Seq(Method) /\ (c \in providers[m] <=> \E i \in DOMAIN methods[c] : methods[c][i] = m)
    BY <2>1, Zenon DEF Leaves
  <2>3. DOMAIN methods[c] = 1..Len(methods[c]) /\ Len(methods[c]) \in 0..Len(methods[c])
    BY <2>2, SMT
  <2>4. t \in Nat /\ (t = 0 <=> ~\E j \in 1..Len(methods[c]) : methods[c][j] = m)
    BY <2>2, <2>3, SaidIs, Zenon
  <2>5. QED
    BY <2>2, <2>3, <2>4, Zenon
<1>5. /\ h = host[c] => a2 = a - t
      /\ h # host[c] => a2 = a
  BY LeaveAnnounced, Zenon
<1>6. /\ h = host[c] /\ t # 0 => p2 = p - 1
      /\ h # host[c] \/ t = 0 => p2 = p
  BY <1>4, LeaveProvided, Zenon
<1>7. Mixed(m, h) <=> p > 1 /\ a > p
  BY Zenon DEF Mixed
<1>8. Mixed(m, h)' <=> p2 > 1 /\ a2 > p2
  BY Zenon DEF Mixed
<1>9. /\ h = host[c] => \A k : f(k) = IF t < k THEN k - t ELSE 0
      /\ h # host[c] => \A k : f(k) = k
  BY Zenon DEF Part, Monus
<1>10. ~mx => ~(p > 1 /\ a > p)
  BY <1>7, Zenon
<1> HIDE DEF p, a, p2, a2, t, f, mx
<1>11. \A k \in lo..a : f(k) \in lo2..a2
  <2>1. CASE h = host[c] /\ t # 0
    <3>1. a2 = a - t /\ p2 = p - 1
      BY <2>1, <1>5, <1>6, Zenon
    <3>2. \A k : f(k) = IF t < k THEN k - t ELSE 0
      BY <2>1, <1>9, Zenon
    <3>3. QED
      BY <2>1, <3>1, <3>2, <1>1, <1>2, <1>4, <1>10, SMT
  <2>2. CASE h = host[c] /\ t = 0
    BY <2>2, <1>1, <1>2, <1>5, <1>6, <1>9, SMT
  <2>3. CASE h # host[c]
    BY <2>3, <1>1, <1>5, <1>6, <1>9, SMT
  <2>4. QED
    BY <2>1, <2>2, <2>3, Zenon
<1>12. \A k \in 0..a : f(k) \in 0..a2
  BY <1>1, <1>2, <1>4, <1>5, <1>9, SMT
<1>13. p2 > 1 /\ a2 > p2 => p > 1 /\ a > p
  BY <1>1, <1>2, <1>4, <1>5, <1>6, SMT
<1>14. QED
  BY <1>3, <1>7, <1>8, <1>11, <1>12, <1>13, Zenon DEF a, a2, f, lo, lo2

-----------------------------------------------------------------------------
(* The notices that a provider left, one by one.                           *)

\* What is right after the notices for the first k registrations of c.
Parts(c, k, P) == [p \in Method \X Host |-> {Part(c, k, p[1], p[2], n) : n \in P[p]}]

\* It is what was right before, less what those say.
LEMMA PartsAre ==
  ASSUME NEW c, NEW k, NEW P, NEW m \in Method, NEW h \in Host
  PROVE  /\ \A n \in P[<<m, h>>] : Part(c, k, m, h, n) \in Parts(c, k, P)[<<m, h>>]
         /\ \A x \in Parts(c, k, P)[<<m, h>>] : \E n \in P[<<m, h>>] : x = Part(c, k, m, h, n)
BY DEF Parts

\* One registration more is one more for its method.
LEMMA SaidStep ==
  ASSUME NEW c, methods[c] \in Seq(Method), NEW k \in 0..(Len(methods[c]) - 1), NEW m
  PROVE  /\ Said(c, k, m) \in Nat
         /\ methods[c][k + 1] = m => Said(c, k + 1, m) = Said(c, k, m) + 1
         /\ methods[c][k + 1] # m => Said(c, k + 1, m) = Said(c, k, m)
<1> DEFINE s == methods[c]
           I == {j \in 1..k : s[j] = m}
           J == {j \in 1..(k + 1) : s[j] = m}
<1>1. Len(s) \in Nat
  <2>1. s \in Seq(Method)
    OBVIOUS
  <2> HIDE DEF s
  <2>2. QED
    BY <2>1, SMT
<1>2. /\ k \in Nat /\ k \in 0..Len(s) /\ k + 1 \notin 1..k
      /\ \A j : j \in 1..(k + 1) <=> j \in 1..k \/ j = k + 1
  <2> HIDE DEF s
  <2>1. k \in Nat /\ k \in 0..Len(s) /\ k + 1 \notin 1..k
    BY <1>1, SMT DEF s
  <2>2. \A j : j \in 1..(k + 1) <=> j \in 1..k \/ j = k + 1
    BY <2>1, SMT
  <2>3. QED
    BY <2>1, <2>2, Zenon
<1>3. IsFiniteSet(I) /\ Said(c, k, m) \in Nat
  BY <1>2, SaidIs, Zenon
<1>4. Said(c, k, m) = Cardinality(I) /\ Said(c, k + 1, m) = Cardinality(J)
  BY Zenon DEF Said
<1>5. k + 1 \notin I
  BY <1>2, Zenon
<1>6. /\ s[k + 1] = m => J = I \cup {k + 1}
      /\ s[k + 1] # m => J = I
  BY <1>2, Zenon
<1> HIDE DEF I, J
<1>7. Cardinality(I \cup {k + 1}) = IF k + 1 \in I THEN Cardinality(I) ELSE Cardinality(I) + 1
  BY <1>3, FS_AddElement, Zenon
<1>8. QED
  BY <1>3, <1>4, <1>5, <1>6, <1>7, Zenon

\* Its notice takes as much from a list.
LEMMA PartStep ==
  ASSUME NEW c, methods[c] \in Seq(Method), NEW k \in 0..(Len(methods[c]) - 1),
         NEW x, x = Offline(methods[c][k + 1], host[c]), NEW m, NEW h, NEW n \in Nat
  PROVE  /\ After(m, h, x, Part(c, k, m, h, n)) = Part(c, k + 1, m, h, n)
         /\ methods[c][k + 1] # m => Part(c, k + 1, m, h, n) = Part(c, k, m, h, n)
<1> DEFINE a == Said(c, k, m)
           b == Said(c, k + 1, m)
           e == methods[c][k + 1]
<1>1. a \in Nat /\ (e = m => b = a + 1) /\ (e # m => b = a)
  BY SaidStep, Zenon
<1>2. x.op = "offline" /\ x.op # "online" /\ x.method = e /\ x.host = host[c]
  BY DEF Offline
<1>3. \A j : After(m, h, x, j) = IF e = m /\ host[c] = h /\ j # 0 THEN j - 1 ELSE j
  <2> HIDE DEF e
  <2>1. QED
    BY <1>2, Zenon DEF After
<1>4. /\ h = host[c] => Part(c, k, m, h, n) = Monus(n, a) /\ Part(c, k + 1, m, h, n) = Monus(n, b)
      /\ h # host[c] => Part(c, k, m, h, n) = n /\ Part(c, k + 1, m, h, n) = n
  BY Zenon DEF Part
<1> HIDE DEF a, b, e
<1>a. a \in Nat /\ n \in Nat
  BY <1>1, Zenon
<1>5. (IF Monus(n, a) # 0 THEN Monus(n, a) - 1 ELSE Monus(n, a)) = Monus(n, a + 1)
  <2>1. CASE a < n
    <3>1. Monus(n, a) = n - a /\ n - a # 0
      BY <2>1, <1>a, SMT DEF Monus
    <3>2. Monus(n, a + 1) = (n - a) - 1
      BY <2>1, <1>a, SMT DEF Monus
    <3>3. QED
      BY <3>1, <3>2, Zenon
  <2>2. CASE ~(a < n)
    <3>1. Monus(n, a) = 0 /\ Monus(n, a + 1) = 0
      BY <2>2, <1>a, SMT DEF Monus
    <3>2. QED
      BY <3>1, Zenon
  <2>3. QED
    BY <2>1, <2>2, Zenon
<1>6. CASE h = host[c] /\ e = m
  <2>1. Part(c, k, m, h, n) = Monus(n, a) /\ Part(c, k + 1, m, h, n) = Monus(n, a + 1)
    BY <1>1, <1>4, <1>6, Zenon
  <2>2. \A j : After(m, h, x, j) = IF j # 0 THEN j - 1 ELSE j
    BY <1>3, <1>6, Zenon
  <2>3. After(m, h, x, Monus(n, a)) = Monus(n, a + 1)
    BY <2>2, <1>5, Zenon
  <2>4. QED
    BY <2>1, <2>3, <1>6, Zenon DEF e
<1>7. CASE h # host[c] \/ e # m
  BY <1>1, <1>3, <1>4, <1>7, Zenon
<1>8. QED
  BY <1>1, <1>4, <1>6, <1>7, Zenon DEF e

\* So its notice moves what is right on.
LEMMA PartsStep ==
  ASSUME NEW c, methods[c] \in Seq(Method), NEW k \in 0..(Len(methods[c]) - 1),
         NEW x, x = Offline(methods[c][k + 1], host[c]),
         NEW P, \A m \in Method, h \in Host : P[<<m, h>>] \subseteq Nat
  PROVE  /\ Moves(Method, Parts(c, k, P), x, Parts(c, k + 1, P))
         /\ \A m \in Method, h \in Host : methods[c][k + 1] # m =>
              Parts(c, k, P)[<<m, h>>] \subseteq Parts(c, k + 1, P)[<<m, h>>]
<1>1. ASSUME NEW m \in Method, NEW h \in Host, NEW y \in Parts(c, k, P)[<<m, h>>]
      PROVE  /\ After(m, h, x, y) \in Parts(c, k + 1, P)[<<m, h>>]
             /\ methods[c][k + 1] # m => y \in Parts(c, k + 1, P)[<<m, h>>]
  <2>1. PICK n \in P[<<m, h>>] : y = Part(c, k, m, h, n)
    BY PartsAre
  <2>2. n \in Nat
    BY Zenon
  <2>3. Part(c, k + 1, m, h, n) \in Parts(c, k + 1, P)[<<m, h>>]
    BY PartsAre, Zenon
  <2>4. /\ After(m, h, x, Part(c, k, m, h, n)) = Part(c, k + 1, m, h, n)
        /\ methods[c][k + 1] # m => Part(c, k + 1, m, h, n) = Part(c, k, m, h, n)
    BY <2>2, PartStep
  <2>5. QED
    BY <2>1, <2>3, <2>4, Zenon
<1>2. QED
  BY <1>1, Zenon DEF Moves

\* Before the first nothing has changed.
LEMMA PartsStart ==
  ASSUME NEW c, NEW P, \A m \in Method, h \in Host : P[<<m, h>>] \subseteq Nat
  PROVE  Within(Method, P, Parts(c, 0, P))
<1>1. ASSUME NEW m \in Method, NEW h \in Host, NEW n \in P[<<m, h>>]
      PROVE  n \in Parts(c, 0, P)[<<m, h>>]
  <2>1. {j \in 1..0 : methods[c][j] = m} = {}
    BY SMT
  <2>2. Said(c, 0, m) = 0
    BY <2>1, FS_EmptySet, Zenon DEF Said
  <2>3. n \in Nat
    BY Zenon
  <2>4. Monus(n, 0) = n
    BY <2>3, SMT DEF Monus
  <2>5. Part(c, 0, m, h, n) = n
    BY <2>2, <2>4, Zenon DEF Part
  <2>6. Part(c, 0, m, h, n) \in Parts(c, 0, P)[<<m, h>>]
    BY PartsAre, Zenon
  <2>7. QED
    BY <2>5, <2>6, Zenon
<1>2. QED
  BY <1>1, Zenon DEF Within

\* Of nothing, nothing is left.
LEMMA PartsOfNothing ==
  ASSUME NEW c, methods[c] \in Seq(Method), NEW k \in 0..Len(methods[c]),
         NEW P, NEW m \in Method, NEW h \in Host, P[<<m, h>>] = {0}
  PROVE  Parts(c, k, P)[<<m, h>>] = {0}
<1>1. Said(c, k, m) \in Nat
  BY SaidIs, Zenon
<1>2. Monus(0, Said(c, k, m)) = 0
  BY <1>1, SMT DEF Monus
<1>3. Part(c, k, m, h, 0) = 0
  BY <1>2, Zenon DEF Part
<1>4. 0 \in P[<<m, h>>] /\ \A n \in P[<<m, h>>] : n = 0
  OBVIOUS
<1>p. /\ \A n \in P[<<m, h>>] : Part(c, k, m, h, n) \in Parts(c, k, P)[<<m, h>>]
      /\ \A x \in Parts(c, k, P)[<<m, h>>] : \E n \in P[<<m, h>>] : x = Part(c, k, m, h, n)
  BY PartsAre
<1>q. 0 \in Parts(c, k, P)[<<m, h>>]
  <2>1. Part(c, k, m, h, 0) \in Parts(c, k, P)[<<m, h>>]
    BY <1>4, <1>p, Zenon
  <2>2. QED
    BY <2>1, <1>3, Zenon
<1>r. ASSUME NEW x \in Parts(c, k, P)[<<m, h>>] PROVE x = 0
  <2>1. PICK n \in P[<<m, h>>] : x = Part(c, k, m, h, n)
    BY <1>p, Zenon
  <2>2. n = 0
    BY <1>4, Zenon
  <2>3. QED
    BY <2>1, <2>2, <1>3, Zenon
<1>5. \A x : x \in Parts(c, k, P)[<<m, h>>] <=> x = 0
  BY <1>q, <1>r, Zenon
<1>6. QED
  BY <1>5, Zenon

\* The notices that a provider left make the difference.
LEMMA FarewellInHand ==
  ASSUME NEW R, HandTypes, NEW P, NEW U, InHand(outbox[Client], R, Asked, P, U), NEW c,
         methods[c] \in Seq(Method), outbox[Client] \in Seq(Message),
         methods[c] # <<>> => host[c] \in Host,
         \A m \in Method, h \in Host : P[<<m, h>>] \subseteq Nat,
         \A m \in Method, h \in Host : U[<<m, h>>] \subseteq Nat,
         \A m \in Method, h \in Host : m \notin Asked => U[<<m, h>>] = {0}
  PROVE  InHand(Farewell(c, Client), R, Asked, Parts(c, Len(methods[c]), P),
                Parts(c, Len(methods[c]), U))
<1> DEFINE e == methods[c]
           n == Len(e)
<1>1. n \in Nat /\ DOMAIN e = 1..n /\ e \in Seq(Method)
  BY SMT
<1>2. \A i \in 1..n : e[i] \in Method
  BY <1>1
<1>3. PICK r \in [0..n -> Seq(Message)] : Farewells(r, c, Client)
  BY FarewellSteps, Zenon
<1>4. /\ r[0] = outbox[Client]
      /\ \A k \in 0..(n - 1) : r[k + 1] = Say(r[k], c, Client, e[k + 1])
      /\ Farewell(c, Client) = r[n]
  BY <1>3, Zenon DEF Farewells
<1>h. ASSUME NEW i \in 1..n PROVE host[c] \in Host
  <2>1. Len(e) # 0 /\ Len(<<>>) = 0
    BY <1>1, SMT
  <2>2. e # <<>>
    BY <2>1, Zenon
  <2>3. QED
    BY <2>2, Zenon
<1>a. Asked \in SUBSET Method
  BY Zenon DEF Asked
<1> HIDE DEF n
<1> DEFINE S == {k \in Nat : InHand(r[k], R, Asked, Parts(c, k, P), Parts(c, k, U))}
<1>7. 0 \in S
  <2>1. Within(Method, P, Parts(c, 0, P)) /\ Within(Method, U, Parts(c, 0, U))
    BY PartsStart, Zenon
  <2>2. Within(Asked, P, Parts(c, 0, P))
    BY <2>1, <1>a, Zenon DEF Within
  <2>3. InHand(r[0], R, Asked, Parts(c, 0, P), Parts(c, 0, U))
    BY <2>1, <2>2, <1>4, <1>a, InHandSame, Zenon
  <2>4. 0 \in Nat
    BY SMT
  <2>5. QED
    BY <2>3, <2>4, Zenon
<1>8. ASSUME NEW k \in 0..(n - 1), k \in S PROVE k + 1 \in S
  <2> DEFINE m == e[k + 1]
             x == Offline(m, host[c])
             A == Parts(c, k, P)
             B == Parts(c, k + 1, P)
             C == Parts(c, k, U)
             D == Parts(c, k + 1, U)
  <2>1. k + 1 \in 1..n /\ k + 1 \in Nat /\ k \in Nat /\ k \in 0..n /\ k + 1 \in 0..n
    <3>1. k \in Nat /\ n \in Nat /\ k <= n - 1
      BY <1>1, SMT
    <3>2. QED
      BY <3>1, SMT
  <2>2. m \in Method /\ host[c] \in Host /\ r[k] \in Seq(Message)
    BY <2>1, <1>2, <1>3, <1>h, Zenon
  <2>3. InHand(r[k], R, Asked, A, C) /\ r[k + 1] = Say(r[k], c, Client, m)
    BY <1>4, <1>8, Zenon
  <2>4. x \in Message /\ x.op # "discovered"
    <3>1. x.op # "discovered"
      BY DEF Offline
    <3>2. QED
      BY <3>1, <2>2, OfflineIs, Zenon
  <2>5. /\ Moves(Method, A, x, B)
        /\ \A a \in Method, h \in Host : m # a => A[<<a, h>>] \subseteq B[<<a, h>>]
    BY <1>1, PartsStep, Zenon DEF n
  <2>6. /\ Moves(Method, C, x, D)
        /\ \A a \in Method, h \in Host : m # a => C[<<a, h>>] \subseteq D[<<a, h>>]
    BY <1>1, PartsStep, Zenon DEF n
  <2>7. \A h \in Host : m \notin Asked => C[<<m, h>>] = {0} /\ D[<<m, h>>] = {0}
    <3>1. ASSUME NEW h \in Host, m \notin Asked
          PROVE  C[<<m, h>>] = {0} /\ D[<<m, h>>] = {0}
      <4>1. U[<<m, h>>] = {0} /\ m \in Method /\ methods[c] \in Seq(Method)
        BY <2>2, <3>1, Zenon
      <4>2. k \in 0..Len(methods[c]) /\ k + 1 \in 0..Len(methods[c])
        BY <2>1, Zenon DEF n
      <4> HIDE DEF m
      <4>3. Parts(c, k, U)[<<m, h>>] = {0}
        BY <4>1, <4>2, PartsOfNothing
      <4>4. Parts(c, k + 1, U)[<<m, h>>] = {0}
        BY <4>1, <4>2, PartsOfNothing, SMTT(40)
      <4>5. QED
        BY <4>3, <4>4, ZenonT(60)
    <3>2. QED
      BY <3>1, Zenon
  <2> HIDE DEF A, B, C, D
  <2>8. CASE Client \in discoverers[m]
    <3>1. r[k + 1] = Append(r[k], x)
      BY <2>3, <2>8, Zenon DEF Say
    <3>2. Moves(Asked, A, x, B)
      BY <2>5, <1>a, Zenon DEF Moves
    <3> HIDE DEF x, m
    <3>3. InHand(Append(r[k], x), R, Asked, B, D)
      BY <2>2, <2>3, <2>4, <2>6, <3>2, <1>a, InHandAppend, Zenon
    <3>4. QED
      BY <2>1, <3>1, <3>3, Zenon DEF B, D
  <2>9. CASE Client \notin discoverers[m]
    <3>1. r[k + 1] = r[k] /\ m \notin Asked
      BY <2>3, <2>9, Zenon DEF Say, Asked
    <3>2. Within(Asked, A, B)
      BY <2>5, <3>1, <1>a, Zenon DEF Within
    <3>3. Within(Method, C, D)
      BY <2>6, <2>7, <3>1, Zenon DEF Within
    <3>4. InHand(r[k + 1], R, Asked, B, D)
      BY <2>3, <3>1, <3>2, <3>3, <1>a, InHandSame, Zenon
    <3>5. QED
      BY <2>1, <3>4, Zenon DEF B, D
  <2>10. QED
    BY <2>8, <2>9, Zenon
<1>9. n \in S
  <2> HIDE DEF S
  <2>1. \A k \in 0..n : k \in S
    BY <1>1, <1>7, <1>8, UpToInduction, Zenon
  <2>2. n \in 0..n
    BY <1>1, SMT
  <2>3. QED
    BY <2>1, <2>2, Zenon
<1>10. QED
  BY <1>4, <1>9, Zenon DEF n

-----------------------------------------------------------------------------
(* The invariant.                                                          *)

\* What a request for a method may be answered with, if its thread waits.
Due ==
  {q \in Id \X Method :
     /\ q[1][2] <= count[q[1][1]]
     /\ pc[q[1][1]] = "waiting" /\ count[q[1][1]] = q[1][2] => want[q[1][1]] = q[2]}

Hand == Client \notin gone => InHand(outbox[Client], Due, Asked, Target, Ceiling)

\* What is counted is finite, what is mixed is known, and the client registers
\* nothing.
Provs ==
  /\ Finite
  /\ \A m \in Method, h \in Host : Mixed(m, h) => <<m, h>> \in mixed
  /\ methods[Client] = <<>>

ThreadTypes ==
  /\ pc \in [Thread -> {"idle", "waiting", "answered"}]
  /\ want \in [Thread -> Method \cup {None}]
  /\ count \in [Thread -> 0..MaxCalls]
  /\ got \in [Thread -> Seq(Host) \cup {None}]
  /\ late \in [Thread -> BOOLEAN]
  /\ \A t \in Thread : /\ pc[t] = "idle" <=> want[t] = None
                       /\ pc[t] = "answered" <=> got[t] # None
                       /\ late[t] => pc[t] = "answered"

CacheTypes ==
  /\ cache \in [Method -> Seq(Host) \cup {None}]
  /\ index \in [Method -> Nat]
  /\ ret \in [Thread -> Host \cup {Garbage, None}]
  /\ requests \subseteq Id \X Method
  /\ basis \in [Method -> Basis]
  /\ mixed \subseteq Method \X Host

OutTypes == outbox \in [Conn -> Seq(Message)]

Base == RInv /\ Provs /\ OutTypes /\ ThreadTypes /\ CacheTypes

Req == requests \subseteq Due

DInv == Base /\ Req /\ Hand

-----------------------------------------------------------------------------
(* The registry's steps.                                                   *)

\* What the registry says is a message of the kind it says.
LEMMA MessagesAre ==
  /\ Registered \in Message
  /\ \A m \in Method, h \in Host :
       /\ Online(m, h) \in Message
       /\ Online(m, h).op = "online" /\ Online(m, h).method = m /\ Online(m, h).host = h
  /\ \A id \in Id, m \in Method, hosts \in Seq(Host) :
       /\ Discovered(id, m, hosts) \in Message
       /\ Discovered(id, m, hosts).op = "discovered" /\ Discovered(id, m, hosts).id = id
       /\ Discovered(id, m, hosts).method = m /\ Discovered(id, m, hosts).hosts = hosts
BY DEF Message, Registered, Online, Discovered

\* Nothing or one message is added.
LEMMA ConcatEnds ==
  ASSUME NEW S, NEW s \in Seq(S), NEW x \in S
  PROVE  /\ s \o <<>> = s
         /\ s \o <<x>> = Append(s, x) /\ Append(s, x) \in Seq(S)
<1>1. s \o <<>> = s
  BY SMT
<1>2. s \o <<x>> = Append(s, x) /\ Append(s, x) \in Seq(S)
  <2>1. /\ s \o <<x>> \in Seq(S) /\ Append(s, x) \in Seq(S)
        /\ Len(s \o <<x>>) = Len(s) + 1 /\ Len(Append(s, x)) = Len(s) + 1
    BY SMT
  <2>2. \A i \in 1..(Len(s) + 1) : (s \o <<x>>)[i] = Append(s, x)[i]
    BY SMT
  <2>3. QED
    BY <2>1, <2>2, SameSeq, Zenon
<1>3. QED
  BY <1>1, <1>2, Zenon

\* Whoever asked for m, other than c, is told that h is online.
LEMMA OutOfRegister ==
  ASSUME OutTypes, NEW c \in Conn, NEW m \in Method, NEW h \in Host, OnRegister(c, m, h)
  PROVE  /\ OutTypes'
         /\ \A d \in Conn : d # c =>
              /\ d \in discoverers[m] => outbox'[d] = Append(outbox[d], Online(m, h))
              /\ d \notin discoverers[m] => outbox'[d] = outbox[d]
<1>1. outbox' = [d \in Conn |->
        outbox[d] \o (IF d \in discoverers[m] THEN <<Online(m, h)>> ELSE <<>>)
                  \o (IF d = c THEN <<Registered>> ELSE <<>>)]
  BY Zenon DEF OnRegister
<1>2. ASSUME NEW d \in Conn
      PROVE  /\ outbox'[d] \in Seq(Message)
             /\ d # c => outbox'[d] = IF d \in discoverers[m] THEN Append(outbox[d], Online(m, h))
                                      ELSE outbox[d]
  <2> DEFINE s == outbox[d]
             x == Online(m, h)
             u == IF d \in discoverers[m] THEN <<x>> ELSE <<>>
             v == IF d = c THEN <<Registered>> ELSE <<>>
             w == s \o u
  <2>1. x \in Message /\ Registered \in Message /\ s \in Seq(Message)
    BY MessagesAre, Zenon DEF OutTypes
  <2>2. outbox'[d] = w \o v
    BY <1>1, Zenon
  <2>3. w = (IF d \in discoverers[m] THEN Append(s, x) ELSE s) /\ w \in Seq(Message)
    <3>1. s \o <<>> = s /\ s \o <<x>> = Append(s, x) /\ Append(s, x) \in Seq(Message)
      <4> HIDE DEF s, x
      <4>1. QED
        BY <2>1, ConcatEnds, Zenon
    <3> HIDE DEF s, x
    <3>2. CASE d \in discoverers[m]
      BY <3>1, <3>2
    <3>3. CASE d \notin discoverers[m]
      BY <3>1, <3>3, <2>1
    <3>4. QED
      BY <3>2, <3>3, Zenon
  <2> HIDE DEF w
  <2>4. w \o v \in Seq(Message) /\ (d # c => w \o v = w)
    <3> DEFINE y == Registered
    <3>0. y \in Message
      BY <2>1, Zenon
    <3> HIDE DEF y
    <3>1. w \o <<>> = w /\ w \o <<y>> = Append(w, y) /\ Append(w, y) \in Seq(Message)
      BY <2>3, <3>0, ConcatEnds, Zenon
    <3>2. CASE d = c
      BY <3>1, <3>2 DEF y
    <3>3. CASE d # c
      BY <3>1, <3>3, <2>3
    <3>4. QED
      BY <3>2, <3>3, Zenon
  <2>5. QED
    BY <2>2, <2>3, <2>4, Zenon
<1>3. outbox' \in [Conn -> Seq(Message)]
  BY <1>1, <1>2, Zenon
<1>4. QED
  BY <1>2, <1>3, Zenon DEF OutTypes

\* A registration keeps the types, and what it mixes is known.
LEMMA RegisterBase ==
  ASSUME Base, NEW c \in Conn, NEW m \in Method, NEW h \in Host, HandleRegistration(c, m, h)
  PROVE  Base'
<1>1. /\ c # Client /\ OnRegister(c, m, h) /\ host[c] \in {None, h}
      /\ mixed' = mixed \cup {p \in Method \X Host : Mixed(p[1], p[2])'}
      /\ UNCHANGED <<threadVars, cacheVars, requests, late, basis>>
  BY Zenon DEF HandleRegistration
<1>2. RInv'
  BY <1>1, RegisterRInv, Zenon DEF Base
<1>3. OutTypes'
  BY <1>1, OutOfRegister, Zenon DEF Base
<1>4. methods \in [Conn -> Seq(Method)]
  BY Zenon DEF Base, RInv, IndexTypeOK
<1>5. Provs'
  <2>1. methods' = [methods EXCEPT ![c] = Append(methods[c], m)]
    BY <1>1, Zenon DEF OnRegister, AddProvider
  <2>2. methods'[Client] = <<>>
    BY <2>1, <1>1, <1>4, DiscoveryAssumption, Zenon DEF Base, Provs
  <2>3. RInv /\ Finite
    BY Zenon DEF Base, Provs
  <2>4. ASSUME NEW k \in Method PROVE IsFiniteSet(providers'[k])
    BY <1>1, <2>3, RegisterProvided
  <2>5. ASSUME NEW k \in Method, NEW x \in Host PROVE IsFiniteSet(Registrations(k, x)')
    BY <1>1, <2>3, RegisterAnnounced, Zenon
  <2>6. Finite'
    BY <2>4, <2>5, Zenon DEF Finite
  <2>7. ASSUME NEW k \in Method, NEW x \in Host, Mixed(k, x)' PROVE <<k, x>> \in mixed'
    <3>1. <<k, x>> \in Method \X Host /\ <<k, x>>[1] = k /\ <<k, x>>[2] = x
      OBVIOUS
    <3>2. QED
      BY <1>1, <2>7, <3>1, Zenon
  <2>8. QED
    BY <2>2, <2>6, <2>7, Zenon DEF Provs
<1>6. ThreadTypes' /\ CacheTypes'
  <2>1. mixed' \subseteq Method \X Host
    BY <1>1, Zenon DEF Base, CacheTypes
  <2>2. QED
    BY <1>1, <2>1, Zenon DEF Base, ThreadTypes, CacheTypes, threadVars, cacheVars
<1>7. QED
  BY <1>2, <1>3, <1>5, <1>6, Zenon DEF Base

\* What nobody registers does not change what is counted.
LEMMA SameCounts ==
  UNCHANGED <<host, methods, providers>> =>
    \A m, h : /\ Provided(m, h)' = Provided(m, h) /\ Announced(m, h)' = Announced(m, h)
              /\ Registrations(m, h)' = Registrations(m, h)
              /\ Mixed(m, h)' <=> Mixed(m, h)
BY DEF Provided, Announced, Registrations, Mixed

\* So it keeps what is known of the providers.
LEMMA SameProvs ==
  Provs /\ UNCHANGED <<host, methods, providers>> /\ mixed' = mixed => Provs'
<1> SUFFICES ASSUME Provs, UNCHANGED <<host, methods, providers>>, mixed' = mixed PROVE Provs'
  OBVIOUS
<1>1. \A m, h : Registrations(m, h)' = Registrations(m, h) /\ (Mixed(m, h)' <=> Mixed(m, h))
  BY SameCounts, Zenon
<1>2. Finite'
  BY <1>1, Zenon DEF Provs, Finite
<1>3. QED
  BY <1>1, <1>2, Zenon DEF Provs

\* So does the answer to a discovery.
LEMMA DiscoveryBase ==
  ASSUME Base, HandleDiscovery
  PROVE  Base'
<1>1. PICK r \in requests : OnDiscover(Client, r[2], r[1]) /\ requests' = requests \ {r}
  BY Zenon DEF HandleDiscovery
<1>2. UNCHANGED <<threadVars, cacheVars, ghostVars>>
  BY Zenon DEF HandleDiscovery
<1>3. r[1] \in Id /\ r[2] \in Method /\ Client \in Conn
  BY DiscoveryAssumption DEF Base, CacheTypes
<1>4. RInv'
  BY <1>1, <1>3, DiscoverRInv, Zenon DEF Base
<1>5. UNCHANGED <<host, methods, providers, gone>>
  BY <1>1, Zenon DEF OnDiscover
<1>6. Provs'
  BY <1>2, <1>5, SameProvs, Zenon DEF Base, ghostVars
<1>7. OutTypes'
  <2> DEFINE m == r[2]
             id == r[1]
  <2>1. PICK l \in SetToSeqs(providers[m]) : outbox' = [outbox EXCEPT ![Client] =
         Append(@, Discovered(id, m, [i \in DOMAIN l |-> host[l[i]]]))]
    BY <1>1, Zenon DEF OnDiscover
  <2> DEFINE hosts == [i \in DOMAIN l |-> host[l[i]]]
             x == Discovered(id, m, hosts)
  <2>2. hosts \in Seq(Host)
    <3>1. IsFiniteSet(providers[m]) /\ \A c \in providers[m] : host[c] \in Host
      BY <1>3, RInvHosts, Zenon DEF Base, Provs, Finite
    <3>2. hosts = [i \in DOMAIN l |-> host[l[i]]]
      BY Zenon
    <3> HIDE DEF hosts, m
    <3>3. QED
      BY <3>1, <3>2, AnswerCounts, Zenon
  <2>3. x \in Message
    BY <1>3, <2>2, MessagesAre, Zenon
  <2>4. outbox' = [outbox EXCEPT ![Client] = Append(outbox[Client], x)]
    BY <2>1, Zenon
  <2>5. outbox \in [Conn -> Seq(Message)]
    BY Zenon DEF Base, OutTypes
  <2> HIDE DEF x
  <2>6. Append(outbox[Client], x) \in Seq(Message)
    BY <2>3, <2>5, <1>3, AppendIs, Zenon
  <2>7. QED
    BY <2>4, <2>5, <2>6, Zenon DEF OutTypes
<1>8. ThreadTypes' /\ CacheTypes'
  <2>1. requests' \subseteq requests
    BY <1>1, Zenon
  <2>2. QED
    BY <1>2, <2>1, Zenon DEF Base, ThreadTypes, CacheTypes, threadVars, cacheVars, ghostVars
<1>9. QED
  BY <1>4, <1>6, <1>7, <1>8, Zenon DEF Base

\* Whoever is left gets the goodbye of c.
LEMMA OutOfShutDown ==
  ASSUME RInv, OutTypes, NEW c \in Conn, OnShutDown(c)
  PROVE  /\ OutTypes'
         /\ \A d \in Conn : d # c => outbox'[d] = Farewell(c, d)
<1>1. outbox' = [d \in Conn |-> IF d = c THEN <<>> ELSE Farewell(c, d)]
  BY Zenon DEF OnShutDown
<1>2. ASSUME NEW d \in Conn PROVE Farewell(c, d) \in Seq(Message)
  <2>1. methods[c] \in Seq(Method) /\ outbox[d] \in Seq(Message)
    BY Zenon DEF RInv, IndexTypeOK, OutTypes
  <2>2. methods[c] # <<>> => host[c] \in Host
    BY RInvHosts, Zenon
  <2>3. PICK r \in [0..Len(methods[c]) -> Seq(Message)] : Farewells(r, c, d)
    BY <2>1, <2>2, FarewellSteps, Zenon
  <2>4. Len(methods[c]) \in 0..Len(methods[c])
    BY <2>1, SMT
  <2>5. QED
    BY <2>3, <2>4, Zenon DEF Farewells
<1>3. <<>> \in Seq(Message)
  BY SMT
<1>4. QED
  BY <1>1, <1>2, <1>3, Zenon DEF OutTypes

\* So does a connection that ends.
LEMMA ShutDownBase ==
  ASSUME Base, NEW c \in Conn, OnShutDown(c), ThreadTypes', CacheTypes', mixed' = mixed
  PROVE  Base'
<1>1. RInv' /\ OutTypes'
  BY ShutDownRInv, OutOfShutDown, Zenon DEF Base
<1>2. /\ host \in [Conn -> Host \cup {None}] /\ methods \in [Conn -> Seq(Method)]
      /\ providers \in [Method -> SUBSET Conn]
  BY Zenon DEF Base, RInv, IndexTypeOK
<1>3. methods' = [methods EXCEPT ![c] = <<>>]
  BY Zenon DEF OnShutDown, RemoveProvider
<1>4. methods'[Client] = <<>>
  BY <1>2, <1>3, DiscoveryAssumption, Zenon DEF Base, Provs
<1>5. RInv /\ Finite
  BY Zenon DEF Base, Provs
<1>6. ASSUME NEW m \in Method PROVE IsFiniteSet(providers'[m])
  <2>1. providers'[m] \in SUBSET providers[m]
    BY Zenon DEF OnShutDown, RemoveProvider
  <2>2. IsFiniteSet(providers[m])
    BY <1>5, Zenon DEF Finite
  <2>3. QED
    BY <2>1, <2>2, FS_Subset, Zenon
<1>7. ASSUME NEW m \in Method, NEW h \in Host PROVE IsFiniteSet(Registrations(m, h)')
  BY <1>5, LeaveAnnounced
<1>8. Finite'
  BY <1>6, <1>7, Zenon DEF Finite
<1>9. ASSUME NEW m \in Method, NEW h \in Host, Mixed(m, h)' PROVE <<m, h>> \in mixed'
  <2>1. Mixed(m, h) => <<m, h>> \in mixed
    BY Zenon DEF Base, Provs
  <2>2. Mixed(m, h)' => Mixed(m, h)
    BY <2>1, <1>1, <1>5, <1>8, RightLeave
  <2>3. QED
    BY <2>1, <2>2, <1>9, Zenon
<1>10. QED
  BY <1>1, <1>4, <1>8, <1>9, Zenon DEF Base, Provs
-----------------------------------------------------------------------------
(* The client's steps keep the types.                                      *)

\* A step that leaves the registry alone has the client's types to keep.
LEMMA QuietBase ==
  ASSUME Base, UNCHANGED <<host, methods, providers, watched, discoverers, gone>>,
         OutTypes', ThreadTypes', CacheTypes', mixed' = mixed
  PROVE  Base'
<1>1. RInv'
  BY SameRInv, Zenon DEF Base
<1>2. Provs'
  BY SameProvs, Zenon DEF Base
<1>3. QED
  BY <1>1, <1>2, Zenon DEF Base

\* The first message of a connection is taken.
LEMMA TakenTypes ==
  ASSUME OutTypes, NEW c \in Conn, outbox[c] # <<>>,
         outbox' = [outbox EXCEPT ![c] = Tail(@)]
  PROVE  /\ OutTypes' /\ outbox'[c] = Tail(outbox[c]) /\ Head(outbox[c]) \in Message
         /\ \A d \in Conn : d # c => outbox'[d] = outbox[d]
<1> DEFINE s == outbox[c]
<1>1. outbox \in [Conn -> Seq(Message)] /\ s \in Seq(Message) /\ s # <<>>
  BY Zenon DEF OutTypes
<1>2. outbox' = [outbox EXCEPT ![c] = Tail(s)]
  BY Zenon
<1>3. Tail(s) \in Seq(Message) /\ Head(s) \in Message
  <2> HIDE DEF s
  <2>1. QED
    BY <1>1, SMT
<1>4. outbox' \in [Conn -> Seq(Message)]
  <2> HIDE DEF s
  <2>1. QED
    BY <1>1, <1>2, <1>3, Zenon
<1>5. QED
  BY <1>1, <1>2, <1>3, <1>4, Zenon DEF OutTypes

\* serviceDiscover returns to its caller.
LEMMA ReturnTypes ==
  ASSUME ThreadTypes, NEW t \in Thread, Return(t), count' = count
  PROVE  ThreadTypes'
<1> DEFINE L == Seq(Host)
<1>1. /\ pc \in [Thread -> {"idle", "waiting", "answered"}]
      /\ want \in [Thread -> Method \cup {None}]
      /\ got \in [Thread -> L \cup {None}]
      /\ late \in [Thread -> BOOLEAN]
      /\ pc' = [pc EXCEPT ![t] = "idle"] /\ want' = [want EXCEPT ![t] = None]
      /\ got' = [got EXCEPT ![t] = None] /\ late' = [late EXCEPT ![t] = FALSE]
  BY Zenon DEF ThreadTypes, Return
<1>2. \A u \in Thread : /\ pc[u] = "idle" <=> want[u] = None
                        /\ pc[u] = "answered" <=> got[u] # None
                        /\ late[u] => pc[u] = "answered"
  BY Zenon DEF ThreadTypes
<1> HIDE DEF L
<1>3. /\ pc' \in [Thread -> {"idle", "waiting", "answered"}]
      /\ want' \in [Thread -> Method \cup {None}]
      /\ got' \in [Thread -> L \cup {None}]
      /\ late' \in [Thread -> BOOLEAN]
  BY <1>1
<1>4. \A u \in Thread : /\ pc'[u] = "idle" <=> want'[u] = None
                        /\ pc'[u] = "answered" <=> got'[u] # None
                        /\ late'[u] => pc'[u] = "answered"
  BY <1>1, <1>2
<1>5. count' \in [Thread -> 0..MaxCalls]
  BY Zenon DEF ThreadTypes
<1>6. QED
  BY <1>3, <1>4, <1>5, Zenon DEF ThreadTypes, L

\* The first of a list that is not empty.
LEMMA FullIs ==
  ASSUME NEW L, NEW s \in Seq(L), s # <<>>
  PROVE  Len(s) \in Nat /\ Len(s) > 0 /\ 1 \in 1..Len(s) /\ s[1] \in L
BY SMT

\* One more call of a thread.
LEMMA CountUp ==
  ASSUME NEW t \in Thread, count \in [Thread -> 0..MaxCalls], count[t] < MaxCalls,
         count' = [count EXCEPT ![t] = @ + 1]
  PROVE  count' \in [Thread -> 0..MaxCalls]
<1> DEFINE n == count[t]
<1>1. n \in 0..MaxCalls /\ n < MaxCalls /\ MaxCalls \in Nat
  BY DiscoveryAssumption, Zenon
<1>2. count' = [count EXCEPT ![t] = n + 1]
  BY Zenon
<1>3. n + 1 \in 0..MaxCalls
  <2> HIDE DEF n
  <2>1. QED
    BY <1>1, SMT
<1> HIDE DEF n
<1>4. QED
  BY <1>2, <1>3, Zenon

\* methodHost finds hosts in the cache.
LEMMA ChooseBase ==
  ASSUME Base, NEW t \in Thread, NEW m \in Method, Choose(t, m)
  PROVE  Base'
<1>1. /\ UNCHANGED <<registryVars, pc, want, got, cache, requests, ghostVars>>
      /\ count' = [count EXCEPT ![t] = @ + 1] /\ count[t] < MaxCalls /\ ~Empty(m)
      /\ index' = [index EXCEPT ![m] = (@ + 1) % Len(cache[m])]
  BY Zenon DEF Choose
<1>2. PICK h \in At(cache[m], index[m]) : ret' = [ret EXCEPT ![t] = h]
  BY Zenon DEF Choose
<1> DEFINE s == cache[m]
           i == index[m]
<1>3. s \in Seq(Host) /\ s # <<>> /\ i \in Nat
  BY <1>1, Zenon DEF Base, CacheTypes, Empty
<1>4. index' \in [Method -> Nat]
  <2>1. (i + 1) % Len(s) \in Nat
    <3> HIDE DEF s, i
    <3>1. Len(s) \in Nat /\ Len(s) > 0
      BY <1>3, FullIs, Zenon
    <3>2. QED
      BY <1>3, <3>1, SMT
  <2>2. index' = [index EXCEPT ![m] = (i + 1) % Len(s)] /\ index \in [Method -> Nat]
    BY <1>1, Zenon DEF Base, CacheTypes
  <2>3. QED
    BY <2>1, <2>2, Zenon
<1>5. ret' \in [Thread -> Host \cup {Garbage, None}]
  <2>1. h \in Host \cup {Garbage}
    <3>1. h \in IF i < Len(s) THEN {s[i + 1]} ELSE Host \cup {Garbage}
      BY <1>2, Zenon DEF At
    <3>2. i < Len(s) => s[i + 1] \in Host
      <4> HIDE DEF s, i
      <4>1. QED
        BY <1>3, SMT
    <3>3. QED
      BY <3>1, <3>2, Zenon
  <2>2. ret \in [Thread -> Host \cup {Garbage, None}]
    BY Zenon DEF Base, CacheTypes
  <2>3. QED
    BY <1>2, <2>1, <2>2, Zenon
<1>6. count' \in [Thread -> 0..MaxCalls]
  BY <1>1, CountUp, Zenon DEF Base, ThreadTypes
<1>7. ThreadTypes'
  BY <1>1, <1>6, Zenon DEF Base, ThreadTypes, ghostVars
<1>8. CacheTypes'
  BY <1>1, <1>4, <1>5, Zenon DEF Base, CacheTypes, ghostVars
<1>9. UNCHANGED <<host, methods, providers, watched, discoverers, gone>> /\ OutTypes'
  BY <1>1, Zenon DEF registryVars, Base, OutTypes
<1>10. QED
  BY <1>1, <1>7, <1>8, <1>9, QuietBase, Zenon DEF ghostVars

\* It finds none and sends a request.
LEMMA AskBase ==
  ASSUME Base, NEW t \in Thread, NEW m \in Method, Ask(t, m)
  PROVE  Base'
<1>1. /\ UNCHANGED <<registryVars, got, ret, cacheVars, ghostVars>>
      /\ count' = [count EXCEPT ![t] = @ + 1] /\ count[t] < MaxCalls /\ pc[t] = "idle"
      /\ pc' = [pc EXCEPT ![t] = "waiting"] /\ want' = [want EXCEPT ![t] = m]
      /\ requests' = requests \cup {<<<<t, count[t] + 1>>, m>>}
  BY Zenon DEF Ask
<1> DEFINE L == Seq(Host)
<1>2. /\ pc \in [Thread -> {"idle", "waiting", "answered"}]
      /\ want \in [Thread -> Method \cup {None}]
      /\ got \in [Thread -> L \cup {None}]
      /\ late \in [Thread -> BOOLEAN]
      /\ count \in [Thread -> 0..MaxCalls]
  BY Zenon DEF Base, ThreadTypes
<1>3. \A u \in Thread : /\ pc[u] = "idle" <=> want[u] = None
                        /\ pc[u] = "answered" <=> got[u] # None
                        /\ late[u] => pc[u] = "answered"
  BY Zenon DEF Base, ThreadTypes
<1>4. got' = got /\ late' = late /\ basis' = basis /\ mixed' = mixed /\ ret' = ret /\ cache' = cache
      /\ index' = index
  BY <1>1, Zenon DEF ghostVars, cacheVars
<1>5. None \notin Method
  BY DiscoveryAssumption
<1> HIDE DEF L
<1>6. /\ pc' \in [Thread -> {"idle", "waiting", "answered"}]
      /\ want' \in [Thread -> Method \cup {None}]
  BY <1>1, <1>2
<1>7. \A u \in Thread : /\ pc'[u] = "idle" <=> want'[u] = None
                        /\ pc'[u] = "answered" <=> got'[u] # None
                        /\ late'[u] => pc'[u] = "answered"
  BY <1>1, <1>2, <1>3, <1>4, <1>5
<1>8. count' \in [Thread -> 0..MaxCalls]
  BY <1>1, <1>2, CountUp, Zenon
<1>9. ThreadTypes'
  BY <1>2, <1>4, <1>6, <1>7, <1>8, Zenon DEF ThreadTypes, L
<1>10. count[t] + 1 \in 1..MaxCalls
  <2> DEFINE n == count[t]
  <2>1. n \in 0..MaxCalls /\ n < MaxCalls /\ MaxCalls \in Nat
    BY <1>1, <1>2, DiscoveryAssumption, Zenon
  <2> HIDE DEF n
  <2>2. n + 1 \in 1..MaxCalls
    BY <2>1, SMT
  <2>3. QED
    BY <2>2, Zenon DEF n
<1>11. requests' \subseteq Id \X Method
  <2> DEFINE n == count[t] + 1
  <2>1. Id = Thread \X (1..MaxCalls) /\ n \in 1..MaxCalls
    BY <1>10, DiscoveryAssumption, Zenon
  <2>2. requests' = requests \cup {<<<<t, n>>, m>>} /\ requests \subseteq Id \X Method
    BY <1>1, Zenon DEF Base, CacheTypes
  <2> HIDE DEF n
  <2>3. <<t, n>> \in Id
    BY <2>1
  <2> DEFINE q == <<<<t, n>>, m>>
             W == Id \X Method
  <2>4. q \in W
    BY <2>3
  <2> HIDE DEF q, W
  <2>5. requests' = requests \cup {q} /\ requests \subseteq W
    BY <2>2, Zenon DEF q, W
  <2>6. requests' \subseteq W
    BY <2>4, <2>5
  <2>7. QED
    BY <2>6, Zenon DEF W
<1>12. CacheTypes'
  BY <1>4, <1>11, Zenon DEF Base, CacheTypes
<1>13. UNCHANGED <<host, methods, providers, watched, discoverers, gone>> /\ OutTypes'
  BY <1>1, Zenon DEF registryVars, Base, OutTypes
<1>14. QED
  BY <1>4, <1>9, <1>12, <1>13, QuietBase, Zenon

\* The request timed out, or was answered with no host.
LEMMA GiveUpBase ==
  ASSUME Base, NEW t \in Thread, Expire(t) \/ NotFound(t)
  PROVE  Base'
<1>1. Return(t) /\ UNCHANGED <<registryVars, count, ret, cacheVars, requests, basis, mixed>>
  BY Zenon DEF Expire, NotFound
<1>2. ThreadTypes'
  BY <1>1, ReturnTypes, Zenon DEF Base
<1>3. CacheTypes'
  BY <1>1, Zenon DEF Base, CacheTypes, cacheVars
<1>4. UNCHANGED <<host, methods, providers, watched, discoverers, gone>> /\ OutTypes'
  BY <1>1, Zenon DEF registryVars, Base, OutTypes
<1>5. QED
  BY <1>1, <1>2, <1>3, <1>4, QuietBase, Zenon

\* The thread stores the hosts it was answered with.
LEMMA StoreBase ==
  ASSUME Base, NEW t \in Thread, Store(t)
  PROVE  /\ Base'
         /\ got[t] \in Seq(Host) /\ want[t] \in Method
<1>1. /\ Return(t) /\ UNCHANGED <<registryVars, count, requests, mixed>>
      /\ pc[t] = "answered" /\ got[t] # <<>>
      /\ cache' = [cache EXCEPT ![want[t]] = got[t]]
      /\ index' = [index EXCEPT ![want[t]] = 1 % Len(got[t])]
      /\ ret' = [ret EXCEPT ![t] = got[t][1]]
      /\ basis' = [basis EXCEPT ![want[t]] = IF late[t] THEN "overtaken" ELSE "answer"]
  BY Zenon DEF Store
<1> DEFINE s == got[t]
           m == want[t]
<1>2. s \in Seq(Host) /\ m \in Method
  <2>1. pc[t] # "idle"
    BY <1>1
  <2>2. QED
    BY <1>1, <2>1, Zenon DEF Base, ThreadTypes
<1>3. Len(s) \in Nat /\ Len(s) > 0 /\ s[1] \in Host
  <2>1. s # <<>>
    BY <1>1
  <2> HIDE DEF s
  <2>2. QED
    BY <1>2, <2>1, FullIs, Zenon
<1>4. 1 % Len(s) \in Nat
  <2> DEFINE n == Len(s)
  <2>1. n \in Nat /\ n > 0
    BY <1>3
  <2> HIDE DEF n
  <2>2. 1 % n \in Nat
    BY <2>1, SMT
  <2>3. QED
    BY <2>2, Zenon DEF n
<1>5. ThreadTypes'
  BY <1>1, ReturnTypes, Zenon DEF Base
<1>6. CacheTypes'
  <2>1. /\ cache \in [Method -> Seq(Host) \cup {None}]
        /\ index \in [Method -> Nat]
        /\ ret \in [Thread -> Host \cup {Garbage, None}]
        /\ requests \subseteq Id \X Method
        /\ basis \in [Method -> Basis] /\ mixed \subseteq Method \X Host
    BY Zenon DEF Base, CacheTypes
  <2>2. /\ cache' = [cache EXCEPT ![m] = s] /\ index' = [index EXCEPT ![m] = 1 % Len(s)]
        /\ ret' = [ret EXCEPT ![t] = s[1]]
        /\ basis' = [basis EXCEPT ![m] = IF late[t] THEN "overtaken" ELSE "answer"]
    BY <1>1, Zenon
  <2> HIDE DEF s, m
  <2>3. /\ cache' \in [Method -> Seq(Host) \cup {None}]
        /\ index' \in [Method -> Nat]
        /\ ret' \in [Thread -> Host \cup {Garbage, None}]
    BY <2>1, <2>2, <1>2, <1>3, <1>4, Zenon
  <2>4. basis' \in [Method -> Basis]
    <3>1. (IF late[t] THEN "overtaken" ELSE "answer") \in Basis
      BY DEF Basis
    <3>2. QED
      BY <2>1, <2>2, <3>1, Zenon
  <2>5. requests' = requests /\ mixed' = mixed
    BY <1>1, Zenon
  <2>6. QED
    BY <2>1, <2>3, <2>4, <2>5, Zenon DEF CacheTypes
<1>7. UNCHANGED <<host, methods, providers, watched, discoverers, gone>> /\ OutTypes'
  BY <1>1, Zenon DEF registryVars, Base, OutTypes
<1>8. Base'
  BY <1>1, <1>5, <1>6, <1>7, QuietBase, Zenon
<1>9. QED
  BY <1>2, <1>8, Zenon

\* The IO thread takes the next message of the client.
LEMMA IncomingIs ==
  ASSUME Base, NEW op, Incoming(op)
  PROVE  /\ OutTypes' /\ outbox[Client] \in Seq(Message) /\ outbox[Client] # <<>>
         /\ outbox'[Client] = Tail(outbox[Client])
         /\ Head(outbox[Client]) \in Message /\ Head(outbox[Client]).op = op
         /\ UNCHANGED <<host, methods, providers, watched, discoverers, gone>>
<1>1. /\ outbox[Client] # <<>> /\ Head(outbox[Client]).op = op
      /\ outbox' = [outbox EXCEPT ![Client] = Tail(@)]
      /\ UNCHANGED <<host, methods, providers, watched, discoverers, gone>>
  BY Zenon DEF Incoming
<1>2. Client \in Conn /\ OutTypes
  BY DiscoveryAssumption, Zenon DEF Base
<1>3. OutTypes' /\ outbox'[Client] = Tail(outbox[Client]) /\ Head(outbox[Client]) \in Message
  BY <1>1, <1>2, TakenTypes, Zenon
<1>4. outbox[Client] \in Seq(Message)
  BY <1>2, Zenon DEF OutTypes
<1>5. QED
  BY <1>1, <1>3, <1>4, Zenon

\* It is an answer.
LEMMA AnswerBase ==
  ASSUME Base, ReceiveAnswer
  PROVE  Base'
<1> DEFINE msg == Head(outbox[Client])
           t == msg.id[1]
           hosts == msg.hosts
           L == Seq(Host)
<1>1. /\ Incoming("discovered")
      /\ IF pc[t] = "waiting" /\ count[t] = msg.id[2]
           THEN pc' = [pc EXCEPT ![t] = "answered"] /\ got' = [got EXCEPT ![t] = hosts]
           ELSE UNCHANGED <<pc, got>>
      /\ basis' = IF hosts = <<>> /\ Empty(msg.method)
                    THEN [basis EXCEPT ![msg.method] = "answer"] ELSE basis
      /\ UNCHANGED <<want, count, ret, cacheVars, requests, late, mixed>>
  BY Zenon DEF ReceiveAnswer
<1>2. /\ OutTypes' /\ msg \in Message /\ msg.op = "discovered"
      /\ UNCHANGED <<host, methods, providers, watched, discoverers, gone>>
  BY <1>1, IncomingIs, Zenon
<1>3. msg.id \in Id /\ msg.method \in Method /\ hosts \in L
  <2> HIDE DEF msg
  <2>1. QED
    BY <1>2, MessageIs, Zenon
<1>4. t \in Thread
  BY <1>3, DiscoveryAssumption
<1>5. None \notin L
  BY DiscoveryAssumption, Zenon
<1>6. /\ pc \in [Thread -> {"idle", "waiting", "answered"}]
      /\ got \in [Thread -> L \cup {None}]
      /\ \A u \in Thread : /\ pc[u] = "idle" <=> want[u] = None
                           /\ pc[u] = "answered" <=> got[u] # None
                           /\ late[u] => pc[u] = "answered"
  BY Zenon DEF Base, ThreadTypes
<1> HIDE DEF msg, t, hosts, L
<1>7. /\ pc' \in [Thread -> {"idle", "waiting", "answered"}]
      /\ got' \in [Thread -> L \cup {None}]
      /\ \A u \in Thread : /\ pc'[u] = "idle" <=> want'[u] = None
                           /\ pc'[u] = "answered" <=> got'[u] # None
                           /\ late'[u] => pc'[u] = "answered"
  <2>1. CASE pc[t] = "waiting" /\ count[t] = msg.id[2]
    <3>1. pc' = [pc EXCEPT ![t] = "answered"] /\ got' = [got EXCEPT ![t] = hosts]
          /\ want' = want /\ late' = late /\ pc[t] = "waiting"
      BY <1>1, <2>1, Zenon
    <3>2. QED
      BY <3>1, <1>3, <1>4, <1>5, <1>6
  <2>2. CASE ~(pc[t] = "waiting" /\ count[t] = msg.id[2])
    <3>1. pc' = pc /\ got' = got /\ want' = want /\ late' = late
      BY <1>1, <2>2, Zenon
    <3>2. QED
      BY <3>1, <1>6, Zenon
  <2>3. QED
    BY <2>1, <2>2, Zenon
<1>8. ThreadTypes'
  BY <1>1, <1>7, Zenon DEF Base, ThreadTypes, L
<1>9. basis' \in [Method -> Basis]
  <2>1. basis \in [Method -> Basis] /\ "answer" \in Basis
    BY DEF Base, CacheTypes, Basis
  <2>2. QED
    BY <1>1, <1>3, <2>1, Zenon
<1>10. CacheTypes'
  BY <1>1, <1>9, Zenon DEF Base, CacheTypes, cacheVars
<1>11. QED
  BY <1>1, <1>2, <1>8, <1>10, QuietBase, Zenon

\* A notice may come between an answer and its thread.
LEMMA OvertakeTypes ==
  ASSUME ThreadTypes, NEW m, Overtake(m), UNCHANGED threadVars
  PROVE  ThreadTypes'
<1>1. late' = [t \in Thread |-> late[t] \/ (pc[t] = "answered" /\ want[t] = m)]
      /\ UNCHANGED <<pc, want, count, got>>
  BY Zenon DEF Overtake, threadVars
<1>2. late' \in [Thread -> BOOLEAN] /\ \A t \in Thread : late'[t] => late[t] \/ pc[t] = "answered"
  BY <1>1
<1>3. QED
  BY <1>1, <1>2, Zenon DEF ThreadTypes

\* What a notice makes of the cache.
LEMMA NoticeCache ==
  ASSUME Base, ReceiveOnline \/ ReceiveOffline
  PROVE  LET msg == Head(outbox[Client])
         IN  /\ cache' \in [Method -> Seq(Host) \cup {None}]
             /\ \A m \in Method : Cached(m)' = Apply(m, Cached(m), msg)
             /\ msg.op \in {"online", "offline"} /\ Incoming(msg.op) /\ Overtake(msg.method)
             /\ UNCHANGED <<index, threadVars, requests, basis, mixed>>
<1> DEFINE msg == Head(outbox[Client])
           k == msg.method
           L == Seq(Host)
<1>0. <<>> \in Seq(Host)
  BY SMT
<1>1. cache \in [Method -> L \cup {None}] /\ None \notin L /\ <<>> \in L
  BY <1>0, DiscoveryAssumption, Zenon DEF Base, CacheTypes
<1>2. \A m \in Method : Cached(m) \in L
  BY <1>1, Zenon DEF Cached
<1>3. CASE ReceiveOnline
  <2>1. /\ Incoming("online") /\ Overtake(k) /\ UNCHANGED <<index, threadVars, requests, basis, mixed>>
        /\ cache' = [cache EXCEPT ![k] = Append(Cached(k), msg.host)]
    BY <1>3, Zenon DEF ReceiveOnline, Cached
  <2>2. msg \in Message /\ msg.op = "online"
    BY <2>1, IncomingIs, Zenon
  <2> HIDE DEF msg
  <2>3. k \in Method /\ msg.host \in Host
    BY <2>2, MessageIs, Zenon
  <2> HIDE DEF k
  <2>4. Append(Cached(k), msg.host) \in L
    <3> DEFINE h == msg.host
               s == Cached(k)
    <3>1. h \in Host /\ s \in L
      BY <1>2, <2>3, Zenon
    <3> HIDE DEF h, s
    <3>2. Append(s, h) \in L
      BY <3>1, AppendIs, Zenon
    <3>3. QED
      BY <3>2, Zenon DEF s, h
  <2> DEFINE w == Append(Cached(k), msg.host)
  <2>5. w \in L /\ cache' = [cache EXCEPT ![k] = w] /\ w # None
    BY <2>1, <2>4, <1>1, Zenon
  <2>6. ASSUME NEW m \in Method PROVE Cached(m)' = Apply(m, Cached(m), msg)
    <3>1. CASE m = k
      <4>1. Apply(m, Cached(m), msg) = w
        BY <3>1, <1>2, <2>2, ApplyIs, Zenon DEF k
      <4> HIDE DEF w
      <4>2. Cached(m)' = w
        BY <3>1, <2>5, <1>1, Zenon DEF Cached
      <4>3. QED
        BY <4>1, <4>2, Zenon
    <3>2. CASE m # k
      <4>1. Apply(m, Cached(m), msg) = Cached(m)
        BY <3>2, <1>2, <2>2, ApplyIs, Zenon DEF k
      <4> HIDE DEF w
      <4>2. Cached(m)' = Cached(m)
        BY <3>2, <2>5, <1>1, Zenon DEF Cached
      <4>3. QED
        BY <4>1, <4>2, Zenon
    <3>3. QED
      BY <3>1, <3>2, Zenon
  <2> HIDE DEF w, L
  <2>7. cache' \in [Method -> L \cup {None}]
    BY <2>5, <1>1, Zenon
  <2>8. QED
    BY <2>1, <2>2, <2>6, <2>7, Zenon DEF L, msg, k
<1>4. CASE ReceiveOffline
  <2>1. /\ Incoming("offline") /\ Overtake(k) /\ UNCHANGED <<index, threadVars, requests, basis, mixed>>
        /\ cache' = IF cache[k] = None THEN cache
                      ELSE [cache EXCEPT ![k] = RemoveFirst(cache[k], msg.host)]
    BY <1>4, Zenon DEF ReceiveOffline, RemoveHost
  <2>2. msg \in Message /\ msg.op = "offline"
    BY <2>1, IncomingIs, Zenon
  <2> HIDE DEF msg
  <2>3. k \in Method
    BY <2>2, MessageIs, Zenon
  <2> DEFINE w == RemoveFirst(Cached(k), msg.host)
  <2>4. w \in L /\ w # None
    BY <2>3, <1>1, <1>2, TimesRemoveFirst, Zenon
  <2>5. cache[k] = None => w = <<>>
    <3>1. RemoveFirst(<<>>, msg.host) = <<>>
      <4>1. Len(<<>>) = 0 /\ 1..0 = {}
        BY SMT
      <4>2. <<>> \in Seq({})
        BY SMT
      <4>3. QED
        BY <4>1, <4>2, FirstOf, Zenon
    <3>2. QED
      BY <3>1, Zenon DEF Cached
  <2>6. ASSUME NEW m \in Method PROVE Cached(m)' = Apply(m, Cached(m), msg)
    <3>1. CASE m = k
      <4>1. Apply(m, Cached(m), msg) = w
        BY <3>1, <1>2, <2>2, ApplyIs, ZenonT(40) DEF k
      <4>2. CASE cache[k] = None
        <5>1. Cached(m)' = <<>>
          BY <3>1, <4>2, <2>1, Zenon DEF Cached
        <5>2. QED
          BY <5>1, <4>1, <4>2, <2>5, Zenon
      <4>3. CASE cache[k] # None
        <5>1. cache' = [cache EXCEPT ![k] = w]
          BY <2>1, <4>3, Zenon DEF Cached
        <5> HIDE DEF w, k
        <5>2. Cached(m)' = w
          BY <5>1, <3>1, <1>1, <2>3, <2>4, Zenon DEF Cached
        <5>3. QED
          BY <5>2, <4>1, Zenon
      <4>4. QED
        BY <4>2, <4>3, Zenon
    <3>2. CASE m # k
      <4>1. Apply(m, Cached(m), msg) = Cached(m)
        BY <3>2, <1>2, <2>2, ApplyIs, Zenon DEF k
      <4> HIDE DEF w
      <4>2. cache'[m] = cache[m]
        BY <3>2, <2>1, <1>1, Zenon
      <4>3. QED
        BY <4>1, <4>2, Zenon DEF Cached
    <3>3. QED
      BY <3>1, <3>2, Zenon
  <2>7. cache' \in [Method -> L \cup {None}]
    <3>1. CASE cache[k] = None
      BY <3>1, <2>1, <1>1, Zenon
    <3>2. CASE cache[k] # None
      <4>1. cache' = [cache EXCEPT ![k] = w]
        BY <2>1, <3>2, Zenon DEF Cached
      <4> HIDE DEF w, L, k
      <4>2. QED
        BY <4>1, <1>1, <2>4, Zenon
    <3>3. QED
      BY <3>1, <3>2, Zenon
  <2> HIDE DEF w, L
  <2>8. QED
    BY <2>1, <2>2, <2>6, <2>7, Zenon DEF L, msg, k
<1>5. QED
  BY <1>3, <1>4, Zenon

\* It is a notice that a host is online or gone.
LEMMA NoticeBase ==
  ASSUME Base, ReceiveOnline \/ ReceiveOffline
  PROVE  Base'
<1> DEFINE msg == Head(outbox[Client])
<1>1. /\ cache' \in [Method -> Seq(Host) \cup {None}]
      /\ Incoming(msg.op) /\ Overtake(msg.method)
      /\ UNCHANGED <<index, threadVars, requests, basis, mixed>>
  BY NoticeCache, Zenon
<1>2. OutTypes' /\ UNCHANGED <<host, methods, providers, watched, discoverers, gone>>
  BY <1>1, IncomingIs, Zenon
<1>3. ThreadTypes'
  BY <1>1, OvertakeTypes, Zenon DEF Base
<1>4. CacheTypes'
  BY <1>1, Zenon DEF Base, CacheTypes, threadVars
<1>5. QED
  BY <1>1, <1>2, <1>3, <1>4, QuietBase, Zenon

\* Nothing is stored, sent or asked at the start.
LEMMA InitBase == DiscoveryInit => Base
<1> SUFFICES ASSUME DiscoveryInit PROVE Base
  OBVIOUS
<1>1. RInv
  BY InitRInv, Zenon DEF DiscoveryInit
<1>2. 1..Len(<<>>) = {} /\ <<>> \in Seq(Message) /\ 0 \in Nat
  BY SMT
<1>3. Client \in Conn /\ MaxCalls \in Nat
  BY DiscoveryAssumption
<1>4. Provs
  <2>1. /\ \A m \in Method : providers[m] = {}
        /\ \A c \in Conn : methods[c] = <<>>
    BY Zenon DEF DiscoveryInit, RegistryInit
  <2>2. IsFiniteSet({}) /\ Cardinality({}) = 0
    BY FS_EmptySet, Zenon
  <2>3. ASSUME NEW m \in Method, NEW h \in Host
        PROVE  Registrations(m, h) = {} /\ Provided(m, h) = 0
    <3>1. \A c, i : ~Entry(c, i, m, h)
      BY <2>1, Zenon DEF Entry
    <3>2. \A p : p \notin Registrations(m, h)
      BY <3>1, RegistrationsAre
    <3>3. {c \in providers[m] : host[c] = h} = {}
      BY <2>1, Zenon
    <3>4. QED
      BY <3>2, <3>3, <2>2, Zenon DEF Provided
  <2>4. ASSUME NEW m \in Method, NEW h \in Host PROVE ~Mixed(m, h)
    <3>1. ~(0 > 1)
      BY SMT
    <3>2. QED
      BY <2>3, <3>1, Zenon DEF Mixed
  <2>5. Finite
    BY <2>1, <2>2, <2>3, Zenon DEF Finite
  <2>6. QED
    BY <2>1, <2>4, <2>5, <1>3, Zenon DEF Provs
<1>5. OutTypes
  BY <1>2, Zenon DEF OutTypes, DiscoveryInit, RegistryInit
<1>6. ThreadTypes
  <2>1. 0 \in 0..MaxCalls
    BY <1>3, SMT
  <2>2. /\ pc = [t \in Thread |-> "idle"] /\ want = [t \in Thread |-> None]
        /\ count = [t \in Thread |-> 0] /\ got = [t \in Thread |-> None]
        /\ late = [t \in Thread |-> FALSE]
    BY Zenon DEF DiscoveryInit
  <2>3. /\ pc \in [Thread -> {"idle", "waiting", "answered"}]
        /\ want \in [Thread -> Method \cup {None}]
        /\ count \in [Thread -> 0..MaxCalls]
        /\ late \in [Thread -> BOOLEAN]
    BY <2>1, <2>2
  <2>4. got \in [Thread -> Seq(Host) \cup {None}]
    BY <2>2, Zenon
  <2>5. \A t \in Thread : /\ pc[t] = "idle" <=> want[t] = None
                          /\ pc[t] = "answered" <=> got[t] # None
                          /\ late[t] => pc[t] = "answered"
    BY <2>2
  <2>6. QED
    BY <2>3, <2>4, <2>5, Zenon DEF ThreadTypes
<1>7. CacheTypes
  <2>1. "nothing" \in Basis
    BY DEF Basis
  <2>2. QED
    BY <1>2, <2>1, Zenon DEF CacheTypes, DiscoveryInit
<1>8. QED
  BY <1>1, <1>4, <1>5, <1>6, <1>7, Zenon DEF Base

\* Every step keeps the types.
LEMMA NextBase == Base /\ [DiscoveryNext]_discoveryVars => Base'
<1> SUFFICES ASSUME Base, [DiscoveryNext]_discoveryVars PROVE Base'
  OBVIOUS
<1>1. ASSUME NEW t \in Thread, NEW m \in Method, Choose(t, m) \/ Ask(t, m) PROVE Base'
  BY <1>1, ChooseBase, AskBase, Zenon
<1>2. ASSUME NEW t \in Thread, Expire(t) \/ NotFound(t) \/ Store(t) PROVE Base'
  BY <1>2, GiveUpBase, StoreBase, Zenon
<1>3. CASE ReceiveAnswer \/ ReceiveOnline \/ ReceiveOffline
  BY <1>3, AnswerBase, NoticeBase, Zenon
<1>4. CASE HandleDiscovery
  BY <1>4, DiscoveryBase, Zenon
<1>5. CASE ClientLeaves
  <2>1. /\ OnShutDown(Client) /\ requests' = {} /\ UNCHANGED <<threadVars, cacheVars, ghostVars>>
        /\ Client \in Conn
    BY <1>5, DiscoveryAssumption, Zenon DEF ClientLeaves
  <2>2. ThreadTypes' /\ CacheTypes'
    BY <2>1, Zenon DEF Base, ThreadTypes, CacheTypes, threadVars, cacheVars, ghostVars
  <2>3. QED
    BY <2>1, <2>2, ShutDownBase, Zenon DEF ghostVars
<1>6. ASSUME NEW c \in Conn, ProviderLeaves(c) PROVE Base'
  <2>1. OnShutDown(c) /\ UNCHANGED <<threadVars, cacheVars, requests, ghostVars>>
    BY <1>6, Zenon DEF ProviderLeaves
  <2>2. ThreadTypes' /\ CacheTypes'
    BY <2>1, Zenon DEF Base, ThreadTypes, CacheTypes, threadVars, cacheVars, ghostVars
  <2>3. QED
    BY <2>1, <2>2, ShutDownBase, Zenon DEF ghostVars
<1>7. ASSUME NEW c \in Conn, ProviderReads(c) PROVE Base'
  <2>1. /\ outbox[c] # <<>> /\ outbox' = [outbox EXCEPT ![c] = Tail(@)]
        /\ UNCHANGED <<host, methods, providers, watched, discoverers, gone>>
        /\ UNCHANGED <<threadVars, cacheVars, requests, ghostVars>>
    BY <1>7, Zenon DEF ProviderReads, Deliver
  <2>2. ThreadTypes' /\ CacheTypes'
    BY <2>1, Zenon DEF Base, ThreadTypes, CacheTypes, threadVars, cacheVars, ghostVars
  <2>3. OutTypes'
    BY <2>1, TakenTypes, Zenon DEF Base
  <2>4. QED
    BY <2>1, <2>2, <2>3, QuietBase, Zenon DEF ghostVars
<1>8. ASSUME NEW c \in Conn, NEW m \in Method, NEW h \in Host, HandleRegistration(c, m, h)
      PROVE  Base'
  BY <1>8, RegisterBase, Zenon
<1>9. CASE UNCHANGED discoveryVars
  <2>1. /\ UNCHANGED <<host, methods, providers, watched, discoverers, gone, outbox>>
        /\ UNCHANGED <<threadVars, cacheVars, requests, ghostVars>>
    BY <1>9, Zenon DEF discoveryVars, registryVars
  <2>2. ThreadTypes' /\ CacheTypes' /\ OutTypes'
    BY <2>1, Zenon DEF Base, ThreadTypes, CacheTypes, OutTypes, threadVars, cacheVars, ghostVars
  <2>3. QED
    BY <2>1, <2>2, QuietBase, Zenon DEF ghostVars
<1>10. QED
  BY <1>1, <1>2, <1>3, <1>4, <1>5, <1>6, <1>7, <1>8, <1>9, Zenon DEF DiscoveryNext

-----------------------------------------------------------------------------
(* What the client holds keeps leading to what the registry has.           *)

\* What the client holds stays; only what is sent and the target change.
LEMMA Still ==
  ASSUME UNCHANGED <<threadVars, cacheVars, late, basis>>,
         InHand(outbox'[Client], Due, Asked', Target', Ceiling')
  PROVE  InHand(outbox[Client], Due, Asked, Target, Ceiling)'
<1>1. /\ basis' = basis /\ pc' = pc /\ want' = want /\ got' = got /\ late' = late
      /\ cache' = cache /\ count' = count
  BY Zenon DEF threadVars, cacheVars, ghostVars
<1>2. Due' = Due
  BY <1>1, Zenon DEF Due
<1>3. Answering(outbox'[Client], Due, Asked', Target')
  BY Zenon DEF InHand
<1>4. Answering(outbox[Client], Due, Asked, Target)'
  BY <1>2, <1>3, Zenon
<1>5. Holding(outbox'[Client], Asked', Target', Ceiling')
  BY Zenon DEF InHand
<1>6. Holding(outbox[Client], Asked, Target, Ceiling)'
  BY <1>1, <1>5, Zenon DEF Holding, Cached
<1>7. QED
  BY <1>4, <1>6, Zenon DEF InHand

\* The two parts of InHand, after a step.
LEMMA ToHand ==
  ASSUME Answering(outbox'[Client], Due', Asked', Target'), Holding(outbox[Client], Asked, Target, Ceiling)'
  PROVE  InHand(outbox[Client], Due, Asked, Target, Ceiling)'
BY Zenon DEF InHand

\* The targets change with the registry only.
LEMMA TargetSame ==
  ASSUME UNCHANGED <<host, methods, providers, discoverers>>, mixed' = mixed
  PROVE  Target' = Target /\ Asked' = Asked /\ Ceiling' = Ceiling
<1>1. \A m, h : Provided(m, h)' = Provided(m, h) /\ Announced(m, h)' = Announced(m, h)
  BY SameCounts, Zenon
<1>2. Asked' = Asked
  BY Zenon DEF Asked
<1>3. \A m, h : Right(m, h)' = Right(m, h)
  BY <1>1, Zenon DEF Right, Least
<1>4. QED
  BY <1>1, <1>2, <1>3, Zenon DEF Target, Ceiling

\* What the client holds has its type.
LEMMA HandTyped == Base => HandTypes
<1> SUFFICES ASSUME Base PROVE HandTypes
  OBVIOUS
<1>1. <<>> \in Seq(Host)
  BY SMT
<1>2. QED
  BY <1>1, Zenon DEF HandTypes, Base, ThreadTypes, CacheTypes, Cached

\* What a request may be answered with is settled when it is sent.
LEMMA DueGrows ==
  ASSUME count \in [Thread -> 0..MaxCalls], NEW t \in Thread,
         \A u \in Thread : u # t => pc'[u] = pc[u] /\ count'[u] = count[u] /\ want'[u] = want[u],
         count'[t] = count[t] \/ count'[t] = count[t] + 1,
         pc'[t] # "waiting" \/ count'[t] = count[t] + 1
  PROVE  Due \subseteq Due'
<1> SUFFICES ASSUME NEW q \in Due PROVE q \in Due'
  BY Zenon
<1> DEFINE u == q[1][1]
           n == q[1][2]
<1>1. /\ q \in Id \X Method /\ n <= count[u]
      /\ pc[u] = "waiting" /\ count[u] = n => want[u] = q[2]
  BY Zenon DEF Due
<1>2. u \in Thread /\ n \in 1..MaxCalls
  BY <1>1, DiscoveryAssumption
<1>3. count[u] \in 0..MaxCalls /\ MaxCalls \in Nat
  BY <1>2, DiscoveryAssumption, Zenon
<1>4. n <= count'[u] /\ (pc'[u] = "waiting" /\ count'[u] = n => want'[u] = q[2])
  <2>1. CASE u # t
    BY <2>1, <1>1, <1>2, Zenon
  <2>2. CASE u = t
    <3> DEFINE a == count[u]
               b == count'[u]
    <3>1. a \in 0..MaxCalls /\ n \in 1..MaxCalls /\ n <= a /\ (b = a \/ b = a + 1)
      BY <2>2, <1>1, <1>2, <1>3, Zenon
    <3> HIDE DEF a, b, n, u
    <3>2. n <= b /\ (b = a + 1 => b # n)
      BY <3>1, <1>3, SMT
    <3>3. pc'[u] # "waiting" \/ b = a + 1
      BY <2>2, Zenon DEF a, b
    <3>4. QED
      BY <3>2, <3>3, Zenon DEF b
  <2>3. QED
    BY <2>1, <2>2, Zenon
<1>5. QED
  BY <1>1, <1>4, Zenon DEF Due

\* The lists of hosts stay as they are.
LEMMA QuietHand ==
  ASSUME UNCHANGED registryVars, mixed' = mixed, Hand, Due \subseteq Due',
         Holding(outbox[Client], Asked, Target, Ceiling) => Holding(outbox[Client], Asked, Target, Ceiling)'
  PROVE  Hand'
<1> SUFFICES ASSUME Client \notin gone'
             PROVE  InHand(outbox[Client], Due, Asked, Target, Ceiling)'
  BY Zenon DEF Hand
<1>1. /\ UNCHANGED <<host, methods, providers, discoverers>>
      /\ outbox' = outbox /\ gone' = gone
  BY Zenon DEF registryVars
<1>2. Answering(outbox[Client], Due, Asked, Target) /\ Holding(outbox[Client], Asked, Target, Ceiling)
  BY <1>1, Zenon DEF Hand, InHand
<1>3. Target' = Target /\ Asked' = Asked
  BY <1>1, TargetSame
<1>4. Answering(outbox'[Client], Due', Asked', Target')
  <2>1. Answering(outbox[Client], Due', Asked, Target)
    BY <1>2, AnsweringMore, Zenon
  <2>2. QED
    BY <2>1, <1>1, <1>3, Zenon
<1>5. QED
  BY <1>2, <1>4, ToHand, Zenon

\* A thread that returns waits for nothing: every request is due.
LEMMA ReturnDue ==
  ASSUME ThreadTypes, NEW t \in Thread, Return(t), count' = count
  PROVE  /\ Due \subseteq Due'
         /\ pc'[t] = "idle"
         /\ \A u \in Thread : u # t => /\ pc'[u] = pc[u] /\ want'[u] = want[u]
                                       /\ got'[u] = got[u] /\ late'[u] = late[u]
<1>1. /\ pc' = [pc EXCEPT ![t] = "idle"] /\ want' = [want EXCEPT ![t] = None]
      /\ got' = [got EXCEPT ![t] = None] /\ late' = [late EXCEPT ![t] = FALSE]
      /\ pc \in [Thread -> {"idle", "waiting", "answered"}]
      /\ want \in [Thread -> Method \cup {None}]
      /\ got \in [Thread -> Seq(Host) \cup {None}]
      /\ late \in [Thread -> BOOLEAN] /\ count \in [Thread -> 0..MaxCalls]
  BY Zenon DEF Return, ThreadTypes
<1>2. \A u \in Thread : u # t => /\ pc'[u] = pc[u] /\ want'[u] = want[u]
                                 /\ got'[u] = got[u] /\ late'[u] = late[u]
  BY <1>1, Zenon
<1>3. pc'[t] = "idle" /\ pc'[t] # "waiting"
  BY <1>1
<1>4. Due \subseteq Due'
  BY <1>1, <1>2, <1>3, DueGrows, Zenon
<1>5. QED
  BY <1>2, <1>3, <1>4, Zenon

\* A call that finds hosts changes no list.
LEMMA ChooseHand ==
  ASSUME DInv, NEW t \in Thread, NEW m \in Method, Choose(t, m)
  PROVE  Req' /\ Hand'
<1>1. /\ UNCHANGED <<registryVars, pc, want, got, cache, requests, ghostVars>>
      /\ count' = [count EXCEPT ![t] = @ + 1] /\ pc[t] = "idle"
      /\ count \in [Thread -> 0..MaxCalls]
  BY Zenon DEF Choose, DInv, Base, ThreadTypes
<1>2. Due \subseteq Due'
  <2>1. /\ \A u \in Thread : u # t => count'[u] = count[u]
        /\ count'[t] = count[t] + 1
    BY <1>1, Zenon
  <2>2. pc' = pc /\ want' = want
    BY <1>1, Zenon
  <2>3. QED
    BY <1>1, <2>1, <2>2, DueGrows, Zenon
<1>3. Holding(outbox[Client], Asked, Target, Ceiling) => Holding(outbox[Client], Asked, Target, Ceiling)'
  <2>1. SUFFICES ASSUME Holding(outbox[Client], Asked, Target, Ceiling)
                 PROVE  Holding(outbox[Client], Asked, Target, Ceiling)'
    BY Zenon
  <2>2. Target' = Target /\ Asked' = Asked /\ Ceiling' = Ceiling /\ outbox' = outbox
    BY <1>1, TargetSame DEF registryVars, ghostVars
  <2>3. QED
    BY <1>1, <2>1, <2>2, Zenon DEF Holding, Cached, ghostVars
<1>4. QED
  BY <1>1, <1>2, <1>3, QuietHand, Zenon DEF DInv, Req, ghostVars

\* A new request is due, for no thread waits with that number yet.
LEMMA AskHand ==
  ASSUME DInv, NEW t \in Thread, NEW m \in Method, Ask(t, m)
  PROVE  Req' /\ Hand'
<1>1. /\ UNCHANGED <<registryVars, got, ret, cacheVars, ghostVars>>
      /\ count' = [count EXCEPT ![t] = @ + 1] /\ pc[t] = "idle" /\ count[t] < MaxCalls
      /\ pc' = [pc EXCEPT ![t] = "waiting"] /\ want' = [want EXCEPT ![t] = m]
      /\ requests' = requests \cup {<<<<t, count[t] + 1>>, m>>}
      /\ count \in [Thread -> 0..MaxCalls]
      /\ pc \in [Thread -> {"idle", "waiting", "answered"}]
      /\ want \in [Thread -> Method \cup {None}]
  BY Zenon DEF Ask, DInv, Base, ThreadTypes
<1>2. /\ \A u \in Thread : u # t => pc'[u] = pc[u] /\ count'[u] = count[u] /\ want'[u] = want[u]
      /\ count'[t] = count[t] + 1 /\ pc'[t] = "waiting" /\ want'[t] = m
  BY <1>1, Zenon
<1>3. Due \subseteq Due'
  BY <1>1, <1>2, DueGrows, Zenon
<1>4. requests' \subseteq Due'
  <2> DEFINE n == count[t] + 1
             q == <<<<t, n>>, m>>
  <2>1. q[1] = <<t, n>> /\ q[2] = m /\ q[1][1] = t /\ q[1][2] = n
    OBVIOUS
  <2>2. q \in requests' /\ requests' \subseteq Id \X Method
    BY <1>1, AskBase, Zenon DEF DInv, Base, CacheTypes
  <2>3. n <= count'[t]
    <3> DEFINE a == count[t]
    <3>1. a \in 0..MaxCalls
      BY <1>1, Zenon
    <3>2. count'[t] = a + 1
      BY <1>2, Zenon
    <3> HIDE DEF a
    <3>3. a + 1 <= a + 1
      BY <3>1, SMT
    <3>4. QED
      BY <3>2, <3>3, Zenon DEF a
  <2> HIDE DEF q, n
  <2>4. q \in Due'
    BY <2>1, <2>2, <2>3, <1>2, Zenon DEF Due
  <2>5. requests' = requests \cup {q} /\ requests \subseteq Due
    BY <1>1, Zenon DEF DInv, Req, q, n
  <2>6. QED
    BY <2>4, <2>5, <1>3, Zenon
<1>5. Holding(outbox[Client], Asked, Target, Ceiling) => Holding(outbox[Client], Asked, Target, Ceiling)'
  <2>1. SUFFICES ASSUME Holding(outbox[Client], Asked, Target, Ceiling)
                 PROVE  Holding(outbox[Client], Asked, Target, Ceiling)'
    BY Zenon
  <2>2. Target' = Target /\ Asked' = Asked /\ Ceiling' = Ceiling /\ outbox' = outbox
    BY <1>1, TargetSame DEF registryVars, ghostVars
  <2>3. got' = got /\ late' = late /\ basis' = basis /\ cache' = cache
    BY <1>1, Zenon DEF cacheVars, ghostVars
  <2>4. \A u \in Thread : pc'[u] = "answered" => pc[u] = "answered" /\ want'[u] = want[u]
    <3>1. pc'[t] # "answered"
      BY <1>2
    <3>2. QED
      BY <3>1, <1>2, Zenon
  <2>5. QED
    BY <2>1, <2>2, <2>3, <2>4, Zenon DEF Holding, Cached
<1>6. QED
  BY <1>1, <1>3, <1>4, <1>5, QuietHand, Zenon DEF DInv, Req, ghostVars

\* A thread gives up what it was answered with.
LEMMA GiveUpHand ==
  ASSUME DInv, NEW t \in Thread, Expire(t) \/ NotFound(t)
  PROVE  Req' /\ Hand'
<1>1. Return(t) /\ UNCHANGED <<registryVars, count, ret, cacheVars, requests, basis, mixed>>
  BY Zenon DEF Expire, NotFound
<1>2. /\ Due \subseteq Due'
      /\ pc'[t] = "idle"
      /\ \A u \in Thread : u # t => /\ pc'[u] = pc[u] /\ want'[u] = want[u]
                                    /\ got'[u] = got[u] /\ late'[u] = late[u]
  BY <1>1, ReturnDue, Zenon DEF DInv, Base
<1>3. Holding(outbox[Client], Asked, Target, Ceiling) => Holding(outbox[Client], Asked, Target, Ceiling)'
  <2>1. SUFFICES ASSUME Holding(outbox[Client], Asked, Target, Ceiling)
                 PROVE  Holding(outbox[Client], Asked, Target, Ceiling)'
    BY Zenon
  <2>2. Target' = Target /\ Asked' = Asked /\ Ceiling' = Ceiling /\ outbox' = outbox
    BY <1>1, TargetSame DEF registryVars, ghostVars
  <2>3. basis' = basis /\ cache' = cache
    BY <1>1, Zenon DEF cacheVars
  <2>4. \A u \in Thread : pc'[u] = "answered" => u # t
    BY <1>2
  <2>5. QED
    BY <2>1, <2>2, <2>3, <2>4, <1>2, Zenon DEF Holding, Cached
<1>4. QED
  BY <1>1, <1>2, <1>3, QuietHand, Zenon DEF DInv, Req

\* An answer that no notice overtook becomes the list of its method; of one
\* that was overtaken nothing is known.
LEMMA StoreHand ==
  ASSUME DInv, NEW t \in Thread, Store(t)
  PROVE  Req' /\ Hand'
<1>1. /\ Return(t) /\ UNCHANGED <<registryVars, count, requests, mixed>>
      /\ pc[t] = "answered"
      /\ cache' = [cache EXCEPT ![want[t]] = got[t]]
      /\ basis' = [basis EXCEPT ![want[t]] = IF late[t] THEN "overtaken" ELSE "answer"]
  BY Zenon DEF Store
<1>2. /\ Due \subseteq Due'
      /\ pc'[t] = "idle"
      /\ \A u \in Thread : u # t => /\ pc'[u] = pc[u] /\ want'[u] = want[u]
                                    /\ got'[u] = got[u] /\ late'[u] = late[u]
  BY <1>1, ReturnDue, Zenon DEF DInv, Base
<1>3. /\ got[t] \in Seq(Host) /\ want[t] \in Method /\ got[t] # None
      /\ cache \in [Method -> Seq(Host) \cup {None}] /\ basis \in [Method -> Basis]
  BY StoreBase, DiscoveryAssumption, ZenonT(60) DEF DInv, Base, CacheTypes
<1>4. Holding(outbox[Client], Asked, Target, Ceiling) => Holding(outbox[Client], Asked, Target, Ceiling)'
  <2>1. SUFFICES ASSUME Holding(outbox[Client], Asked, Target, Ceiling)
                 PROVE  Holding(outbox[Client], Asked, Target, Ceiling)'
    BY Zenon
  <2>2. Target' = Target /\ Asked' = Asked /\ Ceiling' = Ceiling /\ outbox' = outbox
    BY <1>1, TargetSame DEF registryVars, ghostVars
  <2> DEFINE s == got[t]
             k == want[t]
             o == outbox[Client]
  <2>3. k \in Asked /\ (~late[t] => Tracks(k, s, o, Target))
    BY <1>1, <2>1, Zenon DEF Holding
  <2>4. ASSUME NEW m \in Method
        PROVE  /\ basis'[m] = "answer" => m \in Asked /\ Tracks(m, Cached(m)', o, Target)
               /\ basis'[m] = "nothing" => Tracks(m, Cached(m)', o, Ceiling)
    <3>1. CASE m = k
      <4>1. Cached(m)' = s
        BY <3>1, <1>1, <1>3, Zenon DEF Cached
      <4>2. basis'[m] = IF late[t] THEN "overtaken" ELSE "answer"
        BY <3>1, <1>1, <1>3, Zenon
      <4>3. basis'[m] # "nothing" /\ (basis'[m] = "answer" => ~late[t])
        BY <4>2
      <4>4. QED
        BY <3>1, <4>1, <4>3, <2>3, Zenon
    <3>2. CASE m # k
      <4>1. basis'[m] = basis[m] /\ cache'[m] = cache[m]
        BY <3>2, <1>1, <1>3, Zenon
      <4>2. Cached(m)' = Cached(m)
        BY <4>1, Zenon DEF Cached
      <4>3. QED
        BY <4>1, <4>2, <2>1, Zenon DEF Holding
    <3>3. QED
      BY <3>1, <3>2, Zenon
  <2>5. \A u \in Thread : pc'[u] = "answered" => u # t
    BY <1>2
  <2>6. \A u \in Thread : pc'[u] = "answered" =>
          want'[u] \in Asked /\ (~late'[u] => Tracks(want'[u], got'[u], o, Target))
    BY <2>1, <2>5, <1>2, Zenon DEF Holding
  <2>7. QED
    BY <2>2, <2>4, <2>6, Zenon DEF Holding
<1>5. QED
  BY <1>1, <1>2, <1>4, QuietHand, Zenon DEF DInv, Req

\* An answer changes no list by itself.
LEMMA ApplyAnswer ==
  ASSUME NEW m, NEW hosts \in Seq(Host), NEW x \in Message, x.op = "discovered"
  PROVE  Apply(m, hosts, x) = hosts
<1>1. x.op \in {"online", "offline"} => x.method # m
  OBVIOUS
<1>2. QED
  BY <1>1, ApplyIs, Zenon

\* The IO thread takes a message.
LEMMA AnswerHand ==
  ASSUME DInv, ReceiveAnswer
  PROVE  Req' /\ Hand'
<1> DEFINE out == outbox[Client]
           msg == Head(out)
           t == msg.id[1]
           hosts == msg.hosts
           k == msg.method
<1>1. /\ Incoming("discovered")
      /\ IF pc[t] = "waiting" /\ count[t] = msg.id[2]
           THEN pc' = [pc EXCEPT ![t] = "answered"] /\ got' = [got EXCEPT ![t] = hosts]
           ELSE UNCHANGED <<pc, got>>
      /\ basis' = IF hosts = <<>> /\ Empty(k) THEN [basis EXCEPT ![k] = "answer"] ELSE basis
      /\ UNCHANGED <<want, count, ret, cacheVars, requests, late, mixed>>
  BY Zenon DEF ReceiveAnswer
<1>2. /\ out \in Seq(Message) /\ out # <<>> /\ outbox'[Client] = Tail(out)
      /\ msg \in Message /\ msg.op = "discovered"
      /\ UNCHANGED <<host, methods, providers, watched, discoverers, gone>>
  BY <1>1, IncomingIs, Zenon DEF DInv
<1>3. msg.id \in Id /\ k \in Method /\ hosts \in Seq(Host)
  <2> HIDE DEF msg
  <2>1. QED
    BY <1>2, MessageIs, Zenon
<1>4. t \in Thread
  BY <1>3, DiscoveryAssumption
<1>5. /\ pc \in [Thread -> {"idle", "waiting", "answered"}]
      /\ got \in [Thread -> Seq(Host) \cup {None}]
      /\ cache \in [Method -> Seq(Host) \cup {None}]
      /\ basis \in [Method -> Basis]
      /\ \A u \in Thread : late[u] => pc[u] = "answered"
  BY Zenon DEF DInv, Base, ThreadTypes, CacheTypes
<1>6. \/ /\ pc[t] = "waiting" /\ count[t] = msg.id[2]
         /\ pc' = [pc EXCEPT ![t] = "answered"] /\ got' = [got EXCEPT ![t] = hosts]
      \/ pc' = pc /\ got' = got
  BY <1>1, Zenon
<1>7. Due \subseteq Due'
  <2>1. \A u \in Thread : pc'[u] = "waiting" => pc[u] = "waiting"
    BY <1>4, <1>5, <1>6
  <2>2. \A q \in Due : q[1][1] \in Thread
    BY DiscoveryAssumption DEF Due
  <2>3. count' = count /\ want' = want
    BY <1>1, Zenon
  <2>4. QED
    BY <2>1, <2>2, <2>3, Zenon DEF Due
<1>8. Req'
  BY <1>1, <1>7, Zenon DEF DInv, Req
<1>9. ASSUME Client \notin gone' PROVE InHand(outbox[Client], Due, Asked, Target, Ceiling)'
  <2>1. Answering(out, Due, Asked, Target) /\ Holding(out, Asked, Target, Ceiling)
    BY <1>2, <1>9, Zenon DEF DInv, Hand, InHand
  <2>2. Target' = Target /\ Asked' = Asked /\ Ceiling' = Ceiling
    BY <1>1, <1>2, TargetSame
  <2>3. /\ Answering(Tail(out), Due, Asked, Target)
        /\ <<msg.id, k>> \in Due /\ k \in Asked
        /\ Tracks(k, hosts, Tail(out), Target)
    <3> HIDE DEF out
    <3>1. QED
      BY <1>2, <2>1, AnsweringTail, Zenon
  <2>4. Answering(outbox'[Client], Due', Asked', Target')
    <3>1. Answering(Tail(out), Due', Asked, Target)
      BY <1>7, <2>3, AnsweringMore, Zenon
    <3>2. QED
      BY <3>1, <2>2, <1>2, Zenon
  <2>5. \A m \in Method : Apply(m, Cached(m), msg) = Cached(m) /\ Cached(m) \in Seq(Host)
    <3>1. \A m \in Method : Cached(m) \in Seq(Host)
      BY HandTyped, Zenon DEF DInv, HandTypes
    <3>2. QED
      BY <1>2, <3>1, ApplyAnswer, Zenon
  <2>6. ASSUME NEW m \in Method
        PROVE  /\ basis'[m] = "answer" => m \in Asked /\ Tracks(m, Cached(m), Tail(out), Target)
               /\ basis'[m] = "nothing" => Tracks(m, Cached(m), Tail(out), Ceiling)
    <3>1. /\ basis[m] = "answer" => m \in Asked /\ Tracks(m, Cached(m), Tail(out), Target)
          /\ basis[m] = "nothing" => Tracks(m, Cached(m), Tail(out), Ceiling)
      <4> DEFINE c == Cached(m)
      <4>1. /\ c \in Seq(Host) /\ Apply(m, c, msg) = c
            /\ basis[m] = "answer" => m \in Asked /\ Tracks(m, c, out, Target)
            /\ basis[m] = "nothing" => Tracks(m, c, out, Ceiling)
        BY <2>1, <2>5, Zenon DEF Holding
      <4> HIDE DEF c, out
      <4>2. /\ Tracks(m, c, out, Target) => Tracks(m, c, Tail(out), Target)
            /\ Tracks(m, c, out, Ceiling) => Tracks(m, c, Tail(out), Ceiling)
        BY <4>1, <1>2, TracksTail, Zenon
      <4>3. QED
        BY <4>1, <4>2, Zenon DEF c
    <3>2. CASE basis'[m] = basis[m]
      BY <3>1, <3>2, Zenon
    <3>3. CASE basis'[m] # basis[m]
      <4>1. m = k /\ hosts = <<>> /\ Empty(k) /\ basis'[m] = "answer"
        BY <3>3, <1>1, <1>5, Zenon
      <4>2. Cached(k) = <<>>
        BY <4>1 DEF Empty, Cached
      <4>3. basis'[m] # "nothing"
        BY <4>1
      <4>4. QED
        BY <4>1, <4>2, <4>3, <2>3, Zenon
    <3>4. QED
      BY <3>2, <3>3, Zenon
  <2>7. ASSUME NEW u \in Thread, pc'[u] = "answered"
        PROVE  want[u] \in Asked /\ (~late[u] => Tracks(want[u], got'[u], Tail(out), Target))
    <3>1. CASE pc[u] = "answered"
      <4>1. got'[u] = got[u]
        <5>1. CASE u = t
          <6>1. pc[t] # "waiting"
            BY <3>1, <5>1
          <6>2. QED
            BY <6>1, <1>6, Zenon
        <5>2. CASE u # t
          BY <5>2, <1>5, <1>6, Zenon
        <5>3. QED
          BY <5>1, <5>2, Zenon
      <4> DEFINE a == want[u]
                 g == got[u]
      <4>2. a \in Asked /\ (~late[u] => Tracks(a, g, out, Target))
        BY <3>1, <2>1, Zenon DEF Holding
      <4>3. g \in Seq(Host)
        BY <3>1, HandTyped, Zenon DEF DInv, HandTypes
      <4>4. Apply(a, g, msg) = g
        <5> HIDE DEF a, g, msg
        <5>1. QED
          BY <4>3, <1>2, ApplyAnswer, Zenon
      <4>5. ~late[u] => Tracks(a, g, Tail(out), Target)
        <5> HIDE DEF a, g, out
        <5>1. QED
          BY <4>2, <4>3, <4>4, <1>2, TracksTail, Zenon
      <4>6. QED
        BY <4>1, <4>2, <4>5, Zenon
    <3>2. CASE pc[u] # "answered"
      <4>1. u = t /\ pc[t] = "waiting" /\ count[t] = msg.id[2] /\ got' = [got EXCEPT ![t] = hosts]
        BY <3>2, <2>7, <1>4, <1>5, <1>6, Zenon
      <4>2. want[t] = k
        <5>1. <<msg.id, k>>[1] = msg.id /\ <<msg.id, k>>[2] = k
          OBVIOUS
        <5> HIDE DEF k, msg
        <5>2. QED
          BY <2>3, <4>1, <5>1, Zenon DEF Due
      <4>3. got'[u] = hosts
        BY <4>1, <1>4, <1>5, Zenon
      <4>4. QED
        BY <4>1, <4>2, <4>3, <2>3, Zenon
    <3>3. QED
      BY <3>1, <3>2, Zenon
  <2>8. Holding(outbox[Client], Asked, Target, Ceiling)'
    <3>1. want' = want /\ late' = late /\ cache' = cache
      BY <1>1, Zenon DEF cacheVars
    <3>2. QED
      BY <3>1, <1>2, <2>2, <2>6, <2>7, Zenon DEF Holding, Cached
  <2>9. QED
    BY <2>4, <2>8, ToHand, Zenon
<1>10. QED
  BY <1>8, <1>9, Zenon DEF Hand

\* A notice is applied to the cache, and counts the threads that hold an
\* answer for its method as overtaken.
LEMMA NoticeHand ==
  ASSUME DInv, ReceiveOnline \/ ReceiveOffline
  PROVE  Req' /\ Hand'
<1> DEFINE out == outbox[Client]
           msg == Head(out)
           k == msg.method
<1>1. /\ \A m \in Method : Cached(m)' = Apply(m, Cached(m), msg)
      /\ msg.op \in {"online", "offline"} /\ Incoming(msg.op) /\ Overtake(k)
      /\ UNCHANGED <<index, threadVars, requests, basis, mixed>>
  BY NoticeCache, Zenon DEF DInv
<1>2. /\ out \in Seq(Message) /\ out # <<>> /\ outbox'[Client] = Tail(out)
      /\ msg \in Message
      /\ UNCHANGED <<host, methods, providers, watched, discoverers, gone>>
  BY <1>1, IncomingIs, Zenon DEF DInv
<1>3. pc' = pc /\ want' = want /\ got' = got /\ count' = count /\ basis' = basis
      /\ requests' = requests
  BY <1>1, Zenon DEF threadVars
<1>4. Due' = Due
  BY <1>3, Zenon DEF Due
<1>5. Req'
  BY <1>3, <1>4, Zenon DEF DInv, Req
<1>6. ASSUME Client \notin gone' PROVE InHand(outbox[Client], Due, Asked, Target, Ceiling)'
  <2>1. Answering(out, Due, Asked, Target) /\ Holding(out, Asked, Target, Ceiling)
    BY <1>2, <1>6, Zenon DEF DInv, Hand, InHand
  <2>2. Target' = Target /\ Asked' = Asked /\ Ceiling' = Ceiling
    BY <1>1, <1>2, TargetSame
  <2>3. Answering(Tail(out), Due, Asked, Target)
    <3> HIDE DEF out
    <3>1. QED
      BY <1>2, <2>1, AnsweringTail, Zenon
  <2>4. Answering(outbox'[Client], Due', Asked', Target')
    BY <2>2, <2>3, <1>2, <1>4, Zenon
  <2>5. ASSUME NEW m \in Method
        PROVE  /\ basis[m] = "answer" => m \in Asked /\ Tracks(m, Cached(m)', Tail(out), Target)
               /\ basis[m] = "nothing" => Tracks(m, Cached(m)', Tail(out), Ceiling)
    <3> DEFINE c == Cached(m)
    <3>1. /\ basis[m] = "answer" => m \in Asked /\ Tracks(m, c, out, Target)
          /\ basis[m] = "nothing" => Tracks(m, c, out, Ceiling)
      BY <2>1, Zenon DEF Holding
    <3>2. c \in Seq(Host)
      BY HandTyped, Zenon DEF DInv, HandTypes
    <3>3. /\ Tracks(m, c, out, Target) => Tracks(m, Apply(m, c, msg), Tail(out), Target)
          /\ Tracks(m, c, out, Ceiling) => Tracks(m, Apply(m, c, msg), Tail(out), Ceiling)
      <4> HIDE DEF c, out
      <4>1. QED
        BY <3>2, <1>2, TracksTail, Zenon
    <3>4. Cached(m)' = Apply(m, c, msg)
      BY <1>1, Zenon
    <3>5. QED
      BY <3>1, <3>3, <3>4, Zenon
  <2>6. ASSUME NEW u \in Thread, pc[u] = "answered"
        PROVE  want[u] \in Asked /\ (~late'[u] => Tracks(want[u], got[u], Tail(out), Target))
    <3> DEFINE a == want[u]
               g == got[u]
    <3>1. a \in Asked /\ (~late[u] => Tracks(a, g, out, Target))
      BY <2>6, <2>1, Zenon DEF Holding
    <3>2. ~late'[u] => ~late[u] /\ k # a
      <4>1. late' = [t \in Thread |-> late[t] \/ (pc[t] = "answered" /\ want[t] = k)]
        BY <1>1, Zenon DEF Overtake
      <4>2. QED
        BY <4>1, <2>6, Zenon
    <3>3. g \in Seq(Host)
      BY <2>6, HandTyped, Zenon DEF DInv, HandTypes
    <3>4. k # a => Apply(a, g, msg) = g
      <4> HIDE DEF a, g, msg
      <4>1. QED
        BY <3>3, <1>2, ApplyIs, Zenon
    <3>5. ~late'[u] => Tracks(a, g, Tail(out), Target)
      <4> HIDE DEF a, g, out, k
      <4>1. ASSUME ~late'[u] PROVE Tracks(a, g, Tail(out), Target)
        <5>1. Tracks(a, g, out, Target) /\ Apply(a, g, msg) = g
          BY <4>1, <3>1, <3>2, <3>4, Zenon
        <5>2. QED
          BY <5>1, <3>3, <1>2, TracksTail, Zenon
      <4>2. QED
        BY <4>1, Zenon
    <3>6. QED
      BY <3>1, <3>5, Zenon
  <2>7. Holding(outbox[Client], Asked, Target, Ceiling)'
    <3>1. Holding(outbox[Client], Asked, Target, Ceiling)' <=>
            /\ \A m \in Method :
                 /\ basis'[m] = "answer" =>
                      m \in Asked' /\ Tracks(m, Cached(m)', outbox'[Client], Target')
                 /\ basis'[m] = "nothing" => Tracks(m, Cached(m)', outbox'[Client], Ceiling')
            /\ \A u \in Thread : pc'[u] = "answered" =>
                 want'[u] \in Asked' /\ (~late'[u] => Tracks(want'[u], got'[u], outbox'[Client], Target'))
      BY Zenon DEF Holding
    <3>2. QED
      BY <3>1, <1>2, <1>3, <2>2, <2>5, <2>6, Zenon
  <2>8. QED
    BY <2>4, <2>7, ToHand, Zenon
<1>7. QED
  BY <1>5, <1>6, Zenon DEF Hand

\* Hand, for a client that is here.
LEMMA HereIn ==
  ASSUME DInv, Client \notin gone
  PROVE  InHand(outbox[Client], Due, Asked, Target, Ceiling)
BY Zenon DEF DInv, Hand

\* A provider registers: the targets move as the notice moves the lists.
LEMMA RegisterHand ==
  ASSUME DInv, NEW c \in Conn, NEW m \in Method, NEW h \in Host, HandleRegistration(c, m, h)
  PROVE  Req' /\ Hand'
<1> DEFINE out == outbox[Client]
           x == Online(m, h)
<1>1. /\ c # Client /\ OnRegister(c, m, h) /\ host[c] \in {None, h}
      /\ mixed \subseteq mixed' /\ basis' = basis /\ late' = late
      /\ UNCHANGED <<threadVars, cacheVars, requests>>
  BY Zenon DEF HandleRegistration
<1>2. gone' = gone /\ discoverers' = discoverers
  BY <1>1, Zenon DEF OnRegister
<1>3. Due' = Due /\ Asked' = Asked
  BY <1>1, <1>2, Zenon DEF Due, Asked, threadVars
<1>4. Req'
  BY <1>1, <1>3, Zenon DEF DInv, Req
<1>5. ASSUME Client \notin gone' PROVE InHand(outbox[Client], Due, Asked, Target, Ceiling)'
  <2>1. InHand(out, Due, Asked, Target, Ceiling)
    BY <1>2, <1>5, HereIn, Zenon
  <2>2. /\ out \in Seq(Message)
        /\ outbox'[Client] = IF Client \in discoverers[m] THEN Append(out, x) ELSE out
    <3>1. Client \in Conn /\ OutTypes /\ outbox[Client] \in Seq(Message)
      BY DiscoveryAssumption, Zenon DEF DInv, Base, OutTypes
    <3>2. \A d \in Conn : d # c =>
            /\ d \in discoverers[m] => outbox'[d] = Append(outbox[d], Online(m, h))
            /\ d \notin discoverers[m] => outbox'[d] = outbox[d]
      BY <1>1, <3>1, OutOfRegister, Zenon
    <3>3. QED
      BY <3>1, <3>2, <1>1, Zenon
  <2>3. /\ Moves(Method, Target, x, Target') /\ Within(Method \ {m}, Target, Target')
        /\ m \in Asked => Moves(Method, Ceiling, x, Ceiling')
        /\ m \notin Asked => Within(Method, Ceiling, Ceiling')
    <3>1. RInv /\ Finite
      BY Zenon DEF DInv, Base, Provs
    <3>2. QED
      BY <1>1, <1>3, <3>1, RegisterMoves, Zenon
  <2>4. Asked \in SUBSET Method /\ (Client \in discoverers[m] <=> m \in Asked)
    BY Zenon DEF Asked
  <2>5. CASE Client \in discoverers[m]
    <3>1. x \in Message /\ x.op # "discovered"
      <4>1. x \in Message
        BY MessagesAre, Zenon
      <4>2. x.op # "discovered"
        BY DEF Online
      <4>3. QED
        BY <4>1, <4>2, Zenon
    <3> HIDE DEF x
    <3>2. Moves(Asked, Target, x, Target') /\ Moves(Method, Ceiling, x, Ceiling')
      BY <2>3, <2>4, <2>5, Zenon DEF Moves
    <3>3. HandTypes
      BY HandTyped, Zenon DEF DInv
    <3> HIDE DEF out
    <3>4. InHand(Append(out, x), Due, Asked, Target', Ceiling')
      BY <2>1, <2>2, <2>4, <3>1, <3>2, <3>3, InHandAppend, Zenon
    <3>5. QED
      BY <3>4, <2>2, <2>5, <1>1, <1>3, Still, Zenon
  <2>6. CASE Client \notin discoverers[m]
    <3>1. Within(Asked, Target, Target')
      <4>1. \A a \in Asked : a \in Method \ {m}
        BY <2>4, <2>6, Zenon
      <4>2. QED
        BY <4>1, <2>3, Zenon DEF Within
    <3>2. Within(Method, Ceiling, Ceiling')
      BY <2>3, <2>4, <2>6, Zenon
    <3>3. InHand(out, Due, Asked, Target', Ceiling')
      BY <2>1, <2>4, <3>1, <3>2, InHandSame, Zenon
    <3>4. QED
      BY <3>3, <2>2, <2>6, <1>1, <1>3, Still, Zenon
  <2>7. QED
    BY <2>5, <2>6, Zenon
<1>6. QED
  BY <1>4, <1>5, Zenon DEF Hand

\* The answer to a discovery is a right list, and what may have been missed of
\* the method may be missed still.
LEMMA DiscoveryHand ==
  ASSUME DInv, HandleDiscovery
  PROVE  Req' /\ Hand'
<1>1. PICK r \in requests : OnDiscover(Client, r[2], r[1]) /\ requests' = requests \ {r}
  BY Zenon DEF HandleDiscovery
<1>2. UNCHANGED <<threadVars, cacheVars, ghostVars>>
  BY Zenon DEF HandleDiscovery
<1> DEFINE m == r[2]
           id == r[1]
           out == outbox[Client]
<1>3. r = <<id, m>> /\ id \in Id /\ m \in Method /\ r \in Due /\ Client \in Conn
  <2>1. r \in Id \X Method /\ r \in Due /\ Client \in Conn
    BY DiscoveryAssumption, Zenon DEF DInv, Base, CacheTypes, Req
  <2>2. QED
    BY <2>1
<1>4. /\ UNCHANGED <<host, methods, providers, gone>>
      /\ discoverers' = [discoverers EXCEPT ![m] = @ \cup {Client}]
  BY <1>1, Zenon DEF OnDiscover, AddDiscoverer
<1>5. Due' = Due
  BY <1>2, Zenon DEF Due, threadVars
<1>6. Req'
  BY <1>1, <1>5, Zenon DEF DInv, Req
<1>7. ASSUME Client \notin gone' PROVE InHand(outbox[Client], Due, Asked, Target, Ceiling)'
  <2>1. InHand(out, Due, Asked, Target, Ceiling)
    BY <1>4, <1>7, HereIn, Zenon
  <2>c. \A a, g : Provided(a, g)' = Provided(a, g) /\ Announced(a, g)' = Announced(a, g)
    <3>1. UNCHANGED <<host, methods, providers>>
      BY <1>4, Zenon
    <3>2. QED
      BY <3>1, SameCounts, Zenon
  <2>2. Target' = Target
    <3>1. \A a, g : Right(a, g)' = Right(a, g)
      BY <2>c, <1>2, Zenon DEF Right, Least, ghostVars
    <3>2. QED
      BY <3>1, Zenon DEF Target
  <2>3. Asked' \in SUBSET Method /\ Asked \subseteq Asked' /\ m \in Asked'
    <3>1. discoverers \in [Method -> SUBSET Conn]
      BY Zenon DEF DInv, Base, RInv, IndexTypeOK
    <3> HIDE DEF m
    <3>2. QED
      BY <3>1, <1>3, <1>4, Zenon DEF Asked
  <2>p. \A a \in Method, g \in Host :
          /\ Provided(a, g) \in Nat /\ Announced(a, g) \in Nat
          /\ Provided(a, g) <= Announced(a, g)
    BY ProvidedAnnounced, Zenon DEF DInv, Base, Provs
  <2>4. PICK l \in SetToSeqs(providers[m]) : outbox' = [outbox EXCEPT ![Client] =
         Append(@, Discovered(id, m, [i \in DOMAIN l |-> host[l[i]]]))]
    BY <1>1, Zenon DEF OnDiscover
  <2> DEFINE hosts == [i \in DOMAIN l |-> host[l[i]]]
             x == Discovered(id, m, hosts)
  <2>5. hosts \in Seq(Host) /\ \A h \in Host : Times(hosts, h) = Provided(m, h)
    <3>1. IsFiniteSet(providers[m]) /\ \A c \in providers[m] : host[c] \in Host
      BY <1>3, RInvHosts, Zenon DEF DInv, Base, Provs, Finite
    <3>2. hosts = [i \in DOMAIN l |-> host[l[i]]]
      BY Zenon
    <3> HIDE DEF hosts, m
    <3>3. QED
      BY <3>1, <3>2, AnswerCounts, Zenon
  <2> HIDE DEF hosts
  <2>6. /\ x \in Message /\ x.op = "discovered" /\ x.id = id /\ x.method = m /\ x.hosts = hosts
    <3>1. x \in Message
      BY <1>3, <2>5, MessagesAre, Zenon
    <3>2. x.op = "discovered" /\ x.id = id /\ x.method = m /\ x.hosts = hosts
      BY DEF Discovered
    <3>3. QED
      BY <3>1, <3>2, Zenon
  <2>7. outbox'[Client] = Append(out, x) /\ out \in Seq(Message)
    BY <2>4, <1>3, Zenon DEF DInv, Base, OutTypes, hosts
  <2> HIDE DEF x, m, id
  <2>8. Tracks(m, hosts, <<>>, Target)
    <3>1. ASSUME NEW h \in Host PROVE Times(hosts, h) \in Target[<<m, h>>]
      <4> DEFINE p == Provided(m, h)
                 a == Announced(m, h)
                 lo == IF <<m, h>> \in mixed THEN 0 ELSE p
      <4>1. p \in Nat /\ a \in Nat /\ p <= a /\ (lo = 0 \/ lo = p)
        BY <2>p, <1>3, Zenon
      <4>2. Target[<<m, h>>] = lo..a
        BY <1>3, TargetIs, Zenon DEF Right, Least
      <4>3. Times(hosts, h) = p
        BY <2>5, Zenon
      <4> HIDE DEF p, a, lo
      <4>4. p \in lo..a
        BY <4>1, SMT
      <4>5. QED
        BY <4>2, <4>3, <4>4, Zenon
    <3>2. QED
      BY <3>1, <2>5, TracksEmpty, Zenon
  <2>v. \A a \in Method, g \in Host : Ceiling[<<a, g>>] \subseteq Ceiling'[<<a, g>>]
    <3>1. ASSUME NEW a \in Method, NEW g \in Host PROVE Ceiling[<<a, g>>] \subseteq Ceiling'[<<a, g>>]
      <4> DEFINE C == 0..Announced(a, g)
      <4>1. /\ Ceiling[<<a, g>>] = IF a \in Asked THEN 0..Announced(a, g) ELSE {0}
            /\ Ceiling'[<<a, g>>] = IF a \in Asked' THEN 0..Announced(a, g)' ELSE {0}
        BY TargetIs
      <4>2. /\ Ceiling[<<a, g>>] = IF a \in Asked THEN C ELSE {0}
            /\ Ceiling'[<<a, g>>] = IF a \in Asked' THEN C ELSE {0}
        BY <4>1, <2>c, Zenon
      <4>3. 0 \in C
        BY <2>p, SMT
      <4> HIDE DEF C
      <4>4. a \in Asked => a \in Asked'
        BY <2>3, Zenon
      <4>5. QED
        BY <4>2, <4>3, <4>4
    <3>2. QED
      BY <3>1, Zenon
  <2>9. Moves(Asked', Target, x, Target) /\ Moves(Method, Ceiling, x, Ceiling')
    <3>1. x.op # "online" /\ x.op # "offline"
      BY <2>6
    <3>2. \A a, g, n : After(a, g, x, n) = n
      BY <3>1, Zenon DEF After
    <3>3. QED
      BY <3>2, <2>v, Zenon DEF Moves
  <2>10. InHand(out, Due, Asked', Target, Ceiling)
    BY <2>1, <2>3, InHandMore, Zenon
  <2>11. <<x.id, x.method>> \in Due /\ x.method \in Asked' /\ Tracks(x.method, x.hosts, <<>>, Target)
    BY <2>3, <2>6, <2>8, <1>3, Zenon
  <2>12. HandTypes
    BY HandTyped, Zenon DEF DInv
  <2> HIDE DEF out
  <2>13. InHand(Append(out, x), Due, Asked', Target, Ceiling')
    BY <2>3, <2>6, <2>7, <2>9, <2>10, <2>11, <2>12, InHandAppend, Zenon
  <2>14. QED
    BY <2>2, <2>7, <2>13, <1>2, <1>5, Still, Zenon DEF ghostVars
<1>8. QED
  BY <1>6, <1>7, Zenon DEF Hand

\* What the notices that c left make of the counts is right without c.
LEMMA LeaveTargets ==
  ASSUME Base, Base', NEW c \in Conn, OnShutDown(c), mixed' = mixed, Asked' = Asked
  PROVE  /\ Within(Method, Parts(c, Len(methods[c]), Target), Target')
         /\ Within(Method, Parts(c, Len(methods[c]), Ceiling), Ceiling')
<1> DEFINE n == Len(methods[c])
<1>1. /\ RInv /\ Finite /\ RInv' /\ Finite' /\ methods[c] \in Seq(Method)
      /\ \A m \in Method, h \in Host : Mixed(m, h) => <<m, h>> \in mixed
  BY Zenon DEF Base, Provs, RInv, IndexTypeOK
<1>2. n \in 0..Len(methods[c])
  <2> DEFINE s == methods[c]
  <2>1. s \in Seq(Method)
    BY <1>1, Zenon
  <2> HIDE DEF s
  <2>2. Len(s) \in 0..Len(s)
    BY <2>1, SMT
  <2>3. QED
    BY <2>2, Zenon DEF s
<1> HIDE DEF n
<1>3. ASSUME NEW m \in Method, NEW h \in Host
      PROVE  /\ \A k \in Right(m, h) : Part(c, n, m, h, k) \in Right(m, h)'
             /\ \A k \in 0..Announced(m, h) : Part(c, n, m, h, k) \in 0..Announced(m, h)'
  BY <1>1, RightLeave DEF n
<1>4. ASSUME NEW m \in Method, NEW h \in Host, NEW y \in Parts(c, n, Target)[<<m, h>>]
      PROVE  y \in Target'[<<m, h>>]
  <2>1. PICK k \in Target[<<m, h>>] : y = Part(c, n, m, h, k)
    BY PartsAre
  <2>2. Target[<<m, h>>] = Right(m, h) /\ Target'[<<m, h>>] = Right(m, h)'
    BY TargetIs, Zenon
  <2>3. QED
    BY <2>1, <2>2, <1>3, Zenon
<1>5. ASSUME NEW m \in Method, NEW h \in Host, NEW y \in Parts(c, n, Ceiling)[<<m, h>>]
      PROVE  y \in Ceiling'[<<m, h>>]
  <2>1. /\ Ceiling[<<m, h>>] = IF m \in Asked THEN 0..Announced(m, h) ELSE {0}
        /\ Ceiling'[<<m, h>>] = IF m \in Asked' THEN 0..Announced(m, h)' ELSE {0}
    BY TargetIs
  <2>2. CASE m \in Asked
    <3>1. Ceiling[<<m, h>>] = 0..Announced(m, h) /\ Ceiling'[<<m, h>>] = 0..Announced(m, h)'
      BY <2>1, <2>2, Zenon
    <3>2. PICK k \in Ceiling[<<m, h>>] : y = Part(c, n, m, h, k)
      BY PartsAre
    <3>3. QED
      BY <3>1, <3>2, <1>3, Zenon
  <2>3. CASE m \notin Asked
    <3>1. Ceiling[<<m, h>>] = {0} /\ Ceiling'[<<m, h>>] = {0}
      BY <2>1, <2>3, Zenon
    <3>2. Parts(c, n, Ceiling)[<<m, h>>] = {0}
      BY <3>1, <1>1, <1>2, PartsOfNothing
    <3>3. QED
      BY <3>1, <3>2, Zenon
  <2>4. QED
    BY <2>2, <2>3, Zenon
<1>6. QED
  BY <1>4, <1>5, Zenon DEF Within, n

\* A provider leaves: its goodbye makes up for what the targets lose.
LEMMA LeaveHand ==
  ASSUME DInv, Base', NEW c \in Conn, ProviderLeaves(c)
  PROVE  Req' /\ Hand'
<1>1. c # Client /\ OnShutDown(c) /\ UNCHANGED <<threadVars, cacheVars, requests, ghostVars>>
  BY Zenon DEF ProviderLeaves
<1>2. /\ gone' = gone \cup {c}
      /\ discoverers' = [m \in Method |->
           IF m \in watched[c] THEN discoverers[m] \ {c} ELSE discoverers[m]]
  BY <1>1, Zenon DEF OnShutDown, RemoveDiscover
<1>3. Due' = Due
  BY <1>1, Zenon DEF Due, threadVars
<1>4. Asked' = Asked
  <2>1. \A m \in Method : Client \in discoverers'[m] <=> Client \in discoverers[m]
    BY <1>1, <1>2, Zenon
  <2>2. QED
    BY <2>1, Zenon DEF Asked
<1>5. Req'
  BY <1>1, <1>3, Zenon DEF DInv, Req
<1>6. ASSUME Client \notin gone' PROVE InHand(outbox[Client], Due, Asked, Target, Ceiling)'
  <2>1. InHand(outbox[Client], Due, Asked, Target, Ceiling)
    BY <1>2, <1>6, HereIn, Zenon
  <2>2. outbox'[Client] = Farewell(c, Client)
    BY <1>1, OutOfShutDown, DiscoveryAssumption, Zenon DEF DInv, Base
  <2>3. methods[c] \in Seq(Method) /\ outbox[Client] \in Seq(Message)
    BY DiscoveryAssumption, Zenon DEF DInv, Base, RInv, IndexTypeOK, OutTypes
  <2>4. methods[c] # <<>> => host[c] \in Host
    BY RInvHosts, Zenon DEF DInv, Base
  <2>5. ASSUME NEW m \in Method, NEW h \in Host
        PROVE  /\ Target[<<m, h>>] \subseteq Nat /\ Ceiling[<<m, h>>] \subseteq Nat
               /\ m \notin Asked => Ceiling[<<m, h>>] = {0}
    <3> DEFINE p == Provided(m, h)
               a == Announced(m, h)
               lo == IF <<m, h>> \in mixed THEN 0 ELSE p
    <3>1. p \in Nat /\ a \in Nat /\ (lo = 0 \/ lo = p)
      BY ProvidedAnnounced, Zenon DEF DInv, Base, Provs
    <3>2. Target[<<m, h>>] = lo..a
      BY TargetIs, Zenon DEF Right, Least
    <3>3. Ceiling[<<m, h>>] = IF m \in Asked THEN 0..Announced(m, h) ELSE {0}
      BY TargetIs
    <3>4. /\ m \in Asked => Ceiling[<<m, h>>] = 0..a
          /\ m \notin Asked => Ceiling[<<m, h>>] = {0}
      BY <3>3, Zenon
    <3> HIDE DEF p, a, lo
    <3>5. lo..a \subseteq Nat /\ 0..a \subseteq Nat /\ {0} \subseteq Nat
      BY <3>1, SMT
    <3>6. QED
      BY <3>2, <3>4, <3>5, Zenon
  <2>6. HandTypes
    BY HandTyped, Zenon DEF DInv
  <2> DEFINE P == Target
             U == Ceiling
             V == Parts(c, Len(methods[c]), P)
             W == Parts(c, Len(methods[c]), U)
  <2>7. InHand(Farewell(c, Client), Due, Asked, V, W)
    <3>1. /\ \A m \in Method, h \in Host : P[<<m, h>>] \subseteq Nat
          /\ \A m \in Method, h \in Host : U[<<m, h>>] \subseteq Nat
          /\ \A m \in Method, h \in Host : m \notin Asked => U[<<m, h>>] = {0}
          /\ InHand(outbox[Client], Due, Asked, P, U)
      BY <2>1, <2>5, Zenon
    <3> HIDE DEF P, U
    <3>2. QED
      BY <2>3, <2>4, <2>6, <3>1, FarewellInHand, Zenon
  <2>8. Within(Asked, V, Target') /\ Within(Method, W, Ceiling')
    <3>1. Within(Method, V, Target') /\ Within(Method, W, Ceiling')
      BY <1>1, <1>4, LeaveTargets, Zenon DEF DInv, ghostVars
    <3>2. \A m \in Asked : m \in Method
      BY Zenon DEF Asked
    <3> HIDE DEF V, W
    <3>3. QED
      BY <3>1, <3>2, Zenon DEF Within
  <2>9. Asked \in SUBSET Method
    BY Zenon DEF Asked
  <2> HIDE DEF V, W
  <2>10. InHand(Farewell(c, Client), Due, Asked, Target', Ceiling')
    BY <2>7, <2>8, <2>9, InHandSame, Zenon
  <2>11. QED
    BY <2>2, <2>10, <1>1, <1>4, Still, Zenon DEF ghostVars
<1>7. QED
  BY <1>5, <1>6, Zenon DEF Hand

\* Nothing the client is sent changes, or the client is gone.
LEMMA OtherHand ==
  ASSUME DInv, UNCHANGED <<threadVars, cacheVars, ghostVars>>, requests' \subseteq requests,
         \/ Client \in gone'
         \/ /\ UNCHANGED <<host, methods, providers, discoverers, gone>>
            /\ outbox'[Client] = outbox[Client]
  PROVE  Req' /\ Hand'
<1>1. Due' = Due
  BY Zenon DEF Due, threadVars
<1>2. Req'
  BY <1>1, Zenon DEF DInv, Req
<1>3. ASSUME Client \notin gone' PROVE InHand(outbox[Client], Due, Asked, Target, Ceiling)'
  <2>1. /\ UNCHANGED <<host, methods, providers, discoverers, gone>> /\ mixed' = mixed
        /\ outbox'[Client] = outbox[Client]
    BY <1>3, Zenon DEF ghostVars
  <2>2. InHand(outbox[Client], Due, Asked, Target, Ceiling)
    BY <1>3, <2>1, HereIn, Zenon
  <2>3. Target' = Target /\ Asked' = Asked /\ Ceiling' = Ceiling
    BY <2>1, TargetSame
  <2>4. QED
    BY <2>1, <2>2, <2>3, Still, Zenon DEF ghostVars
<1>4. QED
  BY <1>2, <1>3, Zenon DEF Hand

\* Nothing is asked and every list is empty at the start.
LEMMA InitDInv == DiscoveryInit => DInv
<1> SUFFICES ASSUME DiscoveryInit PROVE DInv
  OBVIOUS
<1>1. Base
  BY InitBase, Zenon
<1>2. Req
  BY Zenon DEF DiscoveryInit, Req
<1>3. /\ outbox[Client] = <<>>
      /\ \A m \in Method : basis[m] = "nothing" /\ cache[m] = None
      /\ \A m \in Method : discoverers[m] = {}
      /\ \A t \in Thread : pc[t] # "answered"
  BY DiscoveryAssumption DEF DiscoveryInit, RegistryInit
<1>4. 1..Len(<<>>) = {} /\ <<>> \in Seq(Host)
  BY SMT
<1>5. ASSUME NEW m \in Method
      PROVE  basis[m] # "answer" /\ Tracks(m, Cached(m), outbox[Client], Ceiling)
  <2>1. basis[m] # "answer"
    BY <1>3
  <2>2. Cached(m) = <<>>
    BY <1>3, Zenon DEF Cached
  <2>3. ASSUME NEW h \in Host PROVE Times(<<>>, h) \in Ceiling[<<m, h>>]
    <3>1. Times(<<>>, h) = 0
      BY TimesEmpty, Zenon
    <3>2. Ceiling[<<m, h>>] = IF m \in Asked THEN 0..Announced(m, h) ELSE {0}
      BY TargetIs
    <3>3. m \notin Asked
      BY <1>3, Zenon DEF Asked
    <3>4. Ceiling[<<m, h>>] = {0}
      BY <3>2, <3>3, Zenon
    <3>5. QED
      BY <3>1, <3>4
  <2>4. QED
    BY <2>1, <2>2, <2>3, <1>3, <1>4, TracksEmpty, Zenon
<1>6. InHand(outbox[Client], Due, Asked, Target, Ceiling)
  BY <1>3, <1>4, <1>5, Zenon DEF InHand, Answering, Holding
<1>7. QED
  BY <1>1, <1>2, <1>6, Zenon DEF DInv, Hand

\* Every step keeps the invariant.
LEMMA NextDInv == DInv /\ [DiscoveryNext]_discoveryVars => DInv'
<1> SUFFICES ASSUME DInv, [DiscoveryNext]_discoveryVars PROVE DInv'
  OBVIOUS
<1>1. Base'
  BY NextBase, Zenon DEF DInv
<1>2. ASSUME NEW t \in Thread, NEW m \in Method, Choose(t, m) \/ Ask(t, m) PROVE Req' /\ Hand'
  BY <1>2, ChooseHand, AskHand, Zenon
<1>3. ASSUME NEW t \in Thread, Expire(t) \/ NotFound(t) \/ Store(t) PROVE Req' /\ Hand'
  BY <1>3, GiveUpHand, StoreHand, Zenon
<1>4. ASSUME ReceiveAnswer \/ ReceiveOnline \/ ReceiveOffline PROVE Req' /\ Hand'
  BY <1>4, AnswerHand, NoticeHand, Zenon
<1>5. ASSUME HandleDiscovery PROVE Req' /\ Hand'
  BY <1>5, DiscoveryHand, Zenon
<1>6. ASSUME ClientLeaves PROVE Req' /\ Hand'
  <2>1. /\ gone' = gone \cup {Client} /\ requests' = {}
        /\ UNCHANGED <<threadVars, cacheVars, ghostVars>>
    BY <1>6, Zenon DEF ClientLeaves, OnShutDown
  <2>2. Client \in gone' /\ requests' \subseteq requests
    BY <2>1, Zenon
  <2>3. QED
    BY <2>1, <2>2, <1>1, OtherHand, Zenon DEF DInv
<1>7. ASSUME NEW c \in Conn, ProviderLeaves(c) PROVE Req' /\ Hand'
  BY <1>1, <1>7, LeaveHand, Zenon
<1>8. ASSUME NEW c \in Conn, ProviderReads(c) PROVE Req' /\ Hand'
  <2>1. /\ c # Client /\ outbox[c] # <<>> /\ outbox' = [outbox EXCEPT ![c] = Tail(@)]
        /\ UNCHANGED <<host, methods, providers, watched, discoverers, gone>>
        /\ UNCHANGED <<threadVars, cacheVars, requests, ghostVars>>
    BY <1>8, Zenon DEF ProviderReads, Deliver
  <2>2. outbox'[Client] = outbox[Client]
    BY <2>1, TakenTypes, DiscoveryAssumption, Zenon DEF DInv, Base
  <2>3. QED
    BY <2>1, <2>2, OtherHand, Zenon
<1>9. ASSUME NEW c \in Conn, NEW m \in Method, NEW h \in Host, HandleRegistration(c, m, h)
      PROVE  Req' /\ Hand'
  BY <1>9, RegisterHand, Zenon
<1>10. ASSUME UNCHANGED discoveryVars PROVE Req' /\ Hand'
  BY <1>10, OtherHand, Zenon DEF discoveryVars, registryVars
<1>11. Req' /\ Hand'
  BY <1>2, <1>3, <1>4, <1>5, <1>6, <1>7, <1>8, <1>9, <1>10, Zenon DEF DiscoveryNext
<1>12. QED
  BY <1>1, <1>11, Zenon DEF DInv

\* The invariant holds in every state.
LEMMA DInvHolds == DiscoverySpec => []DInv
BY InitDInv, NextDInv, PTL DEF DiscoverySpec

-----------------------------------------------------------------------------
(* Theorems.                                                               *)

\* A method's index and a connection's own list never disagree in the system
\* with the client either, whatever it asks for and whoever leaves
\* (server/service_manager.hpp:20-182).
THEOREM IndexesAgreeWithClient == DiscoverySpec => []IndexesAgree
<1>1. DInv => IndexesAgree
  BY Zenon DEF DInv, Base, RInv
<1>2. QED
  BY <1>1, DInvHolds, PTL

\* The caches, the threads in serviceDiscover and what is under way keep their
\* types: a thread that waits has a method, and one that was answered has the
\* answer (client/service_manager.hpp:96-138).
THEOREM DiscoveryTypes == DiscoverySpec => []DiscoveryTypeOK
<1>1. ASSUME DInv PROVE DiscoveryTypeOK
  <2>1. /\ IndexTypeOK /\ ThreadTypes /\ CacheTypes
        /\ outbox \in [Conn -> Seq(Message)]
    BY <1>1, Zenon DEF DInv, Base, RInv, OutTypes
  <2>2. ASSUME NEW c \in Conn PROVE ToSet(outbox[c]) \subseteq Message
    <3> DEFINE s == outbox[c]
    <3>1. s \in Seq(Message)
      BY <2>1, Zenon
    <3> HIDE DEF s
    <3>2. \A i \in DOMAIN s : s[i] \in Message
      BY <3>1
    <3>3. ToSet(s) \subseteq Message
      BY <3>2, Zenon DEF ToSet
    <3>4. QED
      BY <3>3, Zenon DEF s
  <2>3. RegistryTypeOK
    BY <2>1, <2>2, Zenon DEF RegistryTypeOK, IndexTypeOK
  <2>4. \A m \in Method : cache[m] = None \/ cache[m] \in Seq(Host)
    BY <2>1, Zenon DEF CacheTypes
  <2>5. \A t \in Thread : /\ pc[t] \in {"idle", "waiting", "answered"}
                          /\ want[t] \in Method \cup {None}
                          /\ count[t] \in 0..MaxCalls
                          /\ got[t] = None \/ got[t] \in Seq(Host)
                          /\ ret[t] \in Host \cup {Garbage, None}
                          /\ pc[t] = "idle" <=> want[t] = None
                          /\ pc[t] = "answered" <=> got[t] # None
    BY <2>1, Zenon DEF ThreadTypes, CacheTypes
  <2>6. QED
    BY <2>1, <2>3, <2>4, <2>5, Zenon DEF DiscoveryTypeOK, ThreadTypes, CacheTypes
<1>2. QED
  BY <1>1, DInvHolds, PTL

\* An answer under way and the notices the registry sent after it lead to a
\* right list, host by host, for any connections that register methods, again
\* or with an address that others have, and leave: addDiscoverer before the
\* answer is sent leaves no gap between the two
\* (server/service_manager.hpp:191-254).
THEOREM AnswersLeadToRegistry == DiscoverySpec => []AnswersReplay
<1>1. ASSUME DInv PROVE AnswersReplay
  <2> SUFFICES ASSUME Client \notin gone, NEW i \in DOMAIN outbox[Client],
                      outbox[Client][i].op = "discovered", NEW h \in Host
               PROVE  Times(Replay(outbox[Client][i].method, outbox[Client][i].hosts,
                                   SubSeq(outbox[Client], i + 1, Len(outbox[Client]))), h)
                        \in Right(outbox[Client][i].method, h)
    BY Zenon DEF AnswersReplay
  <2> DEFINE out == outbox[Client]
             x == out[i]
             s == SubSeq(out, i + 1, Len(out))
  <2>1. out \in Seq(Message) /\ Answering(out, Due, Asked, Target)
    BY <1>1, HereIn, DiscoveryAssumption, Zenon DEF DInv, Base, OutTypes, InHand
  <2>2. i \in 1..Len(out) /\ x \in Message /\ x.op = "discovered"
    BY <2>1
  <2> HIDE DEF out
  <2>3. x.method \in Method
    <3> HIDE DEF x
    <3>1. QED
      BY <2>2, MessageIs, Zenon
  <2>4. Tracks(x.method, x.hosts, s, Target)
    BY <2>1, <2>2, Zenon DEF Answering
  <2> HIDE DEF x, s
  <2>5. Times(Replay(x.method, x.hosts, s), h) \in Target[<<x.method, h>>]
    BY <2>4, Zenon DEF Tracks
  <2>6. Target[<<x.method, h>>] = Right(x.method, h)
    BY <2>3, TargetIs, Zenon
  <2>7. QED
    BY <2>5, <2>6, Zenon DEF x, s, out
<1>2. QED
  BY <1>1, DInvHolds, PTL

\* Once all that is under way has arrived, a list that goes back to an answer
\* is right, host by host, and one that is made of notices alone, because no
\* answer came in time, has no host too often; nothing is said of a list whose
\* answer was stored after a notice it does not know of
\* (client/service_manager.hpp:96-166).
THEOREM CacheLeadsToRegistry == DiscoverySpec => []CacheFollowsRegistry
<1>1. ASSUME DInv PROVE CacheFollowsRegistry
  <2> SUFFICES ASSUME Client \notin gone, NEW m \in Method, NEW h \in Host
               PROVE  /\ basis[m] = "answer" => Times(Settled(m), h) \in Right(m, h)
                      /\ basis[m] = "nothing" => Times(Settled(m), h) <= Announced(m, h)
    BY Zenon DEF CacheFollowsRegistry
  <2> DEFINE n == Times(Settled(m), h)
             a == Announced(m, h)
  <2>1. Holding(outbox[Client], Asked, Target, Ceiling)
    BY <1>1, HereIn, Zenon DEF InHand
  <2>2. /\ basis[m] = "answer" => n \in Target[<<m, h>>]
        /\ basis[m] = "nothing" => n \in Ceiling[<<m, h>>]
    BY <2>1, Zenon DEF Holding, Tracks, Settled
  <2>3. a \in Nat
    BY <1>1, ProvidedAnnounced, Zenon DEF DInv, Base, Provs
  <2>4. Target[<<m, h>>] = Right(m, h)
    BY TargetIs, Zenon
  <2>5. Ceiling[<<m, h>>] = IF m \in Asked THEN 0..Announced(m, h) ELSE {0}
    BY TargetIs
  <2>6. Ceiling[<<m, h>>] = 0..a \/ Ceiling[<<m, h>>] = {0}
    BY <2>5, Zenon
  <2> HIDE DEF n, a
  <2>7. n \in 0..a \/ n \in {0} => n <= a
    BY <2>3, SMT
  <2>8. QED
    BY <2>2, <2>4, <2>6, <2>7, Zenon DEF n, a
<1>2. QED
  BY <1>1, DInvHolds, PTL
=============================================================================
