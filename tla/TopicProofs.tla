----------------------------- MODULE TopicProofs -----------------------------
(***************************************************************************)
(* Theorems of TopicServer, for any connections and topics and any number  *)
(* of requests: the two sides of a membership agree, and the server        *)
(* implements PubSub.  Theorems of Topics, for any threads of the client:  *)
(* what it is told of its subscriptions is true, and a message of a topic  *)
(* it knows it is subscribed to finds its handler; so does any other,      *)
(* unless the client itself has spoilt it.                                 *)
(***************************************************************************)
EXTENDS Topics, TLAPS

\* The types of what the server stores.
LinkTypeOK ==
  /\ topics \subseteq Topic
  /\ subscribers \in [Topic -> SUBSET Conn]
  /\ subscribed \in [Conn -> SUBSET Topic]
  /\ gone \subseteq Conn

TInv == LinkTypeOK /\ LinksAgree

LEMMA InitTInv == TopicInit => TInv
BY DEF TopicInit, TInv, LinkTypeOK, LinksAgree

\* A request keeps the two sides of every membership in agreement.
LEMMA RequestTInv ==
  ASSUME TInv, NEW c \in Conn, NEW o \in Operation, NEW t \in Topic, NEW id \in Id,
         OnTopicRequest(c, o, t, id)
  PROVE  TInv'
<1> USE DEF TInv, LinkTypeOK, LinksAgree
<1>0. c \notin gone /\ UNCHANGED gone
  BY DEF OnTopicRequest
<1>1. CASE CreateTopic(c, t, id)
  BY <1>0, <1>1 DEF CreateTopic
<1>2. CASE RemoveTopic(c, t, id)
  BY <1>0, <1>2 DEF RemoveTopic
<1>3. CASE SubscribeTopic(c, t, id)
  BY <1>0, <1>3 DEF SubscribeTopic
<1>4. CASE CancelTopic(c, t, id)
  BY <1>0, <1>4 DEF CancelTopic
<1>5. CASE PublishMsg(c, t, id) \/ ResponseErr(c, t, id)
  BY <1>0, <1>5 DEF PublishMsg, ResponseErr, linkVars
<1> QED
  BY <1>1, <1>2, <1>3, <1>4, <1>5 DEF OnTopicRequest

LEMMA NextTInv == TInv /\ [TopicNext]_topicVars => TInv'
<1> SUFFICES ASSUME TInv, [TopicNext]_topicVars PROVE TInv'
  OBVIOUS
<1>1. ASSUME NEW c \in Conn, NEW o \in Operation, NEW t \in Topic, NEW id \in Id,
             OnTopicRequest(c, o, t, id)
      PROVE  TInv'
  BY <1>1, RequestTInv
<1>2. ASSUME NEW c \in Conn, OnShutDown(c) PROVE TInv'
  BY <1>2 DEF OnShutDown, TInv, LinkTypeOK, LinksAgree
<1>3. ASSUME NEW c \in Conn, Deliver(c) PROVE TInv'
  BY <1>3 DEF Deliver, linkVars, TInv, LinkTypeOK, LinksAgree
<1>4. CASE UNCHANGED topicVars
  BY <1>4 DEF topicVars, TInv, LinkTypeOK, LinksAgree
<1> QED
  BY <1>1, <1>2, <1>3, <1>4 DEF TopicNext

\* The two sides of a membership never disagree, and a closed connection is
\* a member of nothing.
THEOREM LinksAlwaysAgree == TopicSpec => []LinksAgree
<1>1. TInv => LinksAgree
  BY DEF TInv
<1> QED
  BY <1>1, InitTInv, NextTInv, PTL DEF TopicSpec

-----------------------------------------------------------------------------
(* What is under way consists of messages.                                 *)

MailTypeOK == outbox \in [Conn -> Seq(Message)]

LEMMA SequenceFacts ==
  ASSUME NEW S, NEW s \in Seq(S), NEW x \in S
  PROVE  /\ <<x>> \in Seq(S) /\ <<>> \in Seq(S)
         /\ s \o <<>> = s
         /\ s \o <<x>> = Append(s, x)
         /\ Append(s, x) \in Seq(S)
         /\ Append(s, x) # s
<1>1. <<x>> \in Seq(S) /\ <<>> \in Seq(S) /\ s \o <<>> = s
  OBVIOUS
<1>2. s \o <<x>> = Append(s, x) /\ Append(s, x) \in Seq(S)
  OBVIOUS
<1>3. Len(Append(s, x)) = Len(s) + 1 /\ Len(s) \in Nat
  OBVIOUS
<1> QED
  BY <1>1, <1>2, <1>3

LEMMA AreMessages ==
  ASSUME NEW id \in Id, NEW t \in Topic, NEW ok \in BOOLEAN
  PROVE  Answer(id, ok) \in Message /\ Push(t, id) \in Message
BY DEF Answer, Push, Message

\* Sending to the subscribers in R and answering c is what PubSub tells, it
\* keeps the types, and c finds something new in its mail.
LEMMA Told ==
  ASSUME MailTypeOK, NEW c \in Conn, NEW t \in Topic, NEW id \in Id, NEW ok \in BOOLEAN,
         NEW R \in SUBSET Conn,
         outbox' = [d \in Conn |->
           outbox[d] \o (IF d \in R THEN <<Push(t, id)>> ELSE <<>>)
                     \o (IF d = c THEN <<Answer(id, ok)>> ELSE <<>>)]
  PROVE  MailTypeOK' /\ Abstract!Tell(c, t, id, ok, R) /\ outbox'[c] # outbox[c]
<1>1. /\ <<Push(t, id)>> \in Seq(Message)
      /\ <<Answer(id, ok)>> \in Seq(Message)
      /\ <<>> \in Seq(Message)
  BY AreMessages, SequenceFacts
<1>2. \A d \in Conn : outbox[d] \in Seq(Message)
  BY DEF MailTypeOK
<1>3. \A a, b, e \in Seq(Message) : a \o b \o e \in Seq(Message)
  OBVIOUS
<1>4. MailTypeOK'
  BY <1>1, <1>2, <1>3 DEF MailTypeOK
<1>5. Abstract!Tell(c, t, id, ok, R)
  BY DEF Abstract!Tell, Push, Answer
<1>6. \A a, b \in Seq(Message) : Len(a \o b \o <<Answer(id, ok)>>) > Len(a)
  BY <1>1
<1>7. outbox'[c] # outbox[c]
  <2>1. PICK p \in Seq(Message) : outbox'[c] = outbox[c] \o p \o <<Answer(id, ok)>>
    BY <1>1
  <2>2. Len(outbox[c] \o p \o <<Answer(id, ok)>>) # Len(outbox[c])
    BY <1>2, <1>6
  <2> QED
    BY <2>1, <2>2, Zenon
<1> QED
  BY <1>4, <1>5, <1>7

\* An answer alone is what PubSub tells when nobody gets the message.
LEMMA Responded ==
  ASSUME MailTypeOK, NEW c \in Conn, NEW t \in Topic, NEW id \in Id, NEW ok \in BOOLEAN,
         Respond(c, id, ok)
  PROVE  MailTypeOK' /\ Abstract!Tell(c, t, id, ok, {}) /\ outbox'[c] # outbox[c]
<1>1. \A d \in Conn : outbox[d] \in Seq(Message)
  BY DEF MailTypeOK
<1>2. \A s \in Seq(Message) : s \o <<>> = s /\ s \o <<Answer(id, ok)>> = Append(s, Answer(id, ok))
  BY AreMessages, SequenceFacts
<1>3. outbox' = [d \in Conn |->
        outbox[d] \o (IF d \in {} THEN <<Push(t, id)>> ELSE <<>>)
                  \o (IF d = c THEN <<Answer(id, ok)>> ELSE <<>>)]
  BY <1>1, <1>2 DEF Respond, MailTypeOK
<1>4. {} \in SUBSET Conn
  OBVIOUS
<1> QED
  BY <1>3, <1>4, Told

-----------------------------------------------------------------------------
(* The topic server implements PubSub.                                     *)

LEMMA InitMaps == TopicInit => MailTypeOK /\ Abstract!Init
BY DEF TopicInit, MailTypeOK, Abstract!Init

\* Members as the topics list them are members as the subscribers list them.
Members == {p \in Conn \X Topic : p[2] \in subscribed[p[1]]}

\* Every request the server handles is one the abstract server handles.
LEMMA RequestMaps ==
  ASSUME TInv, MailTypeOK, NEW c \in Conn, NEW o \in Operation, NEW t \in Topic, NEW id \in Id,
         OnTopicRequest(c, o, t, id)
  PROVE  MailTypeOK' /\ Abstract!Handle(c, t, id)
<1> USE DEF TInv, LinkTypeOK
<1>0. c \notin gone /\ UNCHANGED gone
  BY DEF OnTopicRequest
<1>1. CASE CreateTopic(c, t, id)
  <2>1. MailTypeOK' /\ Abstract!Tell(c, t, id, TRUE, {}) /\ outbox'[c] # outbox[c]
    BY <1>1, Responded DEF CreateTopic
  <2>2. Abstract!Create(c, t, id)
    BY <1>1, <2>1 DEF CreateTopic, Abstract!Create
  <2> QED
    BY <1>0, <2>1, <2>2 DEF Abstract!Handle
<1>2. CASE RemoveTopic(c, t, id)
  <2>1. MailTypeOK' /\ Abstract!Tell(c, t, id, TRUE, {}) /\ outbox'[c] # outbox[c]
    BY <1>2, Responded DEF RemoveTopic
  <2>2. \A d \in Conn : subscribed'[d] = subscribed[d] \ {t}
    BY <1>2 DEF RemoveTopic, LinksAgree
  <2>3. Members' = Members \ (Conn \X {t})
    BY <2>2 DEF Members
  <2>4. Abstract!Remove(c, t, id)
    BY <1>2, <2>1, <2>3 DEF RemoveTopic, Abstract!Remove, Members
  <2> QED
    BY <1>0, <2>1, <2>4 DEF Abstract!Handle
<1>3. CASE SubscribeTopic(c, t, id)
  <2>1. MailTypeOK' /\ Abstract!Tell(c, t, id, TRUE, {}) /\ outbox'[c] # outbox[c]
    BY <1>3, Responded DEF SubscribeTopic
  <2>2. Members' = Members \cup {<<c, t>>}
    BY <1>3 DEF SubscribeTopic, Members
  <2>3. Abstract!Join(c, t, id)
    BY <1>3, <2>1, <2>2 DEF SubscribeTopic, Abstract!Join, Members
  <2> QED
    BY <1>0, <2>1, <2>3 DEF Abstract!Handle
<1>4. CASE CancelTopic(c, t, id)
  <2>1. MailTypeOK' /\ Abstract!Tell(c, t, id, TRUE, {}) /\ outbox'[c] # outbox[c]
    BY <1>4, Responded DEF CancelTopic
  <2>2. subscribed' = [subscribed EXCEPT ![c] = @ \ {t}]
    BY <1>4 DEF CancelTopic, LinksAgree
  <2>3. Members' = Members \ {<<c, t>>}
    BY <2>2 DEF Members
  <2>4. Abstract!Leave(c, t, id)
    BY <1>4, <2>1, <2>3 DEF CancelTopic, Abstract!Leave, Members
  <2> QED
    BY <1>0, <2>1, <2>4 DEF Abstract!Handle
<1>5. CASE PublishMsg(c, t, id)
  <2>1. /\ MailTypeOK' /\ Abstract!Tell(c, t, id, TRUE, subscribers[t])
        /\ outbox'[c] # outbox[c]
    BY <1>5, Told DEF PublishMsg
  <2>2. subscribers[t] = {d \in Conn : <<d, t>> \in Members}
    BY DEF LinksAgree, Members
  <2>3. Abstract!Publish(c, t, id)
    BY <1>5, <2>1, <2>2 DEF PublishMsg, linkVars, Abstract!Publish, Members
  <2> QED
    BY <1>0, <2>1, <2>3 DEF Abstract!Handle
<1>6. CASE ResponseErr(c, t, id)
  <2>1. MailTypeOK' /\ Abstract!Tell(c, t, id, FALSE, {}) /\ outbox'[c] # outbox[c]
    BY <1>6, Responded DEF ResponseErr
  <2>2. Abstract!Refuse(c, t, id)
    BY <1>6, <2>1 DEF ResponseErr, linkVars, Abstract!Refuse
  <2> QED
    BY <1>0, <2>1, <2>2 DEF Abstract!Handle
<1> QED
  BY <1>1, <1>2, <1>3, <1>4, <1>5, <1>6 DEF OnTopicRequest

LEMMA NextMaps ==
  TInv /\ MailTypeOK /\ [TopicNext]_topicVars => MailTypeOK' /\ [Abstract!Next]_(Abstract!pubSubVars)
<1> SUFFICES ASSUME TInv, MailTypeOK, [TopicNext]_topicVars
             PROVE  MailTypeOK' /\ [Abstract!Next]_(Abstract!pubSubVars)
  OBVIOUS
<1>1. ASSUME NEW c \in Conn, NEW o \in Operation, NEW t \in Topic, NEW id \in Id,
             OnTopicRequest(c, o, t, id)
      PROVE  MailTypeOK' /\ Abstract!Next
  BY <1>1, RequestMaps DEF Abstract!Next
<1>2. ASSUME NEW c \in Conn, OnShutDown(c)
      PROVE  MailTypeOK' /\ Abstract!Next
  <2>1. MailTypeOK'
    BY <1>2 DEF OnShutDown, MailTypeOK
  <2>2. Members' = Members \ ({c} \X Topic)
    BY <1>2 DEF OnShutDown, Members, TInv, LinkTypeOK
  <2>3. Abstract!Close(c)
    BY <1>2, <2>2 DEF OnShutDown, Abstract!Close, Members
  <2> QED
    BY <2>1, <2>3 DEF Abstract!Next
<1>3. ASSUME NEW c \in Conn, Deliver(c)
      PROVE  MailTypeOK' /\ Abstract!Next
  <2>1. MailTypeOK'
    BY <1>3 DEF Deliver, MailTypeOK
  <2>2. Abstract!Read(c)
    BY <1>3 DEF Deliver, linkVars, Abstract!Read
  <2> QED
    BY <2>1, <2>2 DEF Abstract!Next
<1>4. CASE UNCHANGED topicVars
  BY <1>4 DEF topicVars, MailTypeOK, Abstract!pubSubVars
<1> QED
  BY <1>1, <1>2, <1>3, <1>4 DEF TopicNext

\* Whatever the topic server does, the abstract server with its one relation
\* of members could do: the same messages to the same connections, the same
\* answers, in the same order.
THEOREM TopicsRefined == TopicSpec => PubSubSpec
<1>1. TInv /\ MailTypeOK /\ [TopicNext]_topicVars => (TInv /\ MailTypeOK)'
  BY NextTInv, NextMaps
<1> QED
  BY <1>1, InitTInv, InitMaps, NextMaps, PTL DEF TopicSpec, PubSubSpec, Abstract!Spec

-----------------------------------------------------------------------------
(* The client: what it stores, and that its steps are steps of the server. *)

PcStates == {"idle", "inserting", "erasing", "sending", "waiting", "answered", "dropping"}

Request == [op : ClientOps, topic : Topic, id : Id]

ClientTypeOK ==
  /\ router \subseteq Topic
  /\ pc \in [Thread -> PcStates]
  /\ call = [th \in Thread |-> call[th]]
  /\ \A th \in Thread : call[th] \in [op : ClientOps, topic : Topic] \cup {<<>>}
  /\ count \in [Thread -> 0..MaxCalls]
  /\ reply \in [Thread -> BOOLEAN]
  /\ requests \in Seq(Request)
  /\ calm \in [Thread -> BOOLEAN]
  /\ belief \in [Topic -> {"in", "out", "unknown"}]
  /\ cancelled \subseteq Topic /\ spoilt \subseteq Topic /\ dropped \subseteq Topic

\* A thread inside a call has one, and is where that call goes.
InCallOK ==
  \A th \in Thread :
    /\ pc[th] # "idle" =>
         call[th] \in [op : ClientOps, topic : Topic] /\ count[th] \in 1..MaxCalls
    /\ pc[th] \in {"inserting", "dropping"} => call[th].op = "subscribe"
    /\ pc[th] = "erasing" => call[th].op = "cancel"

StoredOK == TInv /\ MailTypeOK /\ ClientTypeOK /\ InCallOK

Box == outbox[Client]

LEMMA TailFacts ==
  ASSUME NEW S, NEW s \in Seq(S), s # <<>>
  PROVE  /\ Head(s) = s[1] /\ Head(s) \in S /\ 1 \in DOMAIN s /\ Tail(s) \in Seq(S)
         /\ \A i \in DOMAIN Tail(s) : i \in Nat \ {0} /\ i + 1 \in DOMAIN s /\ Tail(s)[i] = s[i + 1]
OBVIOUS

LEMMA AppendFacts ==
  ASSUME NEW S, NEW s \in Seq(S), NEW x \in S
  PROVE  /\ Append(s, x) \in Seq(S) /\ Len(s) \in Nat
         /\ DOMAIN s = 1..Len(s) /\ DOMAIN Append(s, x) = 1..(Len(s) + 1)
         /\ \A i \in DOMAIN s : Append(s, x)[i] = s[i]
         /\ Append(s, x)[Len(s) + 1] = x
OBVIOUS

\* The first request is one that the server handles.
LEMMA HeadIsRequest ==
  ASSUME StoredOK, HandleRequest
  PROVE  LET r == Head(requests)
         IN /\ requests # <<>> /\ r \in Request /\ r = requests[1] /\ 1 \in DOMAIN requests
            /\ r.op \in Operation /\ r.topic \in Topic /\ r.id \in Id
            /\ OnTopicRequest(Client, r.op, r.topic, r.id) /\ Handled(Client, r.op, r.topic)
            /\ requests' = Tail(requests)
<1>1. requests # <<>> /\ requests \in Seq(Request)
  BY DEF HandleRequest, StoredOK, ClientTypeOK
<1>2. Head(requests) \in Request /\ Head(requests) = requests[1] /\ 1 \in DOMAIN requests
  BY <1>1, TailFacts
<1>3. ClientOps \subseteq Operation
  BY TopicsAssumption
<1> QED  BY <1>1, <1>2, <1>3 DEF HandleRequest, Request

LEMMA IsServerStep == StoredOK /\ [TopicsNext]_topicsVars => [TopicNext]_topicVars
<1>1. SUFFICES ASSUME StoredOK, [TopicsNext]_topicsVars PROVE [TopicNext]_topicVars
  OBVIOUS
<1>2. CASE HandleRequest
  <2>1. Room /\ Client \in Conn
    BY <1>2, TopicsAssumption DEF HandleRequest
  <2> QED  BY <1>1, <1>2, <2>1, HeadIsRequest DEF TopicNext
<1>3. ASSUME NEW c \in Conn, NEW o \in Operation, NEW t \in Topic, PeerRequest(c, o, t)
      PROVE  TopicNext
  <2>1. PeerId \in Id
    BY TopicsAssumption
  <2> QED  BY <1>3, <2>1 DEF PeerRequest, TopicNext
<1>4. CASE \/ ReceiveAnswer \/ OnPublish \/ ClientLeaves
           \/ \E c \in Conn : PeerReads(c) \/ PeerLeaves(c)
  BY <1>4, TopicsAssumption
     DEF ReceiveAnswer, OnPublish, ClientLeaves, PeerReads, PeerLeaves, TopicNext
<1>5. ASSUME NEW th \in Thread,
             \/ \E o \in ClientOps, t \in Topic : Begin(th, o, t)
             \/ InsertHandler(th) \/ EraseHandler(th) \/ SendRequest(th)
             \/ Wake(th) \/ Expire(th) \/ DropHandler(th)
      PROVE  UNCHANGED topicVars
  BY <1>5 DEF Begin, InsertHandler, EraseHandler, SendRequest, Wake, Expire, DropHandler, Return
<1>6. CASE UNCHANGED topicsVars
  BY <1>6 DEF topicsVars
<1> QED  BY <1>1, <1>2, <1>3, <1>4, <1>5, <1>6 DEF TopicsNext

\* What the steps of a thread leave alone, and of whom they are.
ThreadStep(th) ==
  \/ \E o \in ClientOps, t \in Topic : Begin(th, o, t)
  \/ InsertHandler(th) \/ EraseHandler(th) \/ SendRequest(th)
  \/ Wake(th) \/ Expire(th) \/ DropHandler(th)

WireStep ==
  \/ ReceiveAnswer \/ OnPublish \/ HandleRequest \/ ClientLeaves
  \/ \E c \in Conn, o \in Operation, t \in Topic : PeerRequest(c, o, t)
  \/ \E c \in Conn : PeerReads(c) \/ PeerLeaves(c)

LEMMA StepsAre ==
  [TopicsNext]_topicsVars =>
    (\E th \in Thread : ThreadStep(th)) \/ WireStep \/ UNCHANGED topicsVars
BY DEF TopicsNext, ThreadStep, WireStep

LEMMA ThreadStepTypes ==
  ASSUME StoredOK, NEW th \in Thread, ThreadStep(th) PROVE ClientTypeOK' /\ InCallOK'
<1> USE DEF StoredOK, ClientTypeOK, InCallOK, PcStates
<1>1. ASSUME NEW o \in ClientOps, NEW t \in Topic, Begin(th, o, t)
      PROVE  ClientTypeOK' /\ InCallOK'
  <2>1. UNCHANGED <<router, reply, requests, dropped>> /\ spoilt' \subseteq Topic
    BY <1>1 DEF Begin
  <2>2. /\ pc' = [pc EXCEPT ![th] = Enter(o)] /\ Enter(o) \in {"inserting", "erasing", "sending"}
        /\ Enter(o) = "inserting" => o = "subscribe"
        /\ Enter(o) = "erasing" => o = "cancel"
    BY <1>1 DEF Begin, Enter
  <2>3. /\ count' = [count EXCEPT ![th] = @ + 1] /\ count[th] \in 0..MaxCalls /\ count[th] < MaxCalls
        /\ call' = [call EXCEPT ![th] = [op |-> o, topic |-> t]]
    BY <1>1 DEF Begin
  <2>4. MaxCalls \in Int => count' \in [Thread -> 0..MaxCalls] /\ count'[th] \in 1..MaxCalls
    BY <2>3
  <2>5. calm' \in [Thread -> BOOLEAN]
    <3>1. CASE o \notin Moves
      BY <1>1, <3>1 DEF Begin
    <3>2. CASE o \in Moves
      <4> DEFINE P(u) == IF u = th THEN \A v \in Thread \ {th} : ~Moving(v, t)
                                   ELSE calm[u] /\ ~Moving(u, t)
      <4>1. calm' = [u \in Thread |-> P(u)]
        BY <1>1, <3>2 DEF Begin
      <4>2. \A u \in Thread : P(u) \in BOOLEAN
        BY Zenon
      <4> HIDE DEF P
      <4> QED  BY <4>1, <4>2
    <3> QED  BY <3>1, <3>2
  <2>7. belief' \in [Topic -> {"in", "out", "unknown"}] /\ cancelled' \subseteq Topic
    BY <1>1 DEF Begin
  <2>6. MaxCalls \in Int
    BY TopicsAssumption
  <2> QED  BY <2>1, <2>2, <2>3, <2>4, <2>5, <2>6, <2>7
<1>2. CASE InsertHandler(th) \/ EraseHandler(th)
  BY <1>2 DEF InsertHandler, EraseHandler, topicVars, ghostVars
<1>7. CASE DropHandler(th)
  <2>1. spoilt' \subseteq Topic
    BY <1>7 DEF DropHandler
  <2> QED  BY <1>7, <2>1 DEF DropHandler, topicVars
<1>3. CASE SendRequest(th)
  <2>1. UNCHANGED <<router, call, count, reply, ghostVars>> /\ pc' = [pc EXCEPT ![th] = "waiting"]
    BY <1>3 DEF SendRequest
  <2>2. [op |-> call[th].op, topic |-> call[th].topic, id |-> <<th, count[th]>>] \in Request
    BY <1>3, TopicsAssumption DEF SendRequest, Request
  <2>3. requests' \in Seq(Request)
    BY <1>3, <2>2, AppendFacts DEF SendRequest
  <2> QED  BY <1>3, <2>1, <2>3 DEF SendRequest, ghostVars
<1>4. ASSUME NEW ok \in BOOLEAN, Return(th, ok), pc[th] # "idle", spoilt' \subseteq Topic
      PROVE  ClientTypeOK' /\ InCallOK'
  <2>1. belief' \in [Topic -> {"in", "out", "unknown"}]
    BY <1>4 DEF Return, Learn
  <2> QED  BY <1>4, <2>1 DEF Return
<1>5. CASE Wake(th)
  <2>1. spoilt' \subseteq Topic /\ reply[th] \in BOOLEAN
    BY <1>5 DEF Wake
  <2> QED  BY <1>4, <1>5, <2>1 DEF Wake
<1>6. CASE Expire(th)
  <2>1. spoilt' \subseteq Topic
    BY <1>6 DEF Expire
  <2> QED  BY <1>4, <1>6, <2>1 DEF Expire
<1> QED  BY <1>1, <1>2, <1>3, <1>5, <1>6, <1>7 DEF ThreadStep

LEMMA WireStepTypes == ASSUME StoredOK, WireStep PROVE ClientTypeOK' /\ InCallOK'
<1> USE DEF StoredOK, ClientTypeOK, InCallOK, PcStates
<1>1. ASSUME NEW c, NEW o, NEW t \in Topic, Handled(c, o, t)
      PROVE  dropped' \subseteq Topic
  BY <1>1 DEF Handled
<1>2. CASE ReceiveAnswer
  <2>1. UNCHANGED <<router, call, count, requests, ghostVars>>
    BY <1>2 DEF ReceiveAnswer
  <2>2. /\ pc' \in [Thread -> PcStates] /\ reply' \in [Thread -> BOOLEAN]
        /\ \A th \in Thread : pc'[th] = pc[th] \/ (pc[th] = "waiting" /\ pc'[th] = "answered")
    <3> DEFINE msg == Head(Box)
    <3>1. Box \in Seq(Message) /\ Box # <<>>
      BY <1>2, TopicsAssumption DEF ReceiveAnswer, Deliver, MailTypeOK, Box
    <3>2. msg \in Message /\ msg.op = "answer"
      BY <1>2, <3>1, TailFacts DEF ReceiveAnswer, Box
    <3>3. msg.ok \in BOOLEAN
      BY <3>2 DEF Message
    <3>4. CASE UNCHANGED <<pc, reply>>
      BY <3>4
    <3>5. CASE /\ pc[msg.id[1]] = "waiting" /\ pc' = [pc EXCEPT ![msg.id[1]] = "answered"]
               /\ reply' = [reply EXCEPT ![msg.id[1]] = msg.ok]
      <4> DEFINE v == msg.id[1]
      <4> DEFINE ok == msg.ok
      <4>1. /\ pc[v] = "waiting" /\ pc' = [pc EXCEPT ![v] = "answered"]
            /\ reply' = [reply EXCEPT ![v] = ok] /\ ok \in BOOLEAN
        BY <3>3, <3>5
      <4> HIDE DEF v, ok
      <4> QED  BY <4>1
    <3> QED  BY <1>2, <3>4, <3>5 DEF ReceiveAnswer, Box
  <2> QED  BY <2>1, <2>2 DEF ghostVars
<1>3. CASE OnPublish
  BY <1>3 DEF OnPublish, threadVars, ghostVars
<1>4. CASE HandleRequest
  <2>1. UNCHANGED <<router, threadVars, calm, belief, cancelled, spoilt>>
    BY <1>4 DEF HandleRequest
  <2>2. /\ requests \in Seq(Request) /\ requests # <<>> /\ requests' = Tail(requests)
        /\ \E c, o : \E t \in Topic : Handled(c, o, t)
    BY <1>4, HeadIsRequest
  <2>3. requests' \in Seq(Request)
    BY <2>2, TailFacts
  <2>4. dropped' \subseteq Topic
    BY <1>1, <2>2
  <2> QED  BY <2>1, <2>3, <2>4 DEF threadVars
<1>5. ASSUME NEW c \in Conn, NEW o \in Operation, NEW t \in Topic, PeerRequest(c, o, t)
      PROVE  ClientTypeOK' /\ InCallOK'
  BY <1>1, <1>5 DEF PeerRequest, threadVars
<1>6. CASE ClientLeaves
  <2>1. UNCHANGED <<router, threadVars, ghostVars>> /\ requests' = <<>>
    BY <1>6 DEF ClientLeaves
  <2>2. <<>> \in Seq(Request)
    OBVIOUS
  <2> QED  BY <2>1, <2>2 DEF threadVars, ghostVars
<1>7. ASSUME NEW c \in Conn, PeerReads(c) \/ PeerLeaves(c)
      PROVE  ClientTypeOK' /\ InCallOK'
  <2>1. UNCHANGED <<router, threadVars, requests, ghostVars>>
    BY <1>7 DEF PeerReads, PeerLeaves
  <2> QED  BY <2>1 DEF threadVars, ghostVars
<1> QED  BY <1>2, <1>3, <1>4, <1>5, <1>6, <1>7 DEF WireStep

LEMMA InitStoredOK == TopicsInit => StoredOK
<1>1. SUFFICES ASSUME TopicsInit PROVE StoredOK
  OBVIOUS
<1>2. TInv /\ MailTypeOK
  BY <1>1, InitTInv, InitMaps DEF TopicsInit
<1>3. 0 \in 0..MaxCalls
  BY TopicsAssumption
<1> QED  BY <1>1, <1>2, <1>3 DEF TopicsInit, StoredOK, ClientTypeOK, InCallOK, PcStates

LEMMA NextStoredOK == StoredOK /\ [TopicsNext]_topicsVars => StoredOK'
<1>1. SUFFICES ASSUME StoredOK, [TopicsNext]_topicsVars PROVE StoredOK'
  OBVIOUS
<1>2. TInv' /\ MailTypeOK'
  BY <1>1, IsServerStep, NextTInv, NextMaps DEF StoredOK
<1>3. CASE UNCHANGED topicsVars
  BY <1>1, <1>2, <1>3 DEF topicsVars, threadVars, ghostVars, StoredOK, ClientTypeOK, InCallOK
<1> QED  BY <1>1, <1>2, <1>3, StepsAre, ThreadStepTypes, WireStepTypes DEF StoredOK

-----------------------------------------------------------------------------
(* The table of handlers.                                                   *)

\* Nobody else is at the topic of a calm call that moves.
CalmAlone ==
  \A th, v \in Thread :
    calm[th] /\ Moving(th, call[th].topic) /\ Moving(v, call[th].topic) => v = th

\* The client knows where it stands only while no call is at the topic.
KnownIdle == \A t \in Topic : belief[t] # "unknown" => \A th \in Thread : ~Moving(th, t)

\* A calm call past its first step has left the table as it wants it.
Past == {"sending", "waiting", "answered"}

HandlerOK ==
  /\ \A th \in Thread : calm[th] /\ pc[th] \in Past =>
       /\ call[th].op = "subscribe" => call[th].topic \in router
       /\ call[th].op = "cancel" => call[th].topic \notin router
  /\ \A t \in Topic : belief[t] = "in" => t \in router
  /\ \A t \in Topic : belief[t] = "out" => t \notin router

TableInv == CalmAlone /\ KnownIdle /\ HandlerOK

LEMMA MovesAre == Moves = {"subscribe", "cancel"}
BY DEF Moves

LEMMA BeginTable ==
  ASSUME StoredOK, TableInv, NEW th \in Thread, NEW o \in ClientOps, NEW t \in Topic, Begin(th, o, t)
  PROVE  TableInv'
<1> USE DEF StoredOK, ClientTypeOK, TableInv
<1>1. /\ pc[th] = "idle" /\ pc' = [pc EXCEPT ![th] = Enter(o)] /\ UNCHANGED router
      /\ call' = [call EXCEPT ![th] = [op |-> o, topic |-> t]]
      /\ Enter(o) \in {"inserting", "erasing", "sending"} /\ (o \in Moves => Enter(o) # "sending")
  BY MovesAre DEF Begin, Enter
<1>2. pc'[th] = Enter(o) /\ call'[th].op = o /\ call'[th].topic = t
  BY <1>1
<1>3. \A u \in Thread \ {th} : pc'[u] = pc[u] /\ call'[u] = call[u]
  BY <1>1
<1>4. CASE o \in Moves
  <2>1. /\ calm'[th] => \A v \in Thread \ {th} : ~Moving(v, t)
        /\ \A u \in Thread \ {th} : calm'[u] => calm[u] /\ ~Moving(u, t)
    BY <1>1, <1>4 DEF Begin
  <2>2. belief'[t] = "unknown" /\ \A u \in Topic \ {t} : belief'[u] = belief[u]
    BY <1>1, <1>4 DEF Begin
  <2>3. CalmAlone'
    BY <1>1, <1>2, <1>3, <2>1 DEF CalmAlone, Moving
  <2>4. KnownIdle'
    BY <1>1, <1>2, <1>3, <2>2 DEF KnownIdle, Moving
  <2>5. HandlerOK'
    BY <1>1, <1>2, <1>3, <1>4, <2>1, <2>2 DEF HandlerOK, Past
  <2> QED  BY <2>3, <2>4, <2>5
<1>5. CASE o \notin Moves
  <2>1. UNCHANGED <<calm, belief>>
    BY <1>5 DEF Begin
  <2>2. \A u \in Topic : ~Moving(th, u)' /\ ~Moving(th, u)
    BY <1>1, <1>2, <1>5 DEF Moving
  <2>3. CalmAlone'
    <3>1. SUFFICES ASSUME NEW u \in Thread, NEW v \in Thread, calm'[u],
                          pc'[u] # "idle", call'[u].op \in Moves,
                          pc'[v] # "idle", call'[v].op \in Moves, call'[v].topic = call'[u].topic
                   PROVE  v = u
      BY DEF CalmAlone, Moving
    <3>2. u # th /\ v # th
      BY <1>2, <1>5, <3>1
    <3> QED  BY <1>3, <2>1, <3>1, <3>2 DEF CalmAlone, Moving
  <2>4. KnownIdle'
    BY <1>3, <2>1, <2>2 DEF KnownIdle, Moving
  <2>5. HandlerOK'
    BY <1>1, <1>2, <1>3, <1>5, <2>1, MovesAre DEF HandlerOK, Past
  <2> QED  BY <2>3, <2>4, <2>5
<1> QED  BY <1>4, <1>5

\* A step inside a call, with what it does to its topic in the table.
LEMMA InsideTable ==
  ASSUME StoredOK, TableInv, NEW th \in Thread, pc[th] # "idle",
         UNCHANGED <<call, calm, belief>>,
         \E p \in PcStates : pc' = [pc EXCEPT ![th] = p],
         \/ router' = router /\ (pc'[th] \in Past => pc[th] \in Past)
         \/ router' = router \cup {call[th].topic} /\ call[th].op = "subscribe"
         \/ router' = router \ {call[th].topic} /\ call[th].op = "cancel"
         \/ router' = router \ {call[th].topic} /\ call[th].op = "subscribe" /\ pc'[th] = "idle"
  PROVE  TableInv'
<1> USE DEF StoredOK, ClientTypeOK, TableInv
<1> DEFINE t == call[th].topic
<1>1. \A u \in Thread \ {th} : pc'[u] = pc[u]
  OBVIOUS
<1>2. \A u \in Thread : \A x \in Topic : Moving(u, x)' => Moving(u, x)
  BY <1>1 DEF Moving
<1>3. t \in Topic /\ \A u \in Thread : pc[u] # "idle" => call[u].topic \in Topic
  BY DEF InCallOK
<1>4. CalmAlone'
  BY <1>1 DEF CalmAlone, Moving
<1>5. KnownIdle'
  BY <1>2 DEF KnownIdle
<1>6. router' # router => Moving(th, t)
  BY MovesAre DEF Moving
<1>7. \A x \in Topic : x # t => (x \in router' <=> x \in router)
  OBVIOUS
<1>8. router' # router => belief[t] = "unknown"
  BY <1>3, <1>6 DEF KnownIdle
<1>9. \A u \in Thread \ {th} : calm[u] /\ pc[u] \in Past /\ call[u].op \in Moves /\ router' # router =>
        call[u].topic # t
  BY <1>6 DEF CalmAlone, Moving, Past
<1>10. \A u \in Thread : calm[u] /\ pc'[u] \in Past =>
         /\ call[u].op = "subscribe" => call[u].topic \in router'
         /\ call[u].op = "cancel" => call[u].topic \notin router'
  <2>1. ASSUME NEW u \in Thread \ {th}, calm[u], pc'[u] \in Past
        PROVE  /\ call[u].op = "subscribe" => call[u].topic \in router'
               /\ call[u].op = "cancel" => call[u].topic \notin router'
    <3>1. pc[u] \in Past /\ pc[u] # "idle" /\ call[u].topic \in Topic
      BY <1>1, <1>3, <2>1 DEF Past
    <3> QED  BY <1>7, <1>9, <2>1, <3>1, MovesAre DEF HandlerOK
  <2>2. ASSUME calm[th], pc'[th] \in Past
        PROVE  /\ call[th].op = "subscribe" => call[th].topic \in router'
               /\ call[th].op = "cancel" => call[th].topic \notin router'
    BY <2>2 DEF HandlerOK, Past
  <2> QED  BY <2>1, <2>2
<1>11. HandlerOK'
  BY <1>7, <1>8, <1>10 DEF HandlerOK
<1> QED  BY <1>4, <1>5, <1>11

LEMMA ReturnTable ==
  ASSUME StoredOK, TableInv, NEW th \in Thread, pc[th] \in {"waiting", "answered"},
         NEW ok \in BOOLEAN, Return(th, ok)
  PROVE  TableInv'
<1> USE DEF StoredOK, ClientTypeOK, TableInv
<1> DEFINE t == call[th].topic
<1>1. /\ UNCHANGED <<router, call, calm>> /\ Learn(th, t, ok)
      /\ pc' = [pc EXCEPT ![th] = IF call[th].op = "subscribe" /\ ~ok THEN "dropping" ELSE "idle"]
  BY DEF Return
<1>2. (\A u \in Thread \ {th} : pc'[u] = pc[u]) /\ pc'[th] \in {"dropping", "idle"} /\ t \in Topic
  BY <1>1 DEF InCallOK
<1>3. CASE belief' = belief
  <2>1. CalmAlone'
    BY <1>1, <1>2 DEF CalmAlone, Moving
  <2>2. KnownIdle'
    BY <1>1, <1>2, <1>3 DEF KnownIdle, Moving
  <2>3. HandlerOK'
    BY <1>1, <1>2, <1>3 DEF HandlerOK, Past
  <2> QED  BY <2>1, <2>2, <2>3
<1>4. CASE /\ ok /\ call[th].op \in Moves /\ calm[th]
           /\ belief' = [belief EXCEPT ![t] = IF call[th].op = "subscribe" THEN "in" ELSE "out"]
  <2>1. pc'[th] = "idle" /\ (\A u \in Topic \ {t} : belief'[u] = belief[u])
        /\ belief'[t] = IF call[th].op = "subscribe" THEN "in" ELSE "out"
    BY <1>1, <1>2, <1>4
  <2>2. \A u \in Thread \ {th} : ~Moving(u, t)
    BY <1>4 DEF CalmAlone, Moving
  <2>3. CalmAlone'
    BY <1>1, <1>2 DEF CalmAlone, Moving
  <2>4. KnownIdle'
    BY <1>1, <1>2, <2>1, <2>2 DEF KnownIdle, Moving
  <2>5. HandlerOK'
    BY <1>1, <1>2, <1>4, <2>1, MovesAre DEF HandlerOK, Past
  <2> QED  BY <2>3, <2>4, <2>5
<1> QED  BY <1>1, <1>3, <1>4 DEF Learn

LEMMA NextTable == ASSUME StoredOK, TableInv, [TopicsNext]_topicsVars PROVE TableInv'
<1>1. ASSUME NEW th \in Thread, ThreadStep(th)
      PROVE  TableInv'
  <2>1. CASE InsertHandler(th) \/ EraseHandler(th) \/ SendRequest(th) \/ DropHandler(th)
    <3>1. /\ UNCHANGED <<call, calm, belief>> /\ pc[th] # "idle"
          /\ \E p \in PcStates : pc' = [pc EXCEPT ![th] = p]
      BY <2>1 DEF InsertHandler, EraseHandler, SendRequest, DropHandler, ghostVars, PcStates
    <3>2. \/ router' = router /\ (pc'[th] \in Past => pc[th] \in Past)
          \/ router' = router \cup {call[th].topic} /\ call[th].op = "subscribe"
          \/ router' = router \ {call[th].topic} /\ call[th].op = "cancel"
          \/ router' = router \ {call[th].topic} /\ call[th].op = "subscribe" /\ pc'[th] = "idle"
      BY <2>1 DEF InsertHandler, EraseHandler, SendRequest, DropHandler, StoredOK, InCallOK,
                  ClientTypeOK, Past
    <3> QED  BY <3>1, <3>2, InsideTable
  <2>2. CASE Wake(th) \/ Expire(th)
    BY <2>2, ReturnTable DEF Wake, Expire, StoredOK, ClientTypeOK
  <2> QED  BY <1>1, <2>1, <2>2, BeginTable DEF ThreadStep
<1>2. CASE WireStep
  <2>1. /\ UNCHANGED <<router, call, count, calm, belief>>
        /\ \A th \in Thread : pc'[th] = pc[th] \/ (pc[th] = "waiting" /\ pc'[th] = "answered")
    BY <1>2 DEF WireStep, ReceiveAnswer, OnPublish, HandleRequest, ClientLeaves, PeerRequest,
                PeerReads, PeerLeaves, threadVars, ghostVars, StoredOK, ClientTypeOK
  <2>2. CalmAlone'
    BY <2>1 DEF TableInv, CalmAlone, Moving
  <2>3. KnownIdle'
    BY <2>1 DEF TableInv, KnownIdle, Moving
  <2>4. HandlerOK'
    BY <2>1 DEF TableInv, HandlerOK, Past
  <2> QED  BY <2>2, <2>3, <2>4 DEF TableInv
<1>3. CASE UNCHANGED topicsVars
  BY <1>3 DEF topicsVars, threadVars, ghostVars, TableInv, CalmAlone, KnownIdle, HandlerOK, Moving
<1> QED  BY <1>1, <1>2, <1>3, StepsAre

LEMMA InitTable == TopicsInit => TableInv
BY DEF TopicsInit, TableInv, CalmAlone, KnownIdle, HandlerOK, Moving, Past

-----------------------------------------------------------------------------
(* What the server makes of the client's calls.                             *)

IdOf(th) == <<th, count[th]>>

\* Nobody has asked or been answered yet with the id that the next request of a
\* thread gets, and a request with the id of a thread's call is that call's.
IdsOK ==
  \A th \in Thread :
    /\ \A i \in DOMAIN requests : \A k : requests[i].id = <<th, k>> =>
         /\ k \in 0..count[th]
         /\ k = count[th] => /\ pc[th] \notin {"inserting", "erasing", "sending"}
                             /\ requests[i].op = call[th].op /\ requests[i].topic = call[th].topic
    /\ \A i \in DOMAIN Box : \A k : Box[i].op = "answer" /\ Box[i].id = <<th, k>> =>
         /\ k \in 0..count[th]
         /\ k = count[th] => pc[th] \notin {"inserting", "erasing", "sending"}

\* No request under way moves the client at t.
Quiet(t) == \A i \in DOMAIN requests : requests[i].op \in Moves => requests[i].topic # t

\* No message of t is under way behind the one at i.
NoPush(t, i) == \A j \in DOMAIN Box : j > i /\ Box[j].op = "push" => Box[j].topic # t

Joined(t) == Client \in subscribers[t] \/ t \in dropped \/ Client \in gone
Left(t) == Client \notin subscribers[t]

\* A call that was answered with ok is done; the answer is the one at i.  One
\* that was refused has left the client out.
Done(o, t, ok, i) ==
  /\ Quiet(t)
  /\ o = "subscribe" /\ ok => Joined(t)
  /\ o = "subscribe" /\ ~ok => Left(t) /\ NoPush(t, i)
  /\ o = "cancel" => Left(t) /\ NoPush(t, i)

\* Nothing that moves the client at a calm call's topic is behind its request.
LastOK(th) ==
  \A i, j \in DOMAIN requests :
    requests[j].id = IdOf(th) /\ i > j /\ requests[i].op \in Moves =>
      requests[i].topic # call[th].topic

AnswerDone(th) ==
  \A i \in DOMAIN Box : Box[i].op = "answer" /\ Box[i].id = IdOf(th) =>
    Done(call[th].op, call[th].topic, Box[i].ok, i)

CalmOK ==
  \A th \in Thread : calm[th] /\ call[th].op \in Moves =>
    /\ pc[th] = "waiting" => LastOK(th) /\ AnswerDone(th)
    /\ pc[th] = "answered" => Done(call[th].op, call[th].topic, reply[th], 0)

BeliefOK ==
  \A t \in Topic :
    /\ belief[t] = "in" => Done("subscribe", t, TRUE, 0)
    /\ belief[t] = "out" => Done("cancel", t, TRUE, 0)

BInv == StoredOK /\ TableInv /\ IdsOK /\ CalmOK /\ BeliefOK

\* What handling a request adds to the client's mail.
LEMMA BoxAfter ==
  ASSUME TInv, MailTypeOK, NEW c \in Conn, NEW o \in Operation, NEW t \in Topic, NEW id \in Id,
         OnTopicRequest(c, o, t, id)
  PROVE  /\ Len(Box) \in Nat /\ DOMAIN Box = 1..Len(Box)
         /\ Len(Box') \in Nat /\ DOMAIN Box' = 1..Len(Box')
         /\ \A i \in DOMAIN Box : i \in DOMAIN Box' /\ Box'[i] = Box[i]
         /\ \A j \in DOMAIN Box' \ DOMAIN Box :
              \/ Box'[j].op = "push" /\ Box'[j].topic = t /\ Client \in subscribers[t] /\ o = "publish"
              \/ /\ c = Client /\ Box'[j].op = "answer" /\ Box'[j].id = id /\ j = Len(Box')
                 /\ o = "subscribe" => (Box'[j].ok <=> t \in topics)
<1>0. Client \in Conn /\ Box \in Seq(Message) /\ outbox \in [Conn -> Seq(Message)]
  BY TopicsAssumption DEF MailTypeOK, Box
<1>1. ASSUME NEW ok \in BOOLEAN, Respond(c, id, ok), o = "subscribe" => (ok <=> t \in topics)
      PROVE  /\ Len(Box) \in Nat /\ DOMAIN Box = 1..Len(Box)
             /\ Len(Box') \in Nat /\ DOMAIN Box' = 1..Len(Box')
             /\ \A i \in DOMAIN Box : i \in DOMAIN Box' /\ Box'[i] = Box[i]
             /\ \A j \in DOMAIN Box' \ DOMAIN Box :
                  /\ c = Client /\ Box'[j].op = "answer" /\ Box'[j].id = id /\ j = Len(Box')
                  /\ o = "subscribe" => (Box'[j].ok <=> t \in topics)
  <2> DEFINE x == Answer(id, ok)
  <2>1. x \in Message /\ x.op = "answer" /\ x.id = id /\ x.ok = ok
    BY AreMessages DEF Answer
  <2>2. outbox' = [outbox EXCEPT ![c] = Append(@, x)]
    BY <1>1 DEF Respond
  <2> HIDE DEF x
  <2>3. CASE c = Client
    <3>1. Box' = Append(Box, x)
      BY <1>0, <2>2, <2>3 DEF Box
    <3>2. /\ Append(Box, x) \in Seq(Message) /\ Len(Box) \in Nat
          /\ DOMAIN Box = 1..Len(Box) /\ DOMAIN Append(Box, x) = 1..(Len(Box) + 1)
          /\ \A i \in DOMAIN Box : Append(Box, x)[i] = Box[i]
          /\ Append(Box, x)[Len(Box) + 1] = x
      BY <1>0, <2>1, AppendFacts
    <3>3. Len(Box') = Len(Box) + 1
      BY <1>0, <2>1, <3>1
    <3> QED  BY <1>1, <2>1, <2>3, <3>1, <3>2, <3>3
  <2>4. CASE c # Client
    <3>1. Box' = Box
      BY <1>0, <2>2, <2>4 DEF Box
    <3> QED  BY <1>0, <3>1
  <2> QED  BY <2>3, <2>4
<1>2. ASSUME o = "publish", PublishMsg(c, t, id)
      PROVE  /\ Len(Box) \in Nat /\ DOMAIN Box = 1..Len(Box)
             /\ Len(Box') \in Nat /\ DOMAIN Box' = 1..Len(Box')
             /\ \A i \in DOMAIN Box : i \in DOMAIN Box' /\ Box'[i] = Box[i]
             /\ \A j \in DOMAIN Box' \ DOMAIN Box :
                  \/ Box'[j].op = "push" /\ Box'[j].topic = t /\ Client \in subscribers[t]
                  \/ c = Client /\ Box'[j].op = "answer" /\ Box'[j].id = id /\ j = Len(Box')
  <2> DEFINE x == Push(t, id)
  <2> DEFINE y == Answer(id, TRUE)
  <2>1. /\ x \in Message /\ x.op = "push" /\ x.topic = t
        /\ y \in Message /\ y.op = "answer" /\ y.id = id
    BY AreMessages DEF Answer, Push
  <2>2. outbox' = [d \in Conn |->
          outbox[d] \o (IF d \in subscribers[t] THEN <<x>> ELSE <<>>)
                    \o (IF d = c THEN <<y>> ELSE <<>>)]
    BY <1>2 DEF PublishMsg
  <2> HIDE DEF x, y
  <2>3. Box' = Box \o (IF Client \in subscribers[t] THEN <<x>> ELSE <<>>)
                   \o (IF Client = c THEN <<y>> ELSE <<>>)
    BY <1>0, <2>2 DEF Box
  <2> DEFINE s == IF Client \in subscribers[t] THEN <<x>> ELSE <<>>
  <2> DEFINE q == Box \o s
  <2>4. /\ Len(Box) \in Nat /\ DOMAIN Box = 1..Len(Box)
        /\ q \in Seq(Message) /\ Len(q) \in Nat /\ DOMAIN q = 1..Len(q)
        /\ \A i \in DOMAIN Box : i \in DOMAIN q /\ q[i] = Box[i]
        /\ \A j \in DOMAIN q \ DOMAIN Box : Client \in subscribers[t] /\ q[j] = x
    <3>1. CASE Client \in subscribers[t]
      <4>1. q = Append(Box, x)
        BY <1>0, <2>1, <3>1
      <4>2. Len(Append(Box, x)) = Len(Box) + 1
        BY <1>0, <2>1
      <4> HIDE DEF q, s
      <4> QED  BY <1>0, <2>1, <3>1, <4>1, <4>2, AppendFacts
    <3>2. CASE Client \notin subscribers[t]
      <4>1. q = Box
        BY <1>0, <3>2
      <4> HIDE DEF q, s
      <4> QED  BY <1>0, <4>1
    <3> QED  BY <3>1, <3>2
  <2>5. Box' = q \o (IF Client = c THEN <<y>> ELSE <<>>)
    BY <2>3
  <2> HIDE DEF q, s
  <2>6. CASE Client = c
    <3>1. Box' = Append(q, y) /\ Len(Append(q, y)) = Len(q) + 1
      BY <2>1, <2>4, <2>5, <2>6
    <3>2. /\ DOMAIN Append(q, y) = 1..(Len(q) + 1)
          /\ \A i \in DOMAIN q : Append(q, y)[i] = q[i]
          /\ Append(q, y)[Len(q) + 1] = y
      BY <2>1, <2>4, AppendFacts
    <3> QED  BY <2>1, <2>4, <2>6, <3>1, <3>2
  <2>7. CASE Client # c
    <3>1. Box' = q
      BY <2>4, <2>5, <2>7
    <3> QED  BY <2>1, <2>4, <3>1
  <2> QED  BY <2>6, <2>7
<1>3. CASE o = "publish" /\ PublishMsg(c, t, id)
  BY <1>2, <1>3
<1>4. CASE \E ok \in BOOLEAN : Respond(c, id, ok) /\ (o = "subscribe" => (ok <=> t \in topics))
  BY <1>1, <1>4
<1> QED  BY <1>3, <1>4 DEF OnTopicRequest, CreateTopic, RemoveTopic, SubscribeTopic, CancelTopic,
                          ResponseErr

\* And to the client's memberships.
LEMMA LinksAfter ==
  ASSUME TInv, NEW c \in Conn, NEW o \in Operation, NEW t \in Topic, NEW id \in Id,
         OnTopicRequest(c, o, t, id), Handled(c, o, t), NEW u \in Topic
  PROVE  /\ c = Client /\ o = "cancel" => Left(t)'
         /\ c = Client /\ o = "subscribe" /\ t \in topics => Joined(t)'
         /\ o = "subscribe" /\ t \notin topics => Left(t)'
         /\ Joined(u) /\ ~(c = Client /\ o = "cancel" /\ u = t) => Joined(u)'
         /\ Left(u) /\ ~(c = Client /\ o = "subscribe" /\ u = t) => Left(u)'
<1> USE DEF TInv, LinkTypeOK, LinksAgree, Joined, Left
<1>0. c \notin gone /\ UNCHANGED gone /\ Client \in Conn
  BY TopicsAssumption DEF OnTopicRequest
<1>1. CASE o = "create" /\ CreateTopic(c, t, id)
  BY <1>0, <1>1 DEF CreateTopic, Handled
<1>2. CASE o = "remove" /\ RemoveTopic(c, t, id)
  BY <1>0, <1>2 DEF RemoveTopic, Handled
<1>3. CASE o = "subscribe" /\ SubscribeTopic(c, t, id)
  BY <1>0, <1>3 DEF SubscribeTopic, Handled
<1>4. CASE o = "cancel" /\ CancelTopic(c, t, id)
  BY <1>0, <1>4 DEF CancelTopic, Handled
<1>5. CASE o = "publish" /\ PublishMsg(c, t, id)
  BY <1>0, <1>5 DEF PublishMsg, linkVars, Handled
<1>6. CASE o \in {"subscribe", "publish"} /\ ResponseErr(c, t, id)
  BY <1>0, <1>6 DEF ResponseErr, linkVars, Handled
<1> QED  BY <1>1, <1>2, <1>3, <1>4, <1>5, <1>6 DEF OnTopicRequest

-----------------------------------------------------------------------------
(* Ids.                                                                     *)

\* Requests are taken and answered, and no thread begins a call.
LEMMA KeptIds ==
  ASSUME IdsOK, UNCHANGED <<call, count>>,
         \A th \in Thread : pc'[th] \in {"inserting", "erasing", "sending"} =>
           pc[th] \in {"inserting", "erasing", "sending"},
         \A i \in DOMAIN requests' : \E j \in DOMAIN requests : requests'[i] = requests[j],
         \A i \in DOMAIN Box' : Box'[i].op = "answer" =>
           \/ \E j \in DOMAIN Box : Box'[i] = Box[j]
           \/ \E j \in DOMAIN requests : Box'[i].id = requests[j].id
  PROVE  IdsOK'
<1>1. ASSUME NEW th \in Thread, NEW i \in DOMAIN requests', NEW k, requests'[i].id = <<th, k>>
      PROVE  /\ k \in 0..count'[th]
             /\ k = count'[th] => /\ pc'[th] \notin {"inserting", "erasing", "sending"}
                                  /\ requests'[i].op = call'[th].op
                                  /\ requests'[i].topic = call'[th].topic
  <2>1. PICK j \in DOMAIN requests : requests'[i] = requests[j]
    BY <1>1
  <2> QED  BY <1>1, <2>1 DEF IdsOK
<1>2. ASSUME NEW th \in Thread, NEW i \in DOMAIN Box', NEW k, Box'[i].op = "answer",
             Box'[i].id = <<th, k>>
      PROVE  /\ k \in 0..count'[th]
             /\ k = count'[th] => pc'[th] \notin {"inserting", "erasing", "sending"}
  <2>1. CASE \E j \in DOMAIN Box : Box'[i] = Box[j]
    BY <1>2, <2>1 DEF IdsOK
  <2>2. CASE \E j \in DOMAIN requests : Box'[i].id = requests[j].id
    BY <1>2, <2>2 DEF IdsOK
  <2> QED  BY <1>2, <2>1, <2>2
<1> QED  BY <1>1, <1>2 DEF IdsOK

LEMMA ThreadStepIds ==
  ASSUME StoredOK, IdsOK, NEW th \in Thread, ThreadStep(th) PROVE IdsOK'
<1> USE DEF StoredOK, ClientTypeOK
<1>0. UNCHANGED outbox
  BY DEF ThreadStep, Begin, InsertHandler, EraseHandler, SendRequest, Wake, Expire, Return,
         DropHandler, topicVars
<1>1. ASSUME NEW o \in ClientOps, NEW t \in Topic, Begin(th, o, t)
      PROVE  IdsOK'
  <2>1. /\ requests' = requests /\ count[th] \in Nat /\ count'[th] = count[th] + 1
        /\ \A v \in Thread \ {th} : pc'[v] = pc[v] /\ call'[v] = call[v] /\ count'[v] = count[v]
    BY <1>1, TopicsAssumption DEF Begin
  <2>2. \A k : k \in 0..count[th] => k \in 0..count'[th] /\ k # count'[th]
    BY <2>1
  <2> QED  BY <1>0, <2>1, <2>2 DEF IdsOK, Box
<1>2. CASE \/ InsertHandler(th) \/ EraseHandler(th) \/ Wake(th) \/ Expire(th) \/ DropHandler(th)
  <2>1. /\ UNCHANGED <<call, count, requests>>
        /\ \A v \in Thread : pc'[v] \in {"inserting", "erasing", "sending"} =>
             pc[v] \in {"inserting", "erasing", "sending"}
    BY <1>2 DEF InsertHandler, EraseHandler, Wake, Expire, Return, DropHandler
  <2> QED  BY <1>0, <2>1, KeptIds DEF Box
<1>3. CASE SendRequest(th)
  <2> DEFINE r == [op |-> call[th].op, topic |-> call[th].topic, id |-> <<th, count[th]>>]
  <2>1. /\ pc[th] = "sending" /\ pc' = [pc EXCEPT ![th] = "waiting"] /\ UNCHANGED <<call, count>>
        /\ requests' = requests \/ requests' = Append(requests, r)
    BY <1>3 DEF SendRequest
  <2>2. r \in Request /\ count[th] \in 0..count[th]
    BY <2>1, TopicsAssumption DEF Request, InCallOK
  <2>3. r.op = call[th].op /\ r.topic = call[th].topic /\ r.id = <<th, count[th]>>
    OBVIOUS
  <2> HIDE DEF r
  <2>4. CASE requests' = requests
    BY <1>0, <2>1, <2>4, KeptIds DEF Box
  <2>5. CASE requests' = Append(requests, r)
    <3>1. /\ DOMAIN requests = 1..Len(requests) /\ Len(requests) \in Nat
          /\ DOMAIN requests' = 1..(Len(requests) + 1) /\ requests'[Len(requests) + 1] = r
          /\ \A i \in DOMAIN requests : requests'[i] = requests[i]
      BY <2>2, <2>5, AppendFacts
    <3>2. ASSUME NEW v \in Thread, NEW i \in DOMAIN requests', NEW k, requests'[i].id = <<v, k>>
          PROVE  /\ k \in 0..count[v]
                 /\ k = count[v] => /\ pc'[v] \notin {"inserting", "erasing", "sending"}
                                    /\ requests'[i].op = call[v].op
                                    /\ requests'[i].topic = call[v].topic
      <4>1. CASE i \in DOMAIN requests
        <5>1. requests[i].id = <<v, k>> /\ requests'[i] = requests[i]
          BY <3>1, <3>2, <4>1
        <5>2. /\ k \in 0..count[v]
              /\ k = count[v] => /\ pc[v] \notin {"inserting", "erasing", "sending"}
                                 /\ requests[i].op = call[v].op /\ requests[i].topic = call[v].topic
          BY <4>1, <5>1, Zenon DEF IdsOK
        <5> QED  BY <2>1, <5>1, <5>2
      <4>2. CASE i \notin DOMAIN requests
        <5>1. requests'[i] = r
          BY <3>1, <4>2
        <5> QED  BY <2>1, <2>2, <2>3, <3>2, <5>1
      <4> QED  BY <4>1, <4>2
    <3>3. ASSUME NEW v \in Thread, NEW i \in DOMAIN Box, NEW k, Box[i].op = "answer", Box[i].id = <<v, k>>
          PROVE  k \in 0..count[v] /\ (k = count[v] => pc'[v] \notin {"inserting", "erasing", "sending"})
      BY <2>1, <3>3 DEF IdsOK
    <3>4. Box' = Box
      BY <1>0 DEF Box
    <3> QED  BY <2>1, <3>2, <3>3, <3>4 DEF IdsOK
  <2> QED  BY <2>1, <2>4, <2>5
<1> QED  BY <1>1, <1>2, <1>3 DEF ThreadStep

\* The client's mail after the steps that do not handle a request.
LEMMA BoxKept ==
  ASSUME StoredOK
  PROVE  /\ \A c \in Conn : c # Client /\ (PeerReads(c) \/ PeerLeaves(c)) => Box' = Box
         /\ ReceiveAnswer \/ OnPublish => Box # <<>> /\ Box' = Tail(Box)
         /\ ClientLeaves => Box' = <<>>
         /\ Box \in Seq(Message)
BY TopicsAssumption
   DEF Box, StoredOK, MailTypeOK, PeerReads, PeerLeaves, ReceiveAnswer, OnPublish, ClientLeaves,
       Deliver, OnShutDown

LEMMA WireStepIds == ASSUME StoredOK, IdsOK, WireStep PROVE IdsOK'
<1>1. /\ UNCHANGED <<call, count>>
      /\ \A th \in Thread : pc'[th] \in {"inserting", "erasing", "sending"} =>
           pc[th] \in {"inserting", "erasing", "sending"}
  BY DEF WireStep, ReceiveAnswer, OnPublish, HandleRequest, ClientLeaves, PeerRequest, PeerReads,
         PeerLeaves, threadVars, StoredOK, ClientTypeOK
<1>2. CASE \E c \in Conn : PeerReads(c) \/ PeerLeaves(c)
  <2>1. UNCHANGED requests /\ Box' = Box
    BY <1>2, BoxKept DEF PeerReads, PeerLeaves
  <2> QED  BY <1>1, <2>1, KeptIds
<1>3. CASE ReceiveAnswer \/ OnPublish
  <2>1. UNCHANGED requests
    BY <1>3 DEF ReceiveAnswer, OnPublish
  <2>2. \A i \in DOMAIN Box' : \E j \in DOMAIN Box : Box'[i] = Box[j]
    BY <1>3, BoxKept, TailFacts
  <2> QED  BY <1>1, <2>1, <2>2, KeptIds
<1>4. CASE ClientLeaves
  <2>1. requests' = <<>> /\ Box' = <<>>
    BY <1>4, BoxKept DEF ClientLeaves
  <2> QED  BY <1>1, <2>1, KeptIds
<1>5. CASE HandleRequest
  <2> DEFINE r == Head(requests)
  <2>1. /\ requests \in Seq(Request) /\ requests # <<>> /\ requests' = Tail(requests)
        /\ r = requests[1] /\ 1 \in DOMAIN requests
        /\ r.op \in Operation /\ r.topic \in Topic /\ r.id \in Id
        /\ OnTopicRequest(Client, r.op, r.topic, r.id)
    BY <1>5, HeadIsRequest DEF StoredOK, ClientTypeOK
  <2>2. \A i \in DOMAIN requests' : \E j \in DOMAIN requests : requests'[i] = requests[j]
    BY <2>1, TailFacts
  <2>3. \A i \in DOMAIN Box' : Box'[i].op = "answer" =>
          (\E j \in DOMAIN Box : Box'[i] = Box[j]) \/ Box'[i].id = requests[1].id
    <3> HIDE DEF r
    <3>1. Client \in Conn
      BY TopicsAssumption
    <3> QED  BY <2>1, <3>1, BoxAfter DEF StoredOK
  <2> QED  BY <1>1, <2>1, <2>2, <2>3, KeptIds
<1>6. ASSUME NEW c \in Conn, NEW o \in Operation, NEW t \in Topic, PeerRequest(c, o, t)
      PROVE  IdsOK'
  <2>1. UNCHANGED requests /\ c # Client /\ OnTopicRequest(c, o, t, PeerId) /\ PeerId \in Id
    BY <1>6, TopicsAssumption DEF PeerRequest
  <2>2. \A i \in DOMAIN Box' : Box'[i].op = "answer" => \E j \in DOMAIN Box : Box'[i] = Box[j]
    BY <2>1, BoxAfter DEF StoredOK
  <2> QED  BY <1>1, <2>1, <2>2, KeptIds
<1> QED  BY <1>2, <1>3, <1>4, <1>5, <1>6 DEF WireStep

-----------------------------------------------------------------------------
(* Calls and beliefs.                                                       *)

\* What a call has done stays done when another request is handled.
LEMMA HandledDone ==
  ASSUME StoredOK, NEW c \in Conn, NEW o \in Operation, NEW t \in Topic, NEW id \in Id,
         OnTopicRequest(c, o, t, id), Handled(c, o, t),
         \/ c # Client /\ requests' = requests
         \/ /\ c = Client /\ requests # <<>> /\ requests' = Tail(requests)
            /\ o = requests[1].op /\ t = requests[1].topic /\ id = requests[1].id,
         NEW o2, NEW u \in Topic, NEW ok, NEW i, Done(o2, u, ok, i)
  PROVE  Done(o2, u, ok, i)'
<1> USE DEF StoredOK
<1>1. /\ Len(Box) \in Nat /\ DOMAIN Box = 1..Len(Box)
      /\ \A j \in DOMAIN Box : j \in DOMAIN Box' /\ Box'[j] = Box[j]
      /\ \A j \in DOMAIN Box' \ DOMAIN Box :
           \/ Box'[j].op = "push" /\ Box'[j].topic = t /\ Client \in subscribers[t]
           \/ Box'[j].op = "answer"
  BY BoxAfter
<1>2. /\ Joined(u) /\ ~(c = Client /\ o = "cancel" /\ u = t) => Joined(u)'
      /\ Left(u) /\ ~(c = Client /\ o = "subscribe" /\ u = t) => Left(u)'
  BY LinksAfter
<1>3. c = Client => /\ 1 \in DOMAIN requests
                    /\ \A j \in DOMAIN requests' : /\ j \in Nat \ {0} /\ j + 1 \in DOMAIN requests
                                                   /\ requests'[j] = requests[j + 1]
  BY TailFacts DEF ClientTypeOK
<1>4. Quiet(u)' /\ (c = Client => ~(o \in Moves /\ u = t))
  BY <1>3 DEF Quiet, Done
<1>5. ASSUME Left(u), NoPush(u, i)
      PROVE  NoPush(u, i)'
  BY <1>1, <1>5 DEF NoPush, Left
<1> QED  BY <1>2, <1>4, <1>5, MovesAre DEF Done

\* A request is handled, the client's first or another client's.
LEMMA HandledBelief ==
  ASSUME BInv, UNCHANGED <<pc, call, count, reply, calm, belief>>,
         NEW c \in Conn, NEW o \in Operation, NEW t \in Topic, NEW id \in Id,
         OnTopicRequest(c, o, t, id), Handled(c, o, t),
         \/ c # Client /\ requests' = requests
         \/ /\ c = Client /\ requests # <<>> /\ requests' = Tail(requests)
            /\ o = requests[1].op /\ t = requests[1].topic /\ id = requests[1].id
  PROVE  CalmOK' /\ BeliefOK'
<1> USE DEF BInv, StoredOK
<1>1. /\ Len(Box) \in Nat /\ DOMAIN Box = 1..Len(Box)
      /\ Len(Box') \in Nat /\ DOMAIN Box' = 1..Len(Box')
      /\ \A i \in DOMAIN Box : i \in DOMAIN Box' /\ Box'[i] = Box[i]
      /\ \A j \in DOMAIN Box' \ DOMAIN Box :
           \/ Box'[j].op = "push" /\ Box'[j].topic = t /\ Client \in subscribers[t] /\ o = "publish"
           \/ /\ c = Client /\ Box'[j].op = "answer" /\ Box'[j].id = id /\ j = Len(Box')
              /\ o = "subscribe" => (Box'[j].ok <=> t \in topics)
  BY BoxAfter
<1>2. /\ c = Client /\ o = "cancel" => Left(t)'
      /\ c = Client /\ o = "subscribe" /\ t \in topics => Joined(t)'
      /\ o = "subscribe" /\ t \notin topics => Left(t)'
  BY LinksAfter
<1>3. c = Client => /\ 1 \in DOMAIN requests
                    /\ \A i \in DOMAIN requests' : /\ i \in Nat \ {0} /\ i + 1 \in DOMAIN requests
                                                   /\ requests'[i] = requests[i + 1]
  BY TailFacts DEF ClientTypeOK
<1>6. ASSUME NEW o2, NEW u \in Topic, NEW ok, NEW i, Done(o2, u, ok, i)
      PROVE  Done(o2, u, ok, i)'
  BY <1>6, HandledDone
<1>7. BeliefOK'
  BY <1>6 DEF BeliefOK
<1>8. ASSUME NEW th \in Thread, calm[th], call[th].op \in Moves, pc[th] = "waiting"
      PROVE  LastOK(th)' /\ AnswerDone(th)'
  <2>1. LastOK(th) /\ AnswerDone(th) /\ call[th].topic \in Topic
    BY <1>8 DEF CalmOK, InCallOK
  <2>2. LastOK(th)'
    <3>1. CASE c # Client
      BY <2>1, <3>1 DEF LastOK, IdOf
    <3>2. ASSUME c = Client, NEW i \in DOMAIN requests', NEW j \in DOMAIN requests',
                 requests'[j].id = IdOf(th)', i > j, requests'[i].op \in Moves
          PROVE  requests'[i].topic # call'[th].topic
      <4>1. /\ i + 1 \in DOMAIN requests /\ requests'[i] = requests[i + 1]
            /\ j + 1 \in DOMAIN requests /\ requests'[j] = requests[j + 1]
            /\ i + 1 > j + 1
        BY <1>3, <3>2
      <4>2. requests[j + 1].id = IdOf(th) /\ requests[i + 1].op \in Moves
        BY <3>2, <4>1 DEF IdOf
      <4> HIDE DEF BInv
      <4>3. requests[i + 1].topic # call[th].topic
        BY <2>1, <4>1, <4>2 DEF LastOK
      <4> QED  BY <4>1, <4>3
    <3> QED  BY <3>1, <3>2 DEF LastOK
  <2>3. ASSUME NEW i \in DOMAIN Box', Box'[i].op = "answer", Box'[i].id = IdOf(th),
               NEW ok, ok = Box'[i].ok
        PROVE  Done(call[th].op, call[th].topic, ok, i)'
    <3>1. CASE i \in DOMAIN Box
      <4>1. Done(call[th].op, call[th].topic, ok, i)
        BY <1>1, <2>1, <2>3, <3>1 DEF AnswerDone
      <4> QED  BY <1>6, <2>1, <4>1 DEF Done
    <3>2. CASE i \notin DOMAIN Box
      <4>1. /\ c = Client /\ id = IdOf(th) /\ i = Len(Box')
            /\ o = "subscribe" => (ok <=> t \in topics)
        BY <1>1, <2>3, <3>2
      <4>2. o = call[th].op /\ t = call[th].topic /\ requests[1].id = IdOf(th)
        BY <1>3, <4>1 DEF IdsOK, IdOf
      <4>3. Quiet(t)'
        <5>1. \A k \in DOMAIN requests' : /\ k \in Nat \ {0} /\ k + 1 \in DOMAIN requests
                                          /\ requests'[k] = requests[k + 1] /\ k + 1 > 1
          BY <1>3, <4>1
        <5> QED  BY <1>3, <2>1, <4>1, <4>2, <5>1 DEF LastOK, Quiet
      <4>4. NoPush(t, i)'
        BY <1>1, <4>1 DEF NoPush
      <4> QED  BY <1>2, <4>1, <4>2, <4>3, <4>4 DEF Done
    <3> QED  BY <3>1, <3>2
  <2> QED  BY <2>2, <2>3 DEF AnswerDone, IdOf, Done
<1>9. ASSUME NEW th \in Thread, calm[th], call[th].op \in Moves, pc[th] = "answered"
      PROVE  Done(call[th].op, call[th].topic, reply[th], 0)'
  <2>1. call[th].topic \in Topic /\ Done(call[th].op, call[th].topic, reply[th], 0)
    BY <1>9 DEF CalmOK, InCallOK
  <2> QED  BY <1>6, <2>1 DEF Done
<1>10. CalmOK'
  BY <1>8, <1>9 DEF CalmOK, LastOK, AnswerDone, Done, IdOf
<1> QED  BY <1>7, <1>10

\* The first message is taken off the connection.
LEMMA DeliveredDone ==
  ASSUME StoredOK, Box # <<>>, Box' = Tail(Box), UNCHANGED <<requests, subscribers, gone, dropped>>,
         NEW o, NEW u, NEW ok, NEW i \in Nat, NEW k \in Nat, i \in {k, k + 1}, Done(o, u, ok, i)
  PROVE  Done(o, u, ok, k)'
<1>1. \A j \in DOMAIN Box' : /\ j \in Nat \ {0} /\ j + 1 \in DOMAIN Box /\ Box'[j] = Box[j + 1]
                             /\ j > k => j + 1 > i
  BY BoxKept, TailFacts
<1>2. ASSUME NoPush(u, i)
      PROVE  NoPush(u, k)'
  BY <1>1, <1>2 DEF NoPush
<1> QED  BY <1>2 DEF Done, Quiet, Joined, Left

LEMMA DeliveredBelief ==
  ASSUME BInv, ReceiveAnswer \/ OnPublish PROVE CalmOK' /\ BeliefOK'
<1> USE DEF BInv
<1>1. /\ UNCHANGED <<requests, subscribers, gone, dropped, call, count, calm, belief>>
      /\ Box # <<>> /\ Box' = Tail(Box) /\ Box \in Seq(Message)
  BY BoxKept DEF ReceiveAnswer, OnPublish, Deliver, linkVars, ghostVars, threadVars
<1>2. ASSUME NEW o, NEW u, NEW ok, NEW k \in Nat, Done(o, u, ok, k) \/ Done(o, u, ok, k + 1)
      PROVE  Done(o, u, ok, k)'
  BY <1>1, <1>2, DeliveredDone
<1>3. BeliefOK'
  BY <1>1, <1>2 DEF BeliefOK
<1>4. ASSUME NEW th \in Thread, calm[th], call[th].op \in Moves, pc[th] = "waiting"
      PROVE  LastOK(th)' /\ AnswerDone(th)'
  <2>1. LastOK(th) /\ AnswerDone(th)
    BY <1>4 DEF CalmOK
  <2>2. LastOK(th)'
    BY <1>1, <2>1 DEF LastOK, IdOf
  <2>3. ASSUME NEW i \in DOMAIN Box', Box'[i].op = "answer", Box'[i].id = IdOf(th),
               NEW ok, ok = Box'[i].ok
        PROVE  Done(call[th].op, call[th].topic, ok, i)'
    <3>1. i \in Nat /\ i + 1 \in DOMAIN Box /\ Box'[i] = Box[i + 1]
      BY <1>1, TailFacts
    <3>2. Done(call[th].op, call[th].topic, ok, i + 1)
      BY <2>1, <2>3, <3>1 DEF AnswerDone
    <3> QED  BY <1>1, <1>2, <3>1, <3>2 DEF Done
  <2> QED  BY <1>1, <2>2, <2>3 DEF AnswerDone, IdOf, Done
<1>5. ASSUME NEW th \in Thread, calm[th], call[th].op \in Moves, pc'[th] = "answered",
             NEW ok, ok = reply'[th]
      PROVE  Done(call[th].op, call[th].topic, ok, 0)'
  <2>1. CASE pc[th] = "answered" /\ reply'[th] = reply[th]
    <3>1. Done(call[th].op, call[th].topic, ok, 0)
      BY <1>5, <2>1 DEF CalmOK
    <3> QED  BY <1>1, <1>2, <3>1 DEF Done
  <2>2. CASE /\ pc[th] = "waiting" /\ ReceiveAnswer
             /\ Head(Box).id = IdOf(th) /\ Head(Box).op = "answer" /\ reply'[th] = Head(Box).ok
    <3>1. 1 \in DOMAIN Box /\ Head(Box) = Box[1]
      BY <1>1, TailFacts
    <3>2. AnswerDone(th)
      BY <1>5, <2>2 DEF CalmOK
    <3>3. Done(call[th].op, call[th].topic, ok, 0 + 1)
      BY <1>5, <2>2, <3>1, <3>2 DEF AnswerDone
    <3> QED  BY <1>1, <1>2, <3>3 DEF Done
  <2>3. CASE UNCHANGED <<pc, reply>>
    BY <1>5, <2>1, <2>3
  <2>4. CASE ReceiveAnswer /\ ~UNCHANGED <<pc, reply>>
    <3> DEFINE v == Head(Box).id[1]
    <3> DEFINE r == Head(Box).ok
    <3>1. /\ pc[v] = "waiting" /\ Head(Box).id = IdOf(v) /\ Head(Box).op = "answer"
          /\ pc' = [pc EXCEPT ![v] = "answered"] /\ reply' = [reply EXCEPT ![v] = r]
      BY <2>4 DEF ReceiveAnswer, Box, IdOf
    <3>2. pc \in [Thread -> PcStates] /\ reply \in [Thread -> BOOLEAN]
      BY DEF StoredOK, ClientTypeOK
    <3>3. CASE th = v
      <4>1. reply'[th] = r /\ pc[th] = "waiting"
        <5> HIDE DEF v, r
        <5> QED  BY <3>1, <3>2, <3>3
      <4> QED  BY <2>2, <2>4, <3>1, <3>3, <4>1
    <3>4. CASE th # v
      <4>1. reply'[th] = reply[th] /\ pc'[th] = pc[th]
        <5> HIDE DEF v, r
        <5> QED  BY <3>1, <3>2, <3>4
      <4> QED  BY <1>5, <2>1, <4>1
    <3> QED  BY <3>3, <3>4
  <2> QED  BY <2>3, <2>4 DEF OnPublish, threadVars
<1>6. \A th \in Thread : pc'[th] = "waiting" => pc[th] = "waiting"
  BY DEF StoredOK, ClientTypeOK, ReceiveAnswer, OnPublish, threadVars
<1>7. CalmOK'
  BY <1>1, <1>4, <1>5, <1>6 DEF CalmOK
<1> QED  BY <1>3, <1>7


\* Nothing is sent or answered, and nobody's place at a topic is taken back.
LEMMA KeptDone ==
  ASSUME NEW u \in Topic,
         \A i \in DOMAIN requests' : i \in DOMAIN requests /\ requests'[i] = requests[i],
         \A i \in DOMAIN Box' : i \in DOMAIN Box /\ Box'[i] = Box[i],
         (Joined(u) => Joined(u)') /\ (Left(u) => Left(u)'),
         NEW o, NEW ok, NEW i, Done(o, u, ok, i)
  PROVE  Done(o, u, ok, i)'
BY DEF Done, Quiet, NoPush

LEMMA KeptBelief ==
  ASSUME BInv, UNCHANGED <<pc, call, count, reply, calm, belief>>,
         \A i \in DOMAIN requests' : i \in DOMAIN requests /\ requests'[i] = requests[i],
         \A i \in DOMAIN Box' : i \in DOMAIN Box /\ Box'[i] = Box[i],
         \A u \in Topic : (Joined(u) => Joined(u)') /\ (Left(u) => Left(u)')
  PROVE  CalmOK' /\ BeliefOK'
<1> USE DEF BInv, StoredOK
<1>1. ASSUME NEW o, NEW u \in Topic, NEW ok, NEW i, Done(o, u, ok, i)
      PROVE  Done(o, u, ok, i)'
  BY <1>1, KeptDone
<1>2. BeliefOK'
  BY <1>1 DEF BeliefOK
<1>3. ASSUME NEW th \in Thread, calm[th], call[th].op \in Moves, pc[th] = "waiting"
      PROVE  LastOK(th)' /\ AnswerDone(th)'
  <2>1. LastOK(th) /\ AnswerDone(th) /\ call[th].topic \in Topic
    BY <1>3 DEF CalmOK, InCallOK
  <2>2. LastOK(th)'
    BY <2>1 DEF LastOK, IdOf
  <2>3. ASSUME NEW i \in DOMAIN Box', Box'[i].op = "answer", Box'[i].id = IdOf(th),
               NEW ok, ok = Box'[i].ok
        PROVE  Done(call[th].op, call[th].topic, ok, i)'
    <3>1. Done(call[th].op, call[th].topic, ok, i)
      BY <2>1, <2>3 DEF AnswerDone
    <3> QED  BY <1>1, <2>1, <3>1 DEF Done
  <2> QED  BY <2>2, <2>3 DEF AnswerDone, IdOf, Done
<1>4. ASSUME NEW th \in Thread, calm[th], call[th].op \in Moves, pc[th] = "answered"
      PROVE  Done(call[th].op, call[th].topic, reply[th], 0)'
  <2>1. call[th].topic \in Topic /\ Done(call[th].op, call[th].topic, reply[th], 0)
    BY <1>4 DEF CalmOK, InCallOK
  <2> QED  BY <1>1, <2>1 DEF Done
<1>5. CalmOK'
  BY <1>3, <1>4 DEF CalmOK, LastOK, AnswerDone, Done, IdOf
<1> QED  BY <1>2, <1>5

LEMMA WireStepBelief == ASSUME BInv, WireStep PROVE CalmOK' /\ BeliefOK'
<1>1. CASE ReceiveAnswer \/ OnPublish
  BY <1>1, DeliveredBelief
<1>2. CASE HandleRequest
  <2> DEFINE r == Head(requests)
  <2>1. /\ requests # <<>> /\ requests' = Tail(requests) /\ r = requests[1]
        /\ r.op \in Operation /\ r.topic \in Topic /\ r.id \in Id
        /\ OnTopicRequest(Client, r.op, r.topic, r.id) /\ Handled(Client, r.op, r.topic)
    BY <1>2, HeadIsRequest DEF BInv
  <2>2. UNCHANGED <<pc, call, count, reply, calm, belief>> /\ Client \in Conn
    BY <1>2, TopicsAssumption DEF HandleRequest, threadVars
  <2> HIDE DEF r
  <2> QED  BY <2>1, <2>2, HandledBelief
<1>3. ASSUME NEW c \in Conn, NEW o \in Operation, NEW t \in Topic, PeerRequest(c, o, t)
      PROVE  CalmOK' /\ BeliefOK'
  <2>1. /\ UNCHANGED <<pc, call, count, reply, calm, belief, requests>> /\ c # Client /\ PeerId \in Id
        /\ OnTopicRequest(c, o, t, PeerId) /\ Handled(c, o, t)
    BY <1>3, TopicsAssumption DEF PeerRequest, threadVars
  <2> QED  BY <2>1, HandledBelief
<1>4. ASSUME NEW c \in Conn, PeerReads(c) \/ PeerLeaves(c)
      PROVE  CalmOK' /\ BeliefOK'
  <2>1. /\ UNCHANGED <<pc, call, count, reply, calm, belief, requests, dropped>> /\ c # Client
        /\ Box' = Box /\ gone \subseteq gone'
    BY <1>4, BoxKept DEF PeerReads, PeerLeaves, threadVars, ghostVars, Deliver, OnShutDown, BInv
  <2>2. \A u \in Topic : Client \in subscribers'[u] <=> Client \in subscribers[u]
    BY <1>4 DEF PeerReads, PeerLeaves, Deliver, OnShutDown, linkVars, BInv, StoredOK, TInv, LinkTypeOK
  <2> QED  BY <2>1, <2>2, KeptBelief DEF Joined, Left
<1>5. CASE ClientLeaves
  <2>1. /\ UNCHANGED <<pc, call, count, reply, calm, belief, dropped>> /\ requests' = <<>>
        /\ Box' = <<>> /\ Client \in gone' /\ Client \in Conn
    BY <1>5, BoxKept, TopicsAssumption DEF ClientLeaves, threadVars, ghostVars, OnShutDown, BInv
  <2>2. StoredOK'
    BY <1>5, NextStoredOK DEF BInv, TopicsNext
  <2>3. \A u \in Topic : Client \notin subscribers'[u]
    BY <2>1, <2>2 DEF StoredOK, TInv, LinksAgree
  <2>4. DOMAIN requests' = {} /\ DOMAIN Box' = {}
    BY <2>1
  <2> QED  BY <2>1, <2>3, <2>4, KeptBelief DEF Joined, Left
<1> QED  BY <1>1, <1>2, <1>3, <1>4, <1>5 DEF WireStep


\* A thread's step that sends nothing: the others' calls are not touched, its own
\* neither waits nor is answered any more, and it believes what its call has done.
LEMMA InsideBelief ==
  ASSUME BInv, NEW th \in Thread, UNCHANGED <<outbox, subscribers, gone, dropped, requests>>,
         pc'[th] \notin {"waiting", "answered"},
         \A u \in Thread \ {th} : /\ pc'[u] = pc[u] /\ call'[u] = call[u] /\ count'[u] = count[u]
                                  /\ reply'[u] = reply[u] /\ (calm'[u] => calm[u]),
         \A t \in Topic : /\ belief'[t] = "in" /\ belief[t] # "in" => Done("subscribe", t, TRUE, 0)
                          /\ belief'[t] = "out" /\ belief[t] # "out" => Done("cancel", t, TRUE, 0)
  PROVE  CalmOK' /\ BeliefOK'
<1> USE DEF BInv
<1>1. ASSUME NEW o, NEW u, NEW ok, NEW i, Done(o, u, ok, i)
      PROVE  Done(o, u, ok, i)'
  BY <1>1 DEF Done, Quiet, NoPush, Joined, Left, Box
<1>2. BeliefOK'
  BY <1>1 DEF BeliefOK
<1>3. ASSUME NEW u \in Thread \ {th}, calm[u], call[u].op \in Moves, pc[u] = "waiting"
      PROVE  LastOK(u)' /\ AnswerDone(u)'
  <2>1. LastOK(u) /\ AnswerDone(u) /\ call'[u] = call[u] /\ count'[u] = count[u] /\ Box' = Box
    BY <1>3 DEF CalmOK, Box
  <2>2. LastOK(u)'
    BY <2>1 DEF LastOK, IdOf
  <2>3. ASSUME NEW i \in DOMAIN Box, Box[i].op = "answer", Box[i].id = IdOf(u),
               NEW ok, ok = Box[i].ok
        PROVE  Done(call[u].op, call[u].topic, ok, i)'
    <3>1. Done(call[u].op, call[u].topic, ok, i)
      BY <2>1, <2>3 DEF AnswerDone
    <3>2. ASSUME NEW x, x = call[u]
          PROVE  Done(x.op, x.topic, ok, i)'
      BY <1>1, <3>1, <3>2
    <3> QED  BY <2>1, <3>2
  <2> QED  BY <2>1, <2>2, <2>3 DEF AnswerDone, IdOf
<1>4. ASSUME NEW u \in Thread \ {th}, calm[u], call[u].op \in Moves, pc[u] = "answered"
      PROVE  Done(call[u].op, call[u].topic, reply[u], 0)'
  <2>1. Done(call[u].op, call[u].topic, reply[u], 0)
    BY <1>4 DEF CalmOK
  <2>2. ASSUME NEW x, x = call[u], NEW ok, ok = reply[u]
        PROVE  Done(x.op, x.topic, ok, 0)'
    BY <1>1, <2>1, <2>2
  <2> QED  BY <2>2
<1>5. CalmOK'
  BY <1>3, <1>4 DEF CalmOK
<1> QED  BY <1>2, <1>5

\* A request is sent, by a thread that has sent none for its call yet.
LEMMA SentBelief == ASSUME BInv, NEW th \in Thread, SendRequest(th) PROVE CalmOK' /\ BeliefOK'
<1> USE DEF BInv, StoredOK, ClientTypeOK
<1> DEFINE r == [op |-> call[th].op, topic |-> call[th].topic, id |-> <<th, count[th]>>]
<1>1. /\ pc[th] = "sending" /\ pc' = [pc EXCEPT ![th] = "waiting"]
      /\ UNCHANGED <<outbox, subscribers, gone, dropped, call, count, reply, calm, belief>>
      /\ requests' = requests \/ requests' = Append(requests, r)
  BY DEF SendRequest, topicVars, ghostVars
<1>2. r \in Request
  BY <1>1, TopicsAssumption DEF Request, InCallOK
<1>3. r.op = call[th].op /\ r.topic = call[th].topic /\ r.id = IdOf(th)
  BY DEF IdOf
<1> HIDE DEF r
<1>4. /\ \A i \in DOMAIN requests : i \in DOMAIN requests' /\ requests'[i] = requests[i]
      /\ \A j \in DOMAIN requests' \ DOMAIN requests : requests'[j] = r
      /\ \A i \in DOMAIN requests' : \A j \in DOMAIN requests' \ DOMAIN requests : ~(i > j)
  <2>1. CASE requests' = requests
    BY <2>1
  <2>2. CASE requests' = Append(requests, r)
    BY <1>2, <2>2, AppendFacts
  <2> QED  BY <1>1, <2>1, <2>2
<1>5. \A u \in Thread \ {th} : pc'[u] = pc[u]
  BY <1>1
<1>6. ASSUME NEW o, NEW u, NEW ok, NEW i, Done(o, u, ok, i), ~Moving(th, u)
      PROVE  Done(o, u, ok, i)'
  <2>1. r.op \in Moves => r.topic # u
    BY <1>1, <1>3, <1>6 DEF Moving
  <2>2. Quiet(u)'
    BY <1>4, <1>6, <2>1 DEF Done, Quiet
  <2> QED  BY <1>1, <1>6, <2>2 DEF Done, NoPush, Joined, Left, Box
<1>7. BeliefOK'
  <2>1. \A t \in Topic : belief[t] # "unknown" => ~Moving(th, t)
    BY DEF TableInv, KnownIdle
  <2> QED  BY <1>1, <1>6, <2>1 DEF BeliefOK
<1>8. \A u \in Thread \ {th} : calm[u] /\ call[u].op \in Moves /\ pc[u] \in {"waiting", "answered"} =>
        ~Moving(th, call[u].topic)
  BY <1>1 DEF TableInv, CalmAlone, Moving
<1>9. ASSUME NEW u \in Thread \ {th}, calm[u], call[u].op \in Moves, pc[u] = "waiting"
      PROVE  LastOK(u)' /\ AnswerDone(u)'
  <2>1. LastOK(u) /\ AnswerDone(u) /\ ~Moving(th, call[u].topic) /\ Box' = Box
    BY <1>1, <1>8, <1>9 DEF CalmOK, Box
  <2>2. r.op \in Moves => r.topic # call[u].topic
    BY <1>1, <1>3, <2>1 DEF Moving
  <2>3. r.id # IdOf(u)
    BY <1>3 DEF IdOf
  <2>4. ASSUME NEW i \in DOMAIN requests', NEW j \in DOMAIN requests', requests'[j].id = IdOf(u),
               i > j, requests'[i].op \in Moves
        PROVE  requests'[i].topic # call[u].topic
    <3>1. j \in DOMAIN requests /\ requests'[j] = requests[j]
      BY <1>4, <2>3, <2>4
    <3>2. CASE i \in DOMAIN requests
      BY <1>4, <2>1, <2>4, <3>1, <3>2 DEF LastOK
    <3>3. CASE i \notin DOMAIN requests
      BY <1>4, <2>2, <2>4, <3>3
    <3> QED  BY <3>2, <3>3
  <2>5. ASSUME NEW i \in DOMAIN Box, Box[i].op = "answer", Box[i].id = IdOf(u),
               NEW ok, ok = Box[i].ok
        PROVE  Done(call[u].op, call[u].topic, ok, i)'
    <3>1. Done(call[u].op, call[u].topic, ok, i)
      BY <2>1, <2>5 DEF AnswerDone
    <3>2. ASSUME NEW x, x = call[u]
          PROVE  Done(x.op, x.topic, ok, i)'
      BY <1>6, <2>1, <3>1, <3>2
    <3>3. call'[u] = call[u]
      BY <1>1
    <3> QED  BY <3>2, <3>3, Zenon
  <2>6. LastOK(u)'
    BY <1>1, <2>4 DEF LastOK, IdOf
  <2>7. call'[u] = call[u] /\ count'[u] = count[u]
    BY <1>1
  <2> QED  BY <2>1, <2>5, <2>6, <2>7 DEF AnswerDone, IdOf
<1>10. ASSUME NEW u \in Thread \ {th}, calm[u], call[u].op \in Moves, pc[u] = "answered"
       PROVE  Done(call[u].op, call[u].topic, reply[u], 0)'
  <2>1. Done(call[u].op, call[u].topic, reply[u], 0) /\ ~Moving(th, call[u].topic)
    BY <1>8, <1>10 DEF CalmOK
  <2> QED  BY <1>1, <1>6, <2>1 DEF Done
<1>11. LastOK(th)' /\ AnswerDone(th)'
  <2>1. count[th] \in 0..MaxCalls /\ IdOf(th) = <<th, count[th]>>
    BY DEF IdOf
  <2>2. \A j \in DOMAIN requests : requests[j].id # IdOf(th)
    BY <1>1, <2>1 DEF IdsOK
  <2>3. \A j \in DOMAIN Box : ~(Box[j].op = "answer" /\ Box[j].id = IdOf(th))
    BY <1>1, <2>1 DEF IdsOK
  <2>4. IdOf(th)' = IdOf(th) /\ Box' = Box
    BY <1>1 DEF IdOf, Box
  <2> QED  BY <1>4, <2>2, <2>3, <2>4 DEF LastOK, AnswerDone
<1>12. CalmOK'
  BY <1>1, <1>5, <1>9, <1>10, <1>11 DEF CalmOK
<1> QED  BY <1>7, <1>12

LEMMA ThreadStepBelief ==
  ASSUME BInv, NEW th \in Thread, ThreadStep(th) PROVE CalmOK' /\ BeliefOK'
<1> USE DEF BInv, StoredOK, ClientTypeOK
<1>1. ASSUME NEW o \in ClientOps, NEW t \in Topic, Begin(th, o, t)
      PROVE  CalmOK' /\ BeliefOK'
  <2>1. /\ UNCHANGED <<outbox, subscribers, gone, dropped, requests, reply>>
        /\ pc' = [pc EXCEPT ![th] = Enter(o)] /\ Enter(o) \notin {"waiting", "answered"}
        /\ call' = [call EXCEPT ![th] = [op |-> o, topic |-> t]]
        /\ count' = [count EXCEPT ![th] = @ + 1]
    BY <1>1 DEF Begin, topicVars, Enter
  <2>2. \A u \in Thread \ {th} : calm'[u] => calm[u]
    BY <1>1 DEF Begin
  <2>3. \A u \in Topic : belief'[u] \in {belief[u], "unknown"}
    BY <1>1 DEF Begin
  <2> QED  BY <2>1, <2>2, <2>3, InsideBelief
<1>2. CASE InsertHandler(th) \/ EraseHandler(th) \/ DropHandler(th)
  <2>1. /\ UNCHANGED <<outbox, subscribers, gone, dropped, requests, call, count, reply, calm, belief>>
        /\ pc' = [pc EXCEPT ![th] = "sending"] \/ pc' = [pc EXCEPT ![th] = "idle"]
    BY <1>2 DEF InsertHandler, EraseHandler, DropHandler, topicVars, ghostVars
  <2> QED  BY <2>1, InsideBelief
<1>3. ASSUME NEW ok \in BOOLEAN, Return(th, ok), pc[th] # "idle",
             ok => pc[th] = "answered" /\ reply[th] = TRUE
      PROVE  CalmOK' /\ BeliefOK'
  <2>1. /\ UNCHANGED <<outbox, subscribers, gone, dropped, requests, call, count, calm>>
        /\ pc' = [pc EXCEPT ![th] = IF call[th].op = "subscribe" /\ ~ok THEN "dropping" ELSE "idle"]
        /\ reply' = [reply EXCEPT ![th] = FALSE] /\ Learn(th, call[th].topic, ok)
    BY <1>3 DEF Return, topicVars
  <2>2. ASSUME ok, call[th].op \in Moves, calm[th]
        PROVE  Done(call[th].op, call[th].topic, TRUE, 0) /\ call[th].topic \in Topic
    BY <1>3, <2>2 DEF CalmOK, InCallOK
  <2>3. \A t \in Topic : /\ belief'[t] = "in" /\ belief[t] # "in" => Done("subscribe", t, TRUE, 0)
                         /\ belief'[t] = "out" /\ belief[t] # "out" => Done("cancel", t, TRUE, 0)
    <3>1. CASE belief' = belief
      BY <3>1
    <3>2. CASE /\ ok /\ call[th].op \in Moves /\ calm[th]
               /\ belief' = [belief EXCEPT ![call[th].topic] =
                    IF call[th].op = "subscribe" THEN "in" ELSE "out"]
      BY <2>2, <3>2, MovesAre
    <3> QED  BY <2>1, <3>1, <3>2 DEF Learn
  <2> QED  BY <2>1, <2>3, InsideBelief
<1>4. CASE Wake(th)
  BY <1>3, <1>4 DEF Wake
<1>5. CASE Expire(th)
  BY <1>3, <1>5 DEF Expire
<1> QED  BY <1>1, <1>2, <1>4, <1>5, SentBelief DEF ThreadStep

LEMMA InitBInv == TopicsInit => BInv
<1>1. SUFFICES ASSUME TopicsInit PROVE BInv
  OBVIOUS
<1>2. requests = <<>> /\ Box = <<>> /\ \A t \in Topic : Client \notin subscribers[t]
  BY <1>1, TopicsAssumption DEF TopicsInit, TopicInit, Box
<1>3. DOMAIN requests = {} /\ DOMAIN Box = {}
  BY <1>2
<1>4. IdsOK
  BY <1>3 DEF IdsOK
<1>5. CalmOK
  BY <1>1 DEF TopicsInit, CalmOK
<1>6. BeliefOK
  BY <1>1, <1>2, <1>3 DEF TopicsInit, BeliefOK, Done, Quiet, NoPush, Left
<1> QED  BY <1>1, <1>4, <1>5, <1>6, InitStoredOK, InitTable DEF BInv

LEMMA NextBInv == BInv /\ [TopicsNext]_topicsVars => BInv'
<1>1. SUFFICES ASSUME BInv, [TopicsNext]_topicsVars PROVE BInv'
  OBVIOUS
<1>2. StoredOK' /\ TableInv'
  BY <1>1, NextStoredOK, NextTable DEF BInv
<1>3. ASSUME NEW th \in Thread, ThreadStep(th)
      PROVE  IdsOK' /\ CalmOK' /\ BeliefOK'
  BY <1>1, <1>3, ThreadStepIds, ThreadStepBelief DEF BInv
<1>4. CASE WireStep
  BY <1>1, <1>2, <1>4, WireStepIds, WireStepBelief DEF BInv
<1>5. CASE UNCHANGED topicsVars
  <2>1. UNCHANGED <<topicVars, router, threadVars, requests, ghostVars>>
    BY <1>5 DEF topicsVars
  <2>2. Box' = Box /\ UNCHANGED <<subscribers, gone, dropped, pc, call, count, reply, calm, belief>>
    BY <2>1 DEF Box, topicVars, threadVars, ghostVars
  <2>3. IdsOK'
    BY <1>1, <2>1, <2>2 DEF BInv, IdsOK
  <2>4. CalmOK' /\ BeliefOK'
    BY <1>1, <2>1, <2>2, KeptBelief DEF Joined, Left
  <2> QED  BY <1>2, <2>3, <2>4 DEF BInv
<1> QED  BY <1>1, <1>2, <1>3, <1>4, <1>5, StepsAre DEF BInv

\* A subscription or a cancellation that succeeded, with no other on its topic
\* meanwhile, is in force on both sides, for any threads, clients and topics
\* (topic.hpp:24-49, rpc_topic.hpp:77-152).
THEOREM BeliefHolds == TopicsSpec => []BeliefTrue
<1>1. BInv => BeliefTrue
  <2>1. SUFFICES ASSUME BInv, NEW t \in Topic
                 PROVE  /\ belief[t] = "in" =>
                             /\ t \in router
                             /\ Client \in subscribers[t] \/ t \in dropped \/ Client \in gone
                        /\ belief[t] = "out" =>
                             /\ t \notin router
                             /\ Client \notin subscribers[t]
                             /\ \A msg \in ToSet(outbox[Client]) : msg.op = "push" => msg.topic # t
    BY DEF BeliefTrue
  <2>2. CASE belief[t] = "in"
    BY <2>1, <2>2 DEF BInv, TableInv, HandlerOK, BeliefOK, Done, Joined
  <2>3. CASE belief[t] = "out"
    <3>1. Left(t) /\ NoPush(t, 0) /\ t \notin router
      BY <2>1, <2>3 DEF BInv, TableInv, HandlerOK, BeliefOK, Done
    <3>2. Box \in Seq(Message)
      BY <2>1, BoxKept DEF BInv
    <3>3. \A j \in DOMAIN Box : j > 0
      BY <3>2
    <3>4. \A msg \in ToSet(Box) : msg.op = "push" => msg.topic # t
      BY <3>1, <3>3 DEF ToSet, NoPush
    <3> QED  BY <2>3, <3>1, <3>4 DEF Left, Box
  <2> QED  BY <2>2, <2>3
<1> QED  BY <1>1, InitBInv, NextBInv, PTL DEF TopicsSpec

-----------------------------------------------------------------------------
(* Messages without a handler.                                              *)

\* The client is not at t, and nothing on the way changes that.
Out(t) == Done("cancel", t, TRUE, 0)

\* A topic that is not spoilt has its handler, or the client is out.
FoundOK == \A t \in Topic \ spoilt : t \in router \/ Out(t)

\* What the threads are about to do keeps it so.
HeldOK ==
  \A th \in Thread :
    /\ pc[th] \in Past /\ call[th].op = "subscribe" => call[th].topic \in router \cup spoilt
    /\ pc[th] # "idle" /\ call[th].op = "cancel" => call[th].topic \in spoilt
    /\ pc[th] = "dropping" /\ calm[th] => call[th].topic \in spoilt \/ Out(call[th].topic)

FInv == FoundOK /\ HeldOK

\* Whatever the server and the IO thread do, a client that is out stays out.
LEMMA OutKept == ASSUME BInv, WireStep, NEW t \in Topic, Out(t) PROVE Out(t)'
<1> USE DEF BInv
<1>1. CASE ReceiveAnswer \/ OnPublish
  <2>1. /\ UNCHANGED <<requests, subscribers, gone, dropped>>
        /\ Box # <<>> /\ Box' = Tail(Box)
    BY <1>1, BoxKept DEF ReceiveAnswer, OnPublish, Deliver, linkVars, ghostVars
  <2> QED  BY <2>1, DeliveredDone DEF Out
<1>2. CASE HandleRequest
  <2> DEFINE r == Head(requests)
  <2>1. /\ requests # <<>> /\ requests' = Tail(requests) /\ r = requests[1]
        /\ r.op \in Operation /\ r.topic \in Topic /\ r.id \in Id /\ Client \in Conn
        /\ OnTopicRequest(Client, r.op, r.topic, r.id) /\ Handled(Client, r.op, r.topic)
    BY <1>2, HeadIsRequest, TopicsAssumption
  <2> HIDE DEF r
  <2> QED  BY <2>1, HandledDone DEF Out
<1>3. ASSUME NEW c \in Conn, NEW o \in Operation, NEW u \in Topic, PeerRequest(c, o, u)
      PROVE  Out(t)'
  <2>1. /\ requests' = requests /\ c # Client /\ PeerId \in Id
        /\ OnTopicRequest(c, o, u, PeerId) /\ Handled(c, o, u)
    BY <1>3, TopicsAssumption DEF PeerRequest
  <2> QED  BY <2>1, HandledDone DEF Out
<1>4. ASSUME NEW c \in Conn, PeerReads(c) \/ PeerLeaves(c)
      PROVE  Out(t)'
  <2>1. UNCHANGED <<requests, dropped>> /\ c # Client /\ Box' = Box /\ gone \subseteq gone'
    BY <1>4, BoxKept DEF PeerReads, PeerLeaves, ghostVars, Deliver, OnShutDown
  <2>2. Client \in subscribers'[t] <=> Client \in subscribers[t]
    BY <1>4 DEF PeerReads, PeerLeaves, Deliver, OnShutDown, linkVars, StoredOK, TInv, LinkTypeOK
  <2> QED  BY <2>1, <2>2, KeptDone DEF Joined, Left, Out
<1>5. CASE ClientLeaves
  <2>1. requests' = <<>> /\ Box' = <<>> /\ Client \in gone' /\ Client \in Conn
    BY <1>5, BoxKept, TopicsAssumption DEF ClientLeaves, OnShutDown
  <2>2. StoredOK'
    BY <1>5, NextStoredOK DEF TopicsNext
  <2>3. Client \notin subscribers'[t]
    BY <2>1, <2>2 DEF StoredOK, TInv, LinksAgree
  <2>4. DOMAIN requests' = {} /\ DOMAIN Box' = {}
    BY <2>1
  <2> QED  BY <2>1, <2>3, <2>4, KeptDone DEF Joined, Left, Out
<1> QED  BY <1>1, <1>2, <1>3, <1>4, <1>5 DEF WireStep

LEMMA WireStepFound == ASSUME BInv, FInv, WireStep PROVE FInv'
<1>1. /\ UNCHANGED <<router, call, count, calm, spoilt>>
      /\ \A th \in Thread : pc'[th] = pc[th] \/ (pc[th] = "waiting" /\ pc'[th] = "answered")
  BY DEF WireStep, ReceiveAnswer, OnPublish, HandleRequest, ClientLeaves, PeerRequest,
         PeerReads, PeerLeaves, threadVars, ghostVars, BInv, StoredOK, ClientTypeOK
<1>2. \A t \in Topic : Out(t) => Out(t)'
  BY OutKept
<1>3. FoundOK'
  BY <1>1, <1>2 DEF FInv, FoundOK
<1>4. ASSUME NEW th \in Thread
      PROVE  /\ pc'[th] \in Past /\ call[th].op = "subscribe" => call[th].topic \in router \cup spoilt
             /\ pc'[th] # "idle" /\ call[th].op = "cancel" => call[th].topic \in spoilt
  BY <1>1 DEF FInv, HeldOK, Past
<1>5. ASSUME NEW th \in Thread, pc'[th] = "dropping", calm[th], NEW t, t = call[th].topic
      PROVE  t \in spoilt \/ Out(t)'
  <2>1. pc[th] = "dropping" /\ t \in Topic
    BY <1>1, <1>5 DEF BInv, StoredOK, InCallOK
  <2> QED  BY <1>2, <1>5, <2>1 DEF FInv, HeldOK
<1>6. HeldOK'
  BY <1>1, <1>4, <1>5 DEF HeldOK
<1> QED  BY <1>3, <1>6 DEF FInv

\* A thread's step that sends nothing leaves the client out where it is.
LEMMA InsideOut ==
  ASSUME UNCHANGED <<outbox, subscribers, gone, dropped, requests>>, NEW t, Out(t)
  PROVE  Out(t)'
BY DEF Out, Done, Quiet, NoPush, Joined, Left, Box

\* No other thread is at the topic of a thread that is calm.
LEMMA NobodyElse ==
  ASSUME TableInv, NEW th \in Thread, NEW u \in Thread, u # th, NEW t,
         calm[u], Moving(u, t), Moving(th, t)
  PROVE  FALSE
BY DEF TableInv, CalmAlone, Moving

LEMMA BeginFound ==
  ASSUME BInv, FInv, NEW th \in Thread, NEW o \in ClientOps, NEW t \in Topic, Begin(th, o, t)
  PROVE  FInv'
<1> USE DEF BInv, StoredOK, ClientTypeOK, FInv
<1>1. /\ UNCHANGED <<outbox, subscribers, gone, dropped, requests, router>>
      /\ pc' = [pc EXCEPT ![th] = Enter(o)]
      /\ call' = [call EXCEPT ![th] = [op |-> o, topic |-> t]]
      /\ \A u \in Thread \ {th} : calm'[u] => calm[u]
      /\ spoilt' = IF o = "cancel" THEN spoilt \cup {t} ELSE spoilt
  BY DEF Begin, topicVars
<1>2. Enter(o) # "dropping" /\ (o = "subscribe" => Enter(o) \notin Past)
  BY DEF Enter, Past
<1>3. \A x \in Topic : Out(x) => Out(x)'
  BY <1>1, InsideOut
<1>4. FoundOK'
  BY <1>1, <1>3 DEF FoundOK
<1>5. /\ pc'[th] = Enter(o) /\ call'[th] = [op |-> o, topic |-> t]
      /\ \A u \in Thread \ {th} : pc'[u] = pc[u] /\ call'[u] = call[u]
  BY <1>1
<1>6. ASSUME NEW u \in Thread
      PROVE  /\ pc'[u] \in Past /\ call'[u].op = "subscribe" => call'[u].topic \in router' \cup spoilt'
             /\ pc'[u] # "idle" /\ call'[u].op = "cancel" => call'[u].topic \in spoilt'
  <2>1. CASE u = th
    BY <1>1, <1>2, <1>5, <2>1
  <2>2. CASE u # th
    BY <1>1, <1>5, <2>2 DEF HeldOK
  <2> QED  BY <2>1, <2>2
<1>7. ASSUME NEW u \in Thread, pc'[u] = "dropping", calm'[u], NEW x, x = call'[u].topic
      PROVE  x \in spoilt' \/ Out(x)'
  <2>1. u # th /\ pc[u] = "dropping" /\ calm[u] /\ x = call[u].topic
    BY <1>1, <1>2, <1>5, <1>7
  <2>2. x \in Topic
    BY <2>1 DEF InCallOK
  <2>3. x \in spoilt \/ Out(x)
    BY <2>1 DEF HeldOK
  <2> QED  BY <1>1, <1>3, <2>2, <2>3
<1>8. HeldOK'
  BY <1>6, <1>7 DEF HeldOK
<1> QED  BY <1>4, <1>8

\* A thread that changes the table does so at its own topic; where it leaves a
\* handler out that others need, it spoils the topic.
LEMMA InsideFound ==
  ASSUME BInv, FInv, NEW th \in Thread, InsertHandler(th) \/ EraseHandler(th) \/ DropHandler(th)
  PROVE  FInv'
<1> USE DEF BInv, StoredOK, ClientTypeOK, FInv
<1> DEFINE t == call[th].topic
<1>1. UNCHANGED <<outbox, subscribers, gone, dropped, requests, call, calm>> /\ t \in Topic
  BY DEF InsertHandler, EraseHandler, DropHandler, topicVars, ghostVars, InCallOK
<1>2. /\ pc' = [pc EXCEPT ![th] = "sending"] \/ pc' = [pc EXCEPT ![th] = "idle"]
      /\ spoilt \subseteq spoilt' /\ \A x \in Topic \ {t} : x \in router' <=> x \in router
  BY DEF InsertHandler, EraseHandler, DropHandler, ghostVars
<1>3. \A x \in Topic : Out(x) => Out(x)'
  BY <1>1, InsideOut
<1>4. \A u \in Thread : pc[u] # "idle" => call[u].topic \in Topic
  BY DEF InCallOK
<1>5. \/ t \in router'
      \/ t \in spoilt'
      \/ pc[th] = "dropping" /\ pc'[th] = "idle" /\ calm[th] /\ Out(t)
  <2>1. CASE InsertHandler(th)
    BY <2>1 DEF InsertHandler
  <2>2. CASE EraseHandler(th)
    BY <2>2, <1>2 DEF EraseHandler, HeldOK, InCallOK
  <2>3. CASE DropHandler(th)
    BY <2>3, <1>2 DEF DropHandler, HeldOK
  <2> QED  BY <2>1, <2>2, <2>3
<1>6. FoundOK'
  BY <1>1, <1>2, <1>3, <1>5 DEF FoundOK
<1>7. \A u \in Thread \ {th} : pc'[u] = pc[u]
  BY <1>2
<1>8. pc[th] \in {"inserting", "erasing", "dropping"} /\ call[th].op \in Moves
  BY MovesAre DEF InsertHandler, EraseHandler, DropHandler, InCallOK
<1>9. ASSUME NEW u \in Thread, pc'[u] \in Past, call[u].op = "subscribe"
      PROVE  call[u].topic \in router' \cup spoilt'
  <2>1. CASE u = th
    <3>1. pc'[th] # "idle"
      BY <1>9, <2>1 DEF Past
    <3> QED  BY <1>5, <2>1, <3>1
  <2>2. CASE u # th
    <3>1. pc[u] \in Past /\ call[u].topic \in router \cup spoilt /\ call[u].topic \in Topic
      BY <1>4, <1>7, <1>9, <2>2 DEF HeldOK, Past
    <3>2. CASE call[u].topic = t /\ pc[th] = "dropping" /\ calm[th]
      <4>1. Moving(u, t) /\ Moving(th, t)
        BY <1>8, <1>9, <3>1, <3>2, MovesAre DEF Moving, Past
      <4> QED  BY <2>2, <3>2, <4>1, NobodyElse
    <3> QED  BY <1>2, <1>5, <3>1, <3>2
  <2> QED  BY <2>1, <2>2
<1>10. ASSUME NEW u \in Thread, pc'[u] # "idle", call[u].op = "cancel"
       PROVE  call[u].topic \in spoilt'
  BY <1>2, <1>7, <1>8, <1>10 DEF HeldOK
<1>11. ASSUME NEW u \in Thread, pc'[u] = "dropping", calm[u], NEW x, x = call[u].topic
       PROVE  x \in spoilt' \/ Out(x)'
  <2>1. pc[u] = "dropping" /\ x \in Topic
    BY <1>2, <1>4, <1>11
  <2> QED  BY <1>2, <1>3, <1>11, <2>1 DEF HeldOK
<1>12. HeldOK'
  BY <1>1, <1>9, <1>10, <1>11 DEF HeldOK
<1> QED  BY <1>6, <1>12

\* A thread sends its request when its handler is there.
LEMMA SendFound == ASSUME BInv, FInv, NEW th \in Thread, SendRequest(th) PROVE FInv'
<1> USE DEF BInv, StoredOK, ClientTypeOK, FInv
<1> DEFINE r == [op |-> call[th].op, topic |-> call[th].topic, id |-> <<th, count[th]>>]
<1>1. /\ pc[th] = "sending" /\ pc' = [pc EXCEPT ![th] = "waiting"]
      /\ UNCHANGED <<outbox, subscribers, gone, dropped, call, calm, router, spoilt>>
      /\ requests' = requests \/ requests' = Append(requests, r)
  BY DEF SendRequest, topicVars, ghostVars
<1>2. r \in Request /\ r.op = call[th].op /\ r.topic = call[th].topic
  BY <1>1, TopicsAssumption DEF Request, InCallOK
<1> HIDE DEF r
<1>3. \A i \in DOMAIN requests' : \/ i \in DOMAIN requests /\ requests'[i] = requests[i]
                                  \/ requests'[i] = r
  <2>1. CASE requests' = requests
    BY <2>1
  <2>2. CASE requests' = Append(requests, r)
    BY <1>2, <2>2, AppendFacts
  <2> QED  BY <1>1, <2>1, <2>2
<1>4. ASSUME NEW t \in Topic, Out(t), ~Moving(th, t)
      PROVE  Out(t)'
  <2>1. r.op \in Moves => r.topic # t
    BY <1>1, <1>2, <1>4 DEF Moving
  <2>2. Quiet(t)'
    BY <1>3, <1>4, <2>1 DEF Out, Done, Quiet
  <2> QED  BY <1>1, <1>4, <2>2 DEF Out, Done, NoPush, Left, Box
<1>5. ASSUME NEW t \in Topic, Moving(th, t)
      PROVE  t \in router \cup spoilt
  BY <1>1, <1>5, MovesAre DEF Moving, HeldOK, Past
<1>6. FoundOK'
  BY <1>1, <1>4, <1>5 DEF FoundOK
<1>7. ASSUME NEW u \in Thread
      PROVE  /\ pc'[u] \in Past /\ call[u].op = "subscribe" => call[u].topic \in router \cup spoilt
             /\ pc'[u] # "idle" /\ call[u].op = "cancel" => call[u].topic \in spoilt
  BY <1>1 DEF HeldOK, Past
<1>8. ASSUME NEW u \in Thread, pc'[u] = "dropping", calm[u], NEW x, x = call[u].topic
      PROVE  x \in spoilt \/ Out(x)'
  <2>1. u # th /\ pc[u] = "dropping" /\ x \in Topic /\ Moving(u, x)
    BY <1>1, <1>8, MovesAre DEF InCallOK, Moving
  <2>2. ~Moving(th, x)
    BY <1>8, <2>1, NobodyElse
  <2> QED  BY <1>4, <1>8, <2>1, <2>2 DEF HeldOK
<1>9. HeldOK'
  BY <1>1, <1>7, <1>8 DEF HeldOK
<1> QED  BY <1>6, <1>9

\* A call that ends with success is alone in clearing its topic, and one that is
\* refused has left the client out; a timeout spoils the topic.
LEMMA ReturnFound ==
  ASSUME BInv, FInv, NEW th \in Thread, NEW ok \in BOOLEAN, Return(th, ok),
         \/ /\ pc[th] = "answered" /\ ok = reply[th]
            /\ spoilt' = IF ok /\ call[th].op \in Moves /\ calm[th]
                           THEN spoilt \ {call[th].topic} ELSE spoilt
         \/ /\ pc[th] = "waiting" /\ ~ok
            /\ spoilt' = IF call[th].op = "subscribe" THEN spoilt \cup {call[th].topic} ELSE spoilt
  PROVE  FInv'
<1> USE DEF BInv, StoredOK, ClientTypeOK, FInv
<1> DEFINE t == call[th].topic
<1>1. /\ UNCHANGED <<outbox, subscribers, gone, dropped, requests, call, calm, router>> /\ t \in Topic
      /\ pc' = [pc EXCEPT ![th] = IF call[th].op = "subscribe" /\ ~ok THEN "dropping" ELSE "idle"]
  BY DEF Return, topicVars, InCallOK
<1>2. /\ pc'[th] = IF call[th].op = "subscribe" /\ ~ok THEN "dropping" ELSE "idle"
      /\ \A u \in Thread \ {th} : pc'[u] = pc[u]
  BY <1>1
<1>3. \A x \in Topic : Out(x) => Out(x)'
  BY <1>1, InsideOut
<1>4. \A x \in Topic : x \in spoilt /\ x \notin spoilt' =>
        /\ x = t /\ calm[th] /\ Moving(th, t) /\ (t \in router \/ Out(t))
  <2>1. ASSUME t \in spoilt, t \notin spoilt'
        PROVE  calm[th] /\ Moving(th, t) /\ (t \in router \/ Out(t))
    <3>1. pc[th] = "answered" /\ ok /\ reply[th] /\ call[th].op \in Moves /\ calm[th]
      BY <2>1
    <3>2. CASE call[th].op = "subscribe"
      BY <3>1, <3>2 DEF TableInv, HandlerOK, Past, Moving
    <3>3. CASE call[th].op = "cancel"
      <4>1. Done(call[th].op, t, reply[th], 0)
        BY <3>1 DEF CalmOK
      <4> QED  BY <3>1, <3>3, <4>1 DEF Moving, Out, Done
    <3> QED  BY <3>1, <3>2, <3>3, MovesAre
  <2>2. \A x \in Topic : x # t => (x \in spoilt' <=> x \in spoilt)
    OBVIOUS
  <2> QED  BY <2>1, <2>2
<1>5. FoundOK'
  BY <1>1, <1>3, <1>4 DEF FoundOK
<1>6. ASSUME NEW u \in Thread \ {th}, NEW x \in Topic, Moving(u, x)
      PROVE  x \in spoilt => x \in spoilt'
  BY <1>4, <1>6, NobodyElse
<1>7. ASSUME NEW u \in Thread \ {th}, pc[u] # "idle", call[u].op \in Moves
      PROVE  Moving(u, call[u].topic) /\ call[u].topic \in Topic
  BY <1>7 DEF Moving, InCallOK
<1>8. ASSUME NEW u \in Thread
      PROVE  /\ pc'[u] \in Past /\ call[u].op = "subscribe" => call[u].topic \in router \cup spoilt'
             /\ pc'[u] # "idle" /\ call[u].op = "cancel" => call[u].topic \in spoilt'
  <2>1. CASE u = th
    BY <1>2, <2>1 DEF Past
  <2>2. CASE u # th
    BY <1>2, <1>6, <1>7, <2>2, MovesAre DEF HeldOK, Past
  <2> QED  BY <2>1, <2>2
<1>9. ASSUME NEW u \in Thread, pc'[u] = "dropping", calm[u], NEW x, x = call[u].topic
      PROVE  x \in spoilt' \/ Out(x)'
  <2>1. CASE u = th
    <3>1. call[th].op = "subscribe" /\ ~ok /\ x = t
      BY <1>2, <1>9, <2>1
    <3>2. CASE pc[th] = "waiting"
      BY <3>1, <3>2
    <3>3. CASE pc[th] = "answered" /\ ok = reply[th]
      <4>1. Done(call[th].op, t, reply[th], 0)
        BY <1>9, <2>1, <3>1, <3>3, MovesAre DEF CalmOK
      <4>2. Out(t)
        BY <3>1, <3>3, <4>1 DEF Out, Done
      <4> QED  BY <1>1, <1>3, <3>1, <4>2
    <3> QED  BY <3>2, <3>3
  <2>2. CASE u # th
    <3>1. pc[u] = "dropping" /\ x \in Topic /\ Moving(u, x)
      BY <1>2, <1>9, <2>2, MovesAre DEF InCallOK, Moving
    <3>2. x \in spoilt \/ Out(x)
      BY <1>9, <3>1 DEF HeldOK
    <3> QED  BY <1>3, <1>6, <2>2, <3>1, <3>2
  <2> QED  BY <2>1, <2>2
<1>10. HeldOK'
  BY <1>1, <1>8, <1>9 DEF HeldOK
<1> QED  BY <1>5, <1>10

LEMMA NextFInv == ASSUME BInv, FInv, [TopicsNext]_topicsVars PROVE FInv'
<1>1. ASSUME NEW th \in Thread, ThreadStep(th)
      PROVE  FInv'
  <2>1. CASE Wake(th)
    <3>1. reply[th] \in BOOLEAN
      BY DEF BInv, StoredOK, ClientTypeOK
    <3> QED  BY <2>1, <3>1, ReturnFound DEF Wake
  <2>2. CASE Expire(th)
    BY <2>2, ReturnFound DEF Expire
  <2> QED  BY <1>1, <2>1, <2>2, BeginFound, InsideFound, SendFound DEF ThreadStep
<1>2. CASE WireStep
  BY <1>2, WireStepFound
<1>3. CASE UNCHANGED topicsVars
  <2>1. UNCHANGED <<outbox, subscribers, gone, dropped, requests, router, pc, call, calm, spoilt>>
    BY <1>3 DEF topicsVars, topicVars, threadVars, ghostVars
  <2>2. ASSUME NEW t, Out(t) PROVE Out(t)'
    BY <2>1, <2>2, InsideOut
  <2>3. FoundOK'
    BY <2>1, <2>2 DEF FInv, FoundOK
  <2>4. ASSUME NEW u \in Thread, pc[u] = "dropping", calm[u], NEW x, x = call[u].topic
        PROVE  x \in spoilt \/ Out(x)'
    BY <2>2, <2>4 DEF FInv, HeldOK
  <2>5. HeldOK'
    BY <2>1, <2>4 DEF FInv, HeldOK
  <2> QED  BY <2>3, <2>5 DEF FInv
<1> QED  BY <1>1, <1>2, <1>3, StepsAre

LEMMA InitFInv == TopicsInit => FInv
<1>1. SUFFICES ASSUME TopicsInit PROVE FInv
  OBVIOUS
<1>2. DOMAIN requests = {} /\ DOMAIN Box = {} /\ \A t \in Topic : Client \notin subscribers[t]
  <2>1. requests = <<>> /\ Box = <<>> /\ \A t \in Topic : Client \notin subscribers[t]
    BY <1>1, TopicsAssumption DEF TopicsInit, TopicInit, Box
  <2> QED  BY <2>1
<1>3. FoundOK
  BY <1>2 DEF FoundOK, Out, Done, Quiet, NoPush, Left
<1>4. HeldOK
  BY <1>1 DEF TopicsInit, HeldOK, Past
<1> QED  BY <1>3, <1>4 DEF FInv

\* A message that finds no handler, while nobody is at the table, is of a topic
\* that the client has itself begun to cancel, or to which a subscription timed
\* out or failed beside another (topic.hpp:36-58).
THEOREM HandlersFound == TopicsSpec => []HandlerUnlessSpoilt
<1>1. BInv /\ FInv => HandlerUnlessSpoilt
  <2>1. SUFFICES ASSUME BInv, FInv, Box # <<>>, Head(Box).op = "push"
                 PROVE  Head(Box).topic \in router \cup spoilt
    BY DEF HandlerUnlessSpoilt, Box
  <2>2. Head(Box) \in Message /\ Head(Box) = Box[1] /\ 1 \in DOMAIN Box /\ 1 > 0
    BY <2>1, BoxKept, TailFacts DEF BInv
  <2>3. Head(Box).topic \in Topic
    BY <2>1, <2>2 DEF Message
  <2>4. ~NoPush(Head(Box).topic, 0)
    BY <2>1, <2>2 DEF NoPush
  <2> QED  BY <2>1, <2>3, <2>4 DEF FInv, FoundOK, Out, Done
<1>2. BInv /\ FInv /\ [TopicsNext]_topicsVars => (BInv /\ FInv)'
  BY NextBInv, NextFInv
<1>3. TopicsInit => BInv /\ FInv
  BY InitBInv, InitFInv
<1> QED  BY <1>1, <1>2, <1>3, PTL DEF TopicsSpec

\* Everything the client and the server store has its type.
THEOREM TopicsTypes == TopicsSpec => []TopicsTypeOK
<1>1. StoredOK => TopicsTypeOK
  BY DEF StoredOK, TInv, LinkTypeOK, MailTypeOK, ClientTypeOK, InCallOK, TopicsTypeOK, TopicTypeOK,
         PcStates, Request
<1> QED  BY <1>1, InitStoredOK, NextStoredOK, PTL DEF TopicsSpec

=============================================================================
