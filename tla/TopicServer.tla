------------------------------ MODULE TopicServer ------------------------------
(***************************************************************************)
(* The topic server (server/rpc_topic.hpp).  Membership is kept twice: a   *)
(* Topic lists its subscribers, and a Subscriber lists its topics so that  *)
(* a closed connection can be taken out of them.                           *)
(*                                                                         *)
(* The server runs one event loop and no further threads, so a handler is  *)
(* one step, the answer it ends with included.  A Subscriber object is its *)
(* connection; one that has no topics is the same as none at all, as every *)
(* operation does the same for both.                                       *)
(***************************************************************************)
EXTENDS Naturals, Sequences, SequencesExt

CONSTANTS
  Conn,         \* connections to the server
  Topic,        \* names of topics
  Id,           \* ids of requests
  MaxOutbox     \* bound: messages under way when a request is handled

ASSUME TopicAssumption == MaxOutbox \in Nat

VARIABLES
  topics,       \* the keys of _topics
  subscribers,  \* subscribers[t]: Topic::subscribers, empty if t has no Topic
  subscribed,   \* subscribed[c]: Subscriber::topics
  gone,         \* connections that were closed; one never comes back
  outbox        \* outbox[c]: messages on their way to the client behind c

topicVars == <<topics, subscribers, subscribed, gone, outbox>>
linkVars  == <<topics, subscribers, subscribed>>

Answer(id, ok) == [op |-> "answer", id |-> id, ok |-> ok]
Push(t, id) == [op |-> "push", topic |-> t, id |-> id]

Message == [op : {"answer"}, id : Id, ok : BOOLEAN] \cup [op : {"push"}, topic : Topic, id : Id]

\* The types.
TopicTypeOK ==
  /\ topics \subseteq Topic
  /\ subscribers \in [Topic -> SUBSET Conn]
  /\ subscribed \in [Conn -> SUBSET Topic]
  /\ gone \subseteq Conn
  /\ outbox \in [Conn -> Seq(Message)]

TopicInit ==
  /\ topics = {}
  /\ subscribers = [t \in Topic |-> {}]
  /\ subscribed = [c \in Conn |-> {}]
  /\ gone = {}
  /\ outbox = [c \in Conn |-> <<>>]

-----------------------------------------------------------------------------
(* onTopicRequest, by the operation it is asked for.                       *)

Respond(c, id, ok) == outbox' = [outbox EXCEPT ![c] = Append(@, Answer(id, ok))]

\* Mutated CreateTopic: a topic that is there is replaced by a new one.
CreateTopic_Replaces(c, t, id) ==
  /\ topics' = topics \cup {t}
  /\ subscribers' = [subscribers EXCEPT ![t] = {}]
  /\ Respond(c, id, TRUE)
  /\ UNCHANGED subscribed

\* insert leaves a topic that is there, and its subscribers, alone.
CreateTopic(c, t, id) ==
  /\ topics' = topics \cup {t}
  /\ Respond(c, id, TRUE)
  /\ UNCHANGED <<subscribers, subscribed>>

\* The Topic goes, after its subscribers have forgotten it.
RemoveTopic(c, t, id) ==
  /\ topics' = topics \ {t}
  /\ subscribers' = [subscribers EXCEPT ![t] = {}]
  /\ subscribed' = [d \in Conn |->
       IF d \in subscribers[t] THEN subscribed[d] \ {t} ELSE subscribed[d]]
  /\ Respond(c, id, TRUE)

SubscribeTopic(c, t, id) ==
  /\ t \in topics
  /\ subscribed' = [subscribed EXCEPT ![c] = @ \cup {t}]
  /\ subscribers' = [subscribers EXCEPT ![t] = @ \cup {c}]
  /\ Respond(c, id, TRUE)
  /\ UNCHANGED topics

\* Without such a topic or such a subscriber there is nothing to undo, and
\* the answer is the same.
CancelTopic(c, t, id) ==
  /\ IF t \in topics
       THEN /\ subscribers' = [subscribers EXCEPT ![t] = @ \ {c}]
            /\ subscribed' = [subscribed EXCEPT ![c] = @ \ {t}]
       ELSE UNCHANGED <<subscribers, subscribed>>
  /\ Respond(c, id, TRUE)
  /\ UNCHANGED topics

\* pushMessage forwards the request itself to every subscriber, the
\* publisher included if it is one; the answer comes after.
PublishMsg(c, t, id) ==
  /\ t \in topics
  /\ outbox' = [d \in Conn |->
       outbox[d] \o (IF d \in subscribers[t] THEN <<Push(t, id)>> ELSE <<>>)
                 \o (IF d = c THEN <<Answer(id, TRUE)>> ELSE <<>>)]
  /\ UNCHANGED linkVars

\* responseErr to a subscription or a publication: there is no such topic.
ResponseErr(c, t, id) ==
  /\ t \notin topics
  /\ Respond(c, id, FALSE)
  /\ UNCHANGED linkVars

Operation == {"create", "remove", "subscribe", "cancel", "publish"}

OnTopicRequest(c, o, t, id) ==
  /\ c \notin gone
  /\ \/ o = "create" /\ CreateTopic(c, t, id)
     \/ o = "remove" /\ RemoveTopic(c, t, id)
     \/ o = "subscribe" /\ SubscribeTopic(c, t, id)
     \/ o = "cancel" /\ CancelTopic(c, t, id)
     \/ o = "publish" /\ PublishMsg(c, t, id)
     \/ o \in {"subscribe", "publish"} /\ ResponseErr(c, t, id)
  /\ UNCHANGED gone

\* Mutated OnShutDown: only the Subscriber is erased.
OnShutDown_KeepsMember(c) ==
  /\ c \notin gone
  /\ gone' = gone \cup {c}
  /\ subscribed' = [subscribed EXCEPT ![c] = {}]
  /\ outbox' = [outbox EXCEPT ![c] = <<>>]
  /\ UNCHANGED <<topics, subscribers>>

\* The topics that the Subscriber lists lose it, the others are not looked
\* at.  What is on its way to c is lost with the connection.
OnShutDown(c) ==
  /\ c \notin gone
  /\ gone' = gone \cup {c}
  /\ subscribers' = [t \in Topic |->
       IF t \in subscribed[c] \cap topics THEN subscribers[t] \ {c} ELSE subscribers[t]]
  /\ subscribed' = [subscribed EXCEPT ![c] = {}]
  /\ outbox' = [outbox EXCEPT ![c] = <<>>]
  /\ UNCHANGED topics

\* The client behind c takes a message off its connection.
Deliver(c) ==
  /\ outbox[c] # <<>>
  /\ outbox' = [outbox EXCEPT ![c] = Tail(@)]
  /\ UNCHANGED <<linkVars, gone>>

Room == \A c \in Conn : Len(outbox[c]) < MaxOutbox

TopicNext ==
  \/ /\ Room
     /\ \E c \in Conn, o \in Operation, t \in Topic, id \in Id : OnTopicRequest(c, o, t, id)
  \/ \E c \in Conn : OnShutDown(c) \/ Deliver(c)

TopicSpec == TopicInit /\ [][TopicNext]_topicVars

\* The two sides of a membership agree; a topic that is not there has no
\* subscribers and a closed connection is none, whatever was created,
\* removed, subscribed, cancelled and closed in which order: a one-sided
\* link is a message to a dead connection, or a subscriber left out for good
\* (rpc_topic.hpp:30-54, :77-152).
LinksAgree ==
  /\ \A c \in Conn, t \in Topic : c \in subscribers[t] <=> t \in subscribed[c]
  /\ \A t \in Topic \ topics : subscribers[t] = {}
  /\ \A c \in gone : subscribed[c] = {}

\* Membership as the subscribers list it, while messages go to those whom
\* the topics list: the abstract server has but one relation.
Abstract == INSTANCE PubSub WITH
  members <- {p \in Conn \X Topic : p[2] \in subscribed[p[1]]},
  inbox   <- outbox

\* The topic server does what PubSub promises: who gets a message, who gets
\* which answer, and in which order.
PubSubSpec == Abstract!Spec
=============================================================================
