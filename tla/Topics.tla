-------------------------------- MODULE Topics --------------------------------
(***************************************************************************)
(* One client of the topic server (client/topic.hpp, TopicClient in        *)
(* client/rpc_client.hpp): its threads create, remove, subscribe, cancel   *)
(* and publish, each waiting for the answer; its one IO thread takes the   *)
(* server's messages off the connection in order and gives a message of a  *)
(* topic to the handler registered for it.                                 *)
(*                                                                         *)
(* The threads change the table of handlers under a lock which the IO      *)
(* thread does not take when it looks a handler up (topic.hpp:56).  The    *)
(* outcome of such a data race is undefined: no property speaks of a       *)
(* lookup while a thread is changing the table (Writing), and behaviours   *)
(* in which the client crashes end where it does.                          *)
(***************************************************************************)
EXTENDS TopicServer

CONSTANTS
  Client,       \* the client's connection to the server
  Thread,       \* the client's threads
  MaxCalls,     \* bound: calls per thread
  ClientOps,    \* the operations the threads use, of those there are
  PeerId        \* the id of every request of another client

ASSUME TopicsAssumption ==
  /\ Client \in Conn
  /\ Id = (Thread \X (1..MaxCalls)) \cup {PeerId}
  /\ ClientOps \subseteq Operation
  /\ MaxCalls \in Nat

VARIABLES
  router,       \* the keys of _publish_router
  pc,           \* pc[th]: where thread th is in TopicManager
  call,         \* call[th]: the operation and the topic of th's last call
  count,        \* count[th]: calls it began
  reply,        \* reply[th]: whether its last call was answered with RCODE_OK
  requests,     \* what the client sent that the server has not read
  calm,         \* calm[th]: no other call on the topic since th's began
  belief,       \* belief[t]: what a calm call has told the client last
  cancelled,    \* topics that some thread has begun to cancel
  spoilt,       \* topics whose handler the client may have forgotten
  dropped       \* topics removed since the client was subscribed to them

threadVars == <<pc, call, count, reply>>
ghostVars  == <<calm, belief, cancelled, spoilt, dropped>>
topicsVars == <<topicVars, router, threadVars, requests, ghostVars>>

TopicsTypeOK ==
  /\ TopicTypeOK
  /\ router \subseteq Topic
  /\ \A th \in Thread :
       /\ pc[th] \in {"idle", "inserting", "erasing", "sending", "waiting", "answered", "dropping"}
       /\ call[th] \in [op : ClientOps, topic : Topic] \cup {<<>>}
       /\ count[th] \in 0..MaxCalls
       /\ pc[th] \in {"inserting", "dropping"} => call[th].op = "subscribe"
       /\ pc[th] = "erasing" => call[th].op = "cancel"
  /\ reply \in [Thread -> BOOLEAN]
  /\ requests \in Seq([op : ClientOps, topic : Topic, id : Id])
  /\ calm \in [Thread -> BOOLEAN]
  /\ belief \in [Topic -> {"in", "out", "unknown"}]
  /\ cancelled \subseteq Topic /\ spoilt \subseteq Topic /\ dropped \subseteq Topic

TopicsInit ==
  /\ TopicInit
  /\ router = {}
  /\ pc = [th \in Thread |-> "idle"]
  /\ call = [th \in Thread |-> <<>>]
  /\ count = [th \in Thread |-> 0]
  /\ reply = [th \in Thread |-> FALSE]
  /\ requests = <<>>
  /\ calm = [th \in Thread |-> FALSE]
  /\ belief = [t \in Topic |-> "out"]
  /\ cancelled = {} /\ spoilt = {} /\ dropped = {}

-----------------------------------------------------------------------------
(* The threads.                                                            *)

\* The calls that change what the client is subscribed to.
Moves == {"subscribe", "cancel"}

Moving(th, t) == pc[th] # "idle" /\ call[th].topic = t /\ call[th].op \in Moves

\* Mutated Enter: the request is sent before there is a handler.
Enter_SendsFirst(o) == IF o = "cancel" THEN "erasing" ELSE "sending"

\* What an operation does first: subscribeTopic registers the handler and
\* cancelTopic forgets it, each in a critical section of its own.
Enter(o) == CASE o = "subscribe" -> "inserting" [] o = "cancel" -> "erasing" [] OTHER -> "sending"

Begin(th, o, t) ==
  /\ pc[th] = "idle" /\ count[th] < MaxCalls /\ Client \notin gone
  /\ pc' = [pc EXCEPT ![th] = Enter(o)]
  /\ call' = [call EXCEPT ![th] = [op |-> o, topic |-> t]]
  /\ count' = [count EXCEPT ![th] = @ + 1]
  /\ IF o \in Moves
       THEN /\ calm' = [u \in Thread |->
                 IF u = th THEN \A v \in Thread \ {th} : ~Moving(v, t)
                           ELSE calm[u] /\ ~Moving(u, t)]
            /\ belief' = [belief EXCEPT ![t] = "unknown"]
       ELSE UNCHANGED <<calm, belief>>
  /\ cancelled' = IF o = "cancel" THEN cancelled \cup {t} ELSE cancelled
  /\ spoilt' = IF o = "cancel" THEN spoilt \cup {t} ELSE spoilt
  /\ UNCHANGED <<topicVars, router, reply, requests, dropped>>

\* insert keeps a handler that is there already.
InsertHandler(th) ==
  /\ pc[th] = "inserting"
  /\ pc' = [pc EXCEPT ![th] = "sending"]
  /\ router' = router \cup {call[th].topic}
  /\ UNCHANGED <<topicVars, call, count, reply, requests, ghostVars>>

\* Mutated EraseHandler: cancelTopic leaves the handler where it is.
EraseHandler_Kept(th) ==
  /\ pc[th] = "erasing"
  /\ pc' = [pc EXCEPT ![th] = "sending"]
  /\ UNCHANGED <<router, topicVars, call, count, reply, requests, ghostVars>>

EraseHandler(th) ==
  /\ pc[th] = "erasing"
  /\ pc' = [pc EXCEPT ![th] = "sending"]
  /\ router' = router \ {call[th].topic}
  /\ UNCHANGED <<topicVars, call, count, reply, requests, ghostVars>>

\* What is sent on a closed connection is lost.
SendRequest(th) ==
  /\ pc[th] = "sending"
  /\ pc' = [pc EXCEPT ![th] = "waiting"]
  /\ requests' = IF Client \in gone THEN requests ELSE
       Append(requests, [op |-> call[th].op, topic |-> call[th].topic, id |-> <<th, count[th]>>])
  /\ UNCHANGED <<topicVars, router, call, count, reply, ghostVars>>

\* What the client has learnt from a call on t that ended with ok.
Learn(th, t, ok) ==
  belief' = IF ok /\ call[th].op \in Moves /\ calm[th]
              THEN [belief EXCEPT ![t] = IF call[th].op = "subscribe" THEN "in" ELSE "out"]
              ELSE belief

\* Mutated Return: whatever failed, the handler is dropped.
Return_DropsAlways(th, ok) ==
  /\ pc' = [pc EXCEPT ![th] = IF ~ok THEN "dropping" ELSE "idle"]
  /\ reply' = [reply EXCEPT ![th] = FALSE]
  /\ Learn(th, call[th].topic, ok)
  /\ UNCHANGED <<topicVars, router, call, count, requests, calm, cancelled, dropped>>

\* The call ends with ok; a subscription that failed drops its handler first.
Return(th, ok) ==
  /\ pc' = [pc EXCEPT ![th] =
       IF call[th].op = "subscribe" /\ ~ok THEN "dropping" ELSE "idle"]
  /\ reply' = [reply EXCEPT ![th] = FALSE]
  /\ Learn(th, call[th].topic, ok)
  /\ UNCHANGED <<topicVars, router, call, count, requests, calm, cancelled, dropped>>

Wake(th) ==
  /\ pc[th] = "answered"
  /\ Return(th, reply[th])
  /\ spoilt' = IF reply[th] /\ call[th].op \in Moves /\ calm[th]
                 THEN spoilt \ {call[th].topic} ELSE spoilt

\* Requestor::send gives up waiting.
Expire(th) ==
  /\ pc[th] = "waiting"
  /\ Return(th, FALSE)
  /\ spoilt' = IF call[th].op = "subscribe" THEN spoilt \cup {call[th].topic} ELSE spoilt

DropHandler(th) ==
  /\ pc[th] = "dropping"
  /\ pc' = [pc EXCEPT ![th] = "idle"]
  /\ router' = router \ {call[th].topic}
  /\ spoilt' = IF calm[th] THEN spoilt ELSE spoilt \cup {call[th].topic}
  /\ UNCHANGED <<topicVars, call, count, reply, requests, calm, belief, cancelled, dropped>>

-----------------------------------------------------------------------------
(* The IO thread takes the next message off the connection.                *)

\* Requestor::onResponse: the thread gets its answer if it still waits.
ReceiveAnswer ==
  LET msg == Head(outbox[Client])
      th  == msg.id[1]
  IN /\ Deliver(Client)
     /\ msg.op = "answer"
     /\ IF pc[th] = "waiting" /\ msg.id = <<th, count[th]>>
          THEN /\ pc' = [pc EXCEPT ![th] = "answered"]
               /\ reply' = [reply EXCEPT ![th] = msg.ok]
          ELSE UNCHANGED <<pc, reply>>
     /\ UNCHANGED <<router, call, count, requests, ghostVars>>

\* onPublish: the handler is run, or the message is dropped for want of one;
\* neither leaves a trace in the client.
OnPublish ==
  /\ Deliver(Client)
  /\ Head(outbox[Client]).op = "push"
  /\ UNCHANGED <<router, threadVars, requests, ghostVars>>

-----------------------------------------------------------------------------
(* The server and its other clients.                                       *)

Handled(c, o, t) ==
  dropped' = CASE o = "remove" -> dropped \cup {t}
               [] c = Client /\ o = "subscribe" /\ t \in topics -> dropped \ {t}
               [] OTHER -> dropped

HandleRequest ==
  /\ Room /\ requests # <<>>
  /\ LET r == Head(requests)
     IN /\ OnTopicRequest(Client, r.op, r.topic, r.id)
        /\ Handled(Client, r.op, r.topic)
  /\ requests' = Tail(requests)
  /\ UNCHANGED <<router, threadVars, calm, belief, cancelled, spoilt>>

PeerRequest(c, o, t) ==
  /\ Room /\ c # Client
  /\ OnTopicRequest(c, o, t, PeerId)
  /\ Handled(c, o, t)
  /\ UNCHANGED <<router, threadVars, requests, calm, belief, cancelled, spoilt>>

PeerReads(c) ==
  /\ c # Client
  /\ Deliver(c)
  /\ UNCHANGED <<router, threadVars, requests, ghostVars>>

PeerLeaves(c) ==
  /\ c # Client
  /\ OnShutDown(c)
  /\ UNCHANGED <<router, threadVars, requests, ghostVars>>

\* The client's connection is lost with the requests on it; the threads that
\* wait will time out, and no call can begin any more.
ClientLeaves ==
  /\ OnShutDown(Client)
  /\ requests' = <<>>
  /\ UNCHANGED <<router, threadVars, ghostVars>>

TopicsNext ==
  \/ \E th \in Thread, o \in ClientOps, t \in Topic : Begin(th, o, t)
  \/ \E th \in Thread : \/ InsertHandler(th) \/ EraseHandler(th) \/ SendRequest(th)
                        \/ Wake(th) \/ Expire(th) \/ DropHandler(th)
  \/ ReceiveAnswer \/ OnPublish
  \/ HandleRequest \/ ClientLeaves
  \/ \E c \in Conn, o \in Operation, t \in Topic : PeerRequest(c, o, t)
  \/ \E c \in Conn : PeerReads(c) \/ PeerLeaves(c)

TopicsSpec == TopicsInit /\ [][TopicsNext]_topicsVars

-----------------------------------------------------------------------------
(* What the client may rely on.                                            *)

\* A subscription that succeeded, with no other on its topic meanwhile, is
\* in force: there is a handler, and the server lists the client unless the
\* topic was removed.  A cancellation that succeeded is complete: no handler
\* is left, no message is under way and none will be sent (topic.hpp:24-49).
BeliefTrue ==
  \A t \in Topic :
    /\ belief[t] = "in" =>
         /\ t \in router
         /\ Client \in subscribers[t] \/ t \in dropped \/ Client \in gone
    /\ belief[t] = "out" =>
         /\ t \notin router
         /\ Client \notin subscribers[t]
         /\ \A msg \in ToSet(outbox[Client]) : msg.op = "push" => msg.topic # t

\* A thread is inside a critical section of the table of handlers.
Writing == \E th \in Thread : pc[th] \in {"inserting", "erasing", "dropping"}

\* What topic.hpp:37 says subscribeTopic prevents: that a message of a topic
\* the client has subscribed to, and has not cancelled, comes in and finds
\* no handler although nobody is changing the table.
HandlerBeforeMessage ==
  outbox[Client] # <<>> /\ Head(outbox[Client]).op = "push" /\ ~Writing
    => Head(outbox[Client]).topic \in router \cup cancelled

\* When such a message does find no handler, the client has begun to cancel the
\* topic since a calm call on it last succeeded, or a subscription to it timed
\* out, or one failed that was not alone at the topic: two threads share one
\* handler, and the one that is refused erases it for both (topic.hpp:40, :46).
\* A refusal alone never does it, nor does the order of messages and answers,
\* what other clients do, or a request that comes late.
HandlerUnlessSpoilt ==
  outbox[Client] # <<>> /\ Head(outbox[Client]).op = "push" /\ ~Writing
    => Head(outbox[Client]).topic \in router \cup spoilt
=============================================================================
