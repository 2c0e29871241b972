-------------------------------- MODULE PubSub --------------------------------
(***************************************************************************)
(* What the topic server promises: one relation says who belongs to which  *)
(* topic, a message published to a topic goes once to each of its members  *)
(* and to nobody else, and every request gets one answer, after whatever   *)
(* it made the server send.                                                *)
(***************************************************************************)
EXTENDS Sequences

CONSTANTS Conn, Topic, Id   \* connections, names of topics, ids of requests

VARIABLES
  topics,     \* the topics there are
  members,    \* the pairs of a connection and a topic it belongs to
  gone,       \* closed connections
  inbox       \* inbox[c]: what is on its way to the client behind c

pubSubVars == <<topics, members, gone, inbox>>

Init ==
  /\ topics = {}
  /\ members = {}
  /\ gone = {}
  /\ inbox = [c \in Conn |-> <<>>]

\* c gets an answer after the members of t in R have got the message.
Tell(c, t, id, ok, R) ==
  inbox' = [d \in Conn |->
    inbox[d] \o (IF d \in R THEN <<[op |-> "push", topic |-> t, id |-> id]>> ELSE <<>>)
             \o (IF d = c THEN <<[op |-> "answer", id |-> id, ok |-> ok]>> ELSE <<>>)]

Create(c, t, id) ==
  /\ Tell(c, t, id, TRUE, {})
  /\ topics' = topics \cup {t}
  /\ UNCHANGED members

Remove(c, t, id) ==
  /\ Tell(c, t, id, TRUE, {})
  /\ topics' = topics \ {t}
  /\ members' = members \ (Conn \X {t})

Join(c, t, id) ==
  /\ Tell(c, t, id, TRUE, {})
  /\ t \in topics
  /\ members' = members \cup {<<c, t>>}
  /\ UNCHANGED topics

Leave(c, t, id) ==
  /\ Tell(c, t, id, TRUE, {})
  /\ members' = members \ {<<c, t>>}
  /\ UNCHANGED topics

Publish(c, t, id) ==
  /\ Tell(c, t, id, TRUE, {d \in Conn : <<d, t>> \in members})
  /\ t \in topics
  /\ UNCHANGED <<topics, members>>

\* Nobody can join, or publish to, a topic there is not.
Refuse(c, t, id) ==
  /\ Tell(c, t, id, FALSE, {})
  /\ t \notin topics
  /\ UNCHANGED <<topics, members>>

\* Whatever the request, c is told the result.
Handle(c, t, id) ==
  /\ c \notin gone
  /\ inbox'[c] # inbox[c]
  /\ \/ Create(c, t, id) \/ Remove(c, t, id)
     \/ Join(c, t, id) \/ Leave(c, t, id)
     \/ Publish(c, t, id) \/ Refuse(c, t, id)
  /\ UNCHANGED gone

Close(c) ==
  /\ c \notin gone
  /\ gone' = gone \cup {c}
  /\ members' = members \ ({c} \X Topic)
  /\ inbox' = [inbox EXCEPT ![c] = <<>>]
  /\ UNCHANGED topics

Read(c) ==
  /\ inbox[c] # <<>>
  /\ inbox' = [inbox EXCEPT ![c] = Tail(@)]
  /\ UNCHANGED <<topics, members, gone>>

Next ==
  \/ \E c \in Conn, t \in Topic, id \in Id : Handle(c, t, id)
  \/ \E c \in Conn : Close(c) \/ Read(c)

Spec == Init /\ [][Next]_pubSubVars
=============================================================================
