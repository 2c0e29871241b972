------------------------------ MODULE Connection ------------------------------
(***************************************************************************)
(* One connection between a MuduoClient and a MuduoServer                  *)
(* (network/network.hpp): how it is set up and taken down at both ends, and *)
(* how RpcProtocol cuts messages out of the bytes TCP brings.              *)
(*                                                                         *)
(* Each end is served by one thread, the client's IO thread and the        *)
(* server's event loop; Arrive, LoopStep, OnConnected and OnDisconnected   *)
(* are its steps.  The receive loop is the same at both ends.  The client's *)
(* application is a thread of its own.  TCP keeps the order of the bytes   *)
(* and cuts them anywhere.  Messages of a type that MessageFactory does not *)
(* know are never sent.                                                    *)
(***************************************************************************)
EXTENDS Naturals, Sequences, SequencesExt

CONSTANTS
  Client, Server,
  Base,         \* the values of a byte are 0..Base-1
  IntLen,       \* bytes of an int32_t: _headLen, _typeLen and _idLen
  MaxLen,       \* msgMaxLen
  Message,      \* the messages sent: [type, id, body], the last two in bytes
  MaxSends      \* bound: messages sent in all

End == {Client, Server}
Byte == 0..(Base - 1)
Peer(e) == IF e = Client THEN Server ELSE Client

VARIABLES
  state,        \* state[e]: muduo's: "new", "up", "half" (no longer writing), "down"
  known,        \* known[e]: e has a ConnectionBase: _conn, an entry of _connections
  latch,        \* the count of the client's _cdl
  crashed,      \* the application used a null _conn
  wire,         \* wire[e]: bytes on their way to e
  eof,          \* eof[e]: nothing follows wire[e]
  buffer,       \* buffer[e]: the bytes e has read
  reading,      \* reading[e]: e is in MessageCallBack
  sent,         \* sent[e]: messages sent to e, as they were
  handled,      \* handled[e]: messages e gave to its _message_call_back
  refused,      \* the ends whose loop found the buffer too long
  broken        \* the connection was lost

lifeVars == <<state, known, latch, crashed, refused, broken>>
dataVars == <<wire, eof, buffer, reading, sent, handled>>
vars == <<lifeVars, dataVars>>

-----------------------------------------------------------------------------
(* RpcProtocol.                                                            *)

\* Base^n.
Power[n \in 0..IntLen] == IF n = 0 THEN 1 ELSE Base * Power[n - 1]

\* An int32_t in network order; the lengths and types sent are not negative.
Int32(n) == [i \in 1..IntLen |-> (n \div Power[IntLen - i]) % Base]

\* The int32_t at the i-th integer field of a message.
Field(buf, i) ==
  FoldLeft(LAMBDA n, b : n * Base + b, 0, SubSeq(buf, i * IntLen + 1, (i + 1) * IntLen))

\* Mutated Serialize: the body goes before the id.
Serialize_BodyFirst(m) ==
  Int32(2 * IntLen + Len(m.id) + Len(m.body)) \o Int32(m.type) \o Int32(Len(m.id))
    \o m.body \o m.id

\* headLen counts what follows it.
Serialize(m) ==
  Int32(2 * IntLen + Len(m.id) + Len(m.body)) \o Int32(m.type) \o Int32(Len(m.id))
    \o m.id \o m.body

ASSUME ConnectionAssumption ==
  /\ Client # Server
  /\ Base \in Nat \ {0, 1} /\ IntLen \in Nat \ {0} /\ MaxLen \in Nat /\ MaxSends \in Nat
  /\ Message \subseteq [type : Nat, id : Seq(Byte), body : Seq(Byte)]
  /\ \A m \in Message : m.type < Power[IntLen] /\ Len(Serialize(m)) < Power[IntLen]

CanProceed(buf) ==
  /\ Len(buf) >= IntLen
  /\ Len(buf) >= Field(buf, 0) + IntLen

\* Mutated RecieveAmessage: the body ends where it would if headLen counted
\* itself.
RecieveAmessage_ShortBody(buf) ==
  LET start == 3 * IntLen + Field(buf, 2)
      end   == IF Field(buf, 0) > start THEN Field(buf, 0) ELSE start
  IN [msg  |-> [type |-> Field(buf, 1),
                id   |-> SubSeq(buf, 3 * IntLen + 1, start),
                body |-> SubSeq(buf, start + 1, end)],
      rest |-> SubSeq(buf, end + 1, Len(buf))]

\* The first message of a buffer, and what it leaves there.
RecieveAmessage(buf) ==
  LET start == 3 * IntLen + Field(buf, 2)
      end   == IntLen + Field(buf, 0)
  IN [msg  |-> [type |-> Field(buf, 1),
                id   |-> SubSeq(buf, 3 * IntLen + 1, start),
                body |-> SubSeq(buf, start + 1, end)],
      rest |-> SubSeq(buf, end + 1, Len(buf))]

-----------------------------------------------------------------------------
Open(e) == state[e] \in {"up", "half"}

\* The thread of e is back in its event loop.
Idle(e) == Open(e) /\ ~reading[e] /\ (e = Client => latch = 0)

TypeOK ==
  /\ state \in [End -> {"new", "up", "half", "down"}]
  /\ known \in [End -> BOOLEAN]
  /\ latch \in {0, 1}
  /\ crashed \in BOOLEAN
  /\ wire \in [End -> Seq(Byte)] /\ buffer \in [End -> Seq(Byte)]
  /\ eof \in [End -> BOOLEAN] /\ reading \in [End -> BOOLEAN]
  /\ sent \in [End -> Seq(Message)] /\ handled \in [End -> Seq(Message)]
  /\ refused \subseteq End
  /\ broken \in BOOLEAN
  /\ \A e \in End : /\ reading[e] => Open(e) /\ known[e]
                    /\ e \in refused => state[e] \in {"half", "down"}

Init ==
  /\ state = [e \in End |-> "new"]
  /\ known = [e \in End |-> FALSE]
  /\ latch = 1
  /\ crashed = FALSE
  /\ wire = [e \in End |-> <<>>] /\ buffer = [e \in End |-> <<>>]
  /\ eof = [e \in End |-> FALSE] /\ reading = [e \in End |-> FALSE]
  /\ sent = [e \in End |-> <<>>] /\ handled = [e \in End |-> <<>>]
  /\ refused = {}
  /\ broken = FALSE

-----------------------------------------------------------------------------
(* ConnectionCallBack.                                                     *)

OnConnected(e) ==
  /\ state[e] = "new"
  /\ state' = [state EXCEPT ![e] = "up"]
  /\ known' = [known EXCEPT ![e] = TRUE]
  /\ UNCHANGED <<latch, crashed, refused, broken, dataVars>>

\* Mutated CountDown: connect returns before _conn is there.
CountDown_First ==
  /\ latch = 1
  /\ latch' = 0
  /\ UNCHANGED <<state, known, crashed, refused, broken, dataVars>>

\* The client's callback then lets connect() return.
CountDown ==
  /\ known[Client] /\ latch = 1
  /\ latch' = 0
  /\ UNCHANGED <<state, known, crashed, refused, broken, dataVars>>

\* Mutated OnDisconnected: the server keeps its entry of _connections.
OnDisconnected_KeepsEntry(e) ==
  /\ Idle(e) /\ wire[e] = <<>> /\ eof[e]
  /\ state' = [state EXCEPT ![e] = "down"]
  /\ known' = [known EXCEPT ![e] = e = Server]
  /\ buffer' = [buffer EXCEPT ![e] = <<>>]
  /\ eof' = [eof EXCEPT ![Peer(e)] = TRUE]
  /\ \E n \in 0..Len(wire[Peer(e)]) :
       wire' = [wire EXCEPT ![Peer(e)] = SubSeq(@, 1, n)]
  /\ UNCHANGED <<latch, crashed, refused, broken, reading, sent, handled>>

\* e has read everything: it closes, at once.  The part of a message in its
\* buffer is lost, and so is what it has sent but muduo not yet written.
OnDisconnected(e) ==
  /\ Idle(e) /\ wire[e] = <<>> /\ eof[e]
  /\ state' = [state EXCEPT ![e] = "down"]
  /\ known' = [known EXCEPT ![e] = FALSE]
  /\ buffer' = [buffer EXCEPT ![e] = <<>>]
  /\ eof' = [eof EXCEPT ![Peer(e)] = TRUE]
  /\ \E n \in 0..Len(wire[Peer(e)]) :
       wire' = [wire EXCEPT ![Peer(e)] = SubSeq(@, 1, n)]
  /\ UNCHANGED <<latch, crashed, refused, broken, reading, sent, handled>>

-----------------------------------------------------------------------------
(* MessageCallBack, the same at both ends but for the server's look-up.    *)

\* Some of the bytes on their way are added to the buffer, and the callback
\* is called.
Arrive(e) ==
  /\ Idle(e)
  /\ \E n \in 1..Len(wire[e]) :
       /\ buffer' = [buffer EXCEPT ![e] = @ \o SubSeq(wire[e], 1, n)]
       /\ wire' = [wire EXCEPT ![e] = SubSeq(@, n + 1, Len(@))]
  /\ reading' = [reading EXCEPT ![e] = TRUE]
  /\ UNCHANGED <<lifeVars, eof, sent, handled>>

\* TcpConnection::shutdown: e writes no more, and reads on.
ShutDown(e) ==
  /\ state' = [state EXCEPT ![e] = IF @ = "up" THEN "half" ELSE @]
  /\ eof' = [eof EXCEPT ![Peer(e)] = TRUE]

\* Mutated TooLong: whole messages count too.
TooLong_Any(buf) == Len(buf) >= MaxLen

TooLong(buf) == ~CanProceed(buf) /\ Len(buf) >= MaxLen

Refuse(e) ==
  /\ reading[e] /\ TooLong(buffer[e])
  /\ ShutDown(e)
  /\ reading' = [reading EXCEPT ![e] = FALSE]
  /\ refused' = refused \cup {e}
  /\ UNCHANGED <<known, latch, crashed, broken, wire, buffer, sent, handled>>

\* Mutated Stop: one message for each call.
Stop_AfterOne(e) ==
  /\ reading[e] /\ ~TooLong(buffer[e])
  /\ reading' = [reading EXCEPT ![e] = FALSE]
  /\ UNCHANGED <<lifeVars, wire, eof, buffer, sent, handled>>

Stop(e) ==
  /\ reading[e] /\ ~CanProceed(buffer[e]) /\ ~TooLong(buffer[e])
  /\ reading' = [reading EXCEPT ![e] = FALSE]
  /\ UNCHANGED <<lifeVars, wire, eof, buffer, sent, handled>>

\* A message leaves the buffer and goes to the handler of e.  The server's
\* look-up of the connection succeeds: reading[e] => known[e] in TypeOK.
HandleMessage(e) ==
  /\ reading[e] /\ CanProceed(buffer[e])
  /\ buffer' = [buffer EXCEPT ![e] = RecieveAmessage(@).rest]
  /\ handled' = [handled EXCEPT ![e] = Append(@, RecieveAmessage(buffer[e]).msg)]
  /\ UNCHANGED <<lifeVars, wire, eof, reading, sent>>

LoopStep(e) == HandleMessage(e) \/ Refuse(e) \/ Stop(e)

-----------------------------------------------------------------------------
(* Who uses the connection.                                                *)

\* RpcConnection::send; on a connection that is not up it does nothing.
Transmit(e, m) ==
  /\ state[e] = "up"
  /\ Len(sent[Client]) + Len(sent[Server]) < MaxSends
  /\ sent' = [sent EXCEPT ![Peer(e)] = Append(@, m)]
  /\ wire' = IF broken THEN wire ELSE [wire EXCEPT ![Peer(e)] = @ \o Serialize(m)]
  /\ UNCHANGED <<lifeVars, eof, buffer, reading, handled>>

\* The application takes connection() once connect() has returned; a
\* handler of the server has its connection.
Send(e, m) == (e = Client => latch = 0 /\ known[Client]) /\ Transmit(e, m)

\* The application uses connection() as TopicClient does, without asking
\* whether it is connected, or after it has asked.
UseNull ==
  /\ latch = 0 /\ ~known[Client] /\ ~crashed
  /\ crashed' = TRUE
  /\ UNCHANGED <<state, known, latch, refused, broken, dataVars>>

\* The application's shutDown().
Disconnect ==
  /\ latch = 0 /\ state[Client] = "up"
  /\ ShutDown(Client)
  /\ UNCHANGED <<known, latch, crashed, refused, broken, wire, buffer, reading, sent, handled>>

\* The connection is reset: all that is under way is lost, and both ends get
\* to know.  A loss that nobody notices leaves the ends as they are.
Break ==
  /\ ~broken /\ \E e \in End : Open(e)
  /\ broken' = TRUE
  /\ wire' = [e \in End |-> <<>>]
  /\ eof' = [e \in End |-> TRUE]
  /\ UNCHANGED <<state, known, latch, crashed, refused, buffer, reading, sent, handled>>

Next ==
  \/ \E e \in End : OnConnected(e) \/ OnDisconnected(e) \/ Arrive(e) \/ LoopStep(e)
  \/ \E e \in End, m \in Message : Send(e, m)
  \/ CountDown \/ UseNull \/ Disconnect \/ Break

Spec == Init /\ [][Next]_vars

\* The two threads run, and the network delivers what it does not lose.
\* Once one end is connected the other's callback comes; that the client
\* connects at all is not assumed.
Fairness ==
  /\ WF_vars(CountDown)
  /\ \A e \in End :
       /\ WF_vars(state[Peer(e)] # "new" /\ OnConnected(e))
       /\ WF_vars(Arrive(e))
       /\ WF_vars(LoopStep(e))
       /\ WF_vars(OnDisconnected(e))

FairSpec == Spec /\ Fairness

-----------------------------------------------------------------------------
\* The handlers of an end get the messages that were sent to it, whole, once
\* and in order, however the bytes were cut and whichever end closes when
\* (network.hpp:70-131, :243-284, :366-395).
HandledAsSent == \A e \in End : IsPrefix(handled[e], sent[e])

\* An end shuts a connection down for a long buffer only if somebody sent it
\* a message longer than the limit: any number of short ones read at once
\* never add up to one, and one of exactly the limit passes
\* (network.hpp:248-256, :371-379).
ShortNeverRefused ==
  \A e \in refused : \E m \in ToSet(sent[e]) : Len(Serialize(m)) > MaxLen

\* After connect() the application meets a null connection only if the
\* connection has closed since (the comment at network.hpp:353).
NullOnlyAfterClose == crashed => state[Client] = "down"

\* A message that was sent is handled in the end, unless the connection was
\* lost, its receiver refused something, or the client was closing it: none
\* stays in a buffer until the next one comes, and a client that shuts down
\* takes nothing back that it has sent (network.hpp:246, :312).
EventuallyHandled ==
  \A e \in End : \A n \in 1..MaxSends :
    Len(sent[e]) >= n ~>
      \/ Len(handled[e]) >= n
      \/ broken \/ e \in refused
      \/ e = Client /\ state[Client] \in {"half", "down"}

\* Once an end shuts down or loses the connection both ends close it, and
\* neither the server's map nor the client's _conn keeps it
\* (network.hpp:223-241, :356-364).
ClosedAtBothEnds ==
  (\E e \in End : state[e] \in {"half", "down"}) ~>
    (\A e \in End : state[e] = "down" /\ ~known[e])
=============================================================================
