------------------------------ MODULE Requestor ------------------------------
(***************************************************************************)
(* The client's request table (client/requestor.hpp) together with the     *)
(* dispatcher lock its response handler runs under                         *)
(* (network/dispatcher.hpp) and the connections it is shared by.           *)
(*                                                                         *)
(* Threads.  Every request is sent by a thread of the application, or by   *)
(* the user's callback of another request, which runs on the IO thread of  *)
(* the connection the answer came in on.  Every connection has its own IO  *)
(* thread (MuduoClient::_thread); RpcClient shares one Requestor and one   *)
(* Dispatcher among the connections of its pool, so at most one IO thread  *)
(* is inside a handler at a time: the one that holds Dispatcher::_lock.    *)
(*                                                                         *)
(* Abstractions.  A request is its own id (Uuid::uuid).  Messages on the   *)
(* wire are sets: TCP keeps their order, but ids are distinct and the      *)
(* table does not depend on the order.  Bodies are left out.               *)
(***************************************************************************)
EXTENDS Naturals

CONSTANTS
  SyncReq,        \* requests sent with send(conn, msg, resp, timeout_ms)
  FutureReq,      \* requests sent with send(conn, msg, future)
  CallbackReq,    \* requests sent with send(conn, msg, callback)
  Conn,           \* the client's connections, each with its IO thread
  NotifyOnClose,  \* whether the close callback calls notifyDisconnect();
                  \* FALSE is the wiring of client/rpc_client.hpp
  None

Req == SyncReq \cup FutureReq \cup CallbackReq
PromiseReq == SyncReq \cup FutureReq      \* ReqType::REQ_ASYNC

ASSUME RequestorAssumption ==
  /\ SyncReq \cap FutureReq = {}
  /\ CallbackReq \cap PromiseReq = {}
  /\ None \notin Req \cup Conn
  /\ NotifyOnClose \in BOOLEAN

VARIABLES
  pc,         \* pc[r]: how far the thread sending r is
  via,        \* via[r]: the connection r is sent on
  table,      \* the keys of _requests_desc
  promise,    \* promise[r]: the state of r's RequestDesc::_response
  calls,      \* calls[r]: how often r's _call_back was entered
  requests,   \* requests on their way to the server
  served,     \* requests the server has executed
  responses,  \* responses on their way to the client
  up,         \* connections the client has not seen closed
  ioAt,       \* where the IO thread holding Dispatcher::_lock is, "idle" if none
  ioReq,      \* the request it handles the response of
  nested,     \* the request the running user callback is sending
  crashed     \* an exception left an IO thread: the process is gone

sendVars == <<pc, via, nested>>
descVars == <<table, promise, calls>>
wireVars == <<requests, served, responses, up>>
ioVars   == <<ioAt, ioReq>>
vars     == <<sendVars, descVars, wireVars, ioVars, crashed>>

Returned == {"ok", "failed", "threw"}
PC == {"idle", "called", "inserted", "sent", "waiting", "expired"} \cup Returned
IoAt == {"idle", "found", "running", "finishing"}

\* The types of the variables; a request under way has a connection, and the
\* holder of the lock has a request in hand.
TypeOK ==
  /\ pc \in [Req -> PC]
  /\ via \in [Req -> Conn \cup {None}]
  /\ \A r \in Req : pc[r] # "idle" => via[r] \in Conn
  /\ table \subseteq Req
  /\ promise \in [Req -> {"unset", "value", "exception"}]
  /\ calls \in [Req -> Nat]
  /\ requests \subseteq Req
  /\ served \subseteq Req
  /\ responses \subseteq Req
  /\ up \subseteq Conn
  /\ ioAt \in IoAt
  /\ ioReq \in Req \cup {None}
  /\ ioAt = "idle" <=> ioReq = None
  /\ nested \in Req \cup {None}
  /\ crashed \in BOOLEAN

Init ==
  /\ pc = [r \in Req |-> "idle"]
  /\ via = [r \in Req |-> None]
  /\ table = {}
  /\ promise = [r \in Req |-> "unset"]
  /\ calls = [r \in Req |-> 0]
  /\ requests = {}
  /\ served = {}
  /\ responses = {}
  /\ up = Conn
  /\ ioAt = "idle"
  /\ ioReq = None
  /\ nested = None
  /\ crashed = FALSE

-----------------------------------------------------------------------------
(* The thread that sends r.                                                *)

Step(r, from, to) ==
  /\ pc[r] = from
  /\ pc' = [pc EXCEPT ![r] = to]

\* Mutated Call: connection() of a client whose connection is gone.
Call_Null(r, c) ==
  /\ Step(r, "idle", "called")
  /\ c \notin up
  /\ UNCHANGED <<via, nested, descVars, wireVars, ioVars>>

\* An application thread takes the connection of a connected client and
\* calls send on it.  The connection may be closed before send uses it.
Call(r, c) ==
  /\ Step(r, "idle", "called")
  /\ c \in up
  /\ via' = [via EXCEPT ![r] = c]
  /\ UNCHANGED <<nested, descVars, wireVars, ioVars>>

\* The same, from inside a user callback: the IO thread itself sends r.
\* Bound: one request per run of a callback.
CallNested(r, c) ==
  /\ ioAt = "running" /\ nested = None
  /\ Step(r, "idle", "called")
  /\ c \in up
  /\ via' = [via EXCEPT ![r] = c]
  /\ nested' = r
  /\ UNCHANGED <<descVars, wireVars, ioVars>>

InsertDesc(r) ==
  /\ Step(r, "called", "inserted")
  /\ table' = table \cup {r}
  /\ UNCHANGED <<via, nested, promise, calls, wireVars, ioVars>>

\* conn->send(msg): muduo drops the data of a connection that is gone.  The
\* overload that takes a callback returns here.
Send(r) ==
  /\ Step(r, "inserted", IF r \in CallbackReq THEN "ok" ELSE "sent")
  /\ requests' = IF via[r] \in up THEN requests \cup {r} ELSE requests
  /\ UNCHANGED <<via, nested, descVars, served, responses, up, ioVars>>

\* resp = desc->_response.get_future(), after the request has left: the
\* answer may already be in the promise.  The future overload returns here.
GetFuture(r) ==
  /\ Step(r, "sent", IF r \in FutureReq THEN "ok" ELSE "waiting")
  /\ UNCHANGED <<via, nested, descVars, wireVars, ioVars>>

\* wait_for sees the promise satisfied; get() returns the value or throws.
Wake(r) ==
  /\ promise[r] # "unset"
  /\ Step(r, "waiting", IF promise[r] = "value" THEN "ok" ELSE "threw")
  /\ UNCHANGED <<via, nested, descVars, wireVars, ioVars>>

\* Mutated Expire: the wait has no timeout, as before maintain.md's fix four.
Expire_Never(r) == FALSE /\ UNCHANGED <<sendVars, descVars, wireVars, ioVars>>

\* wait_for runs out of time.  The answer may still arrive before the next
\* step; send returns false all the same.
Expire(r) ==
  /\ promise[r] = "unset"
  /\ Step(r, "waiting", "expired")
  /\ UNCHANGED <<via, nested, descVars, wireVars, ioVars>>

\* Mutated RemoveExpired: the timeout fails the promise as well.
RemoveExpired_Fails(r) ==
  /\ Step(r, "expired", "failed")
  /\ table' = table \ {r}
  /\ promise' = [promise EXCEPT ![r] = "exception"]
  /\ UNCHANGED <<via, nested, calls, wireVars, ioVars>>

\* Mutated RemoveExpired: send gives up without removing its entry.
RemoveExpired_Keeps(r) ==
  /\ Step(r, "expired", "failed")
  /\ UNCHANGED <<via, nested, descVars, wireVars, ioVars>>

RemoveExpired(r) ==
  /\ Step(r, "expired", "failed")
  /\ table' = table \ {r}
  /\ UNCHANGED <<via, nested, promise, calls, wireVars, ioVars>>

-----------------------------------------------------------------------------
(* The server, as the client sees it: every request it gets is executed    *)
(* and answered once, under the request's id (RpcRouter::onRpcRequest).    *)

Serve(r) ==
  /\ r \in requests
  /\ requests' = requests \ {r}
  /\ served' = served \cup {r}
  /\ responses' = responses \cup {r}
  /\ UNCHANGED <<up, sendVars, descVars, ioVars>>

-----------------------------------------------------------------------------
(* The IO threads.                                                         *)

\* Mutated OnResponse: the dispatcher does not hold its lock over the
\* handler, so that an answer gets to a request sent by a running callback.
OnResponse_NoLock(r) ==
  /\ ioAt = "idle" \/ r = nested
  /\ r \in responses
  /\ responses' = responses \ {r}
  /\ IF r \in table
       THEN IF ioAt = "idle"
              THEN ioAt' = "found" /\ ioReq' = r /\ UNCHANGED promise
              ELSE promise' = [promise EXCEPT ![r] = "value"] /\ UNCHANGED ioVars
       ELSE UNCHANGED <<ioVars, promise>>
  /\ UNCHANGED <<requests, served, up, sendVars, table, calls>>

\* Mutated OnResponse: any answer settles whichever request it finds.
OnResponse_Any(r) ==
  /\ ioAt = "idle"
  /\ r \in responses
  /\ responses' = responses \ {r}
  /\ IF table # {}
       THEN ioAt' = "found" /\ ioReq' \in table
       ELSE UNCHANGED ioVars
  /\ UNCHANGED <<requests, served, up, sendVars, descVars>>

\* The dispatcher takes its lock and calls onResponse, which looks the
\* request up.  An answer nobody waits for is dropped.
OnResponse(r) ==
  /\ ioAt = "idle"
  /\ r \in responses
  /\ responses' = responses \ {r}
  /\ IF r \in table
       THEN ioAt' = "found" /\ ioReq' = r
       ELSE UNCHANGED ioVars
  /\ UNCHANGED <<requests, served, up, sendVars, descVars>>

\* Mutated SetValue: the answer replaces whatever the promise holds.
SetValue_Overwrites ==
  /\ ioAt = "found" /\ ioReq \in PromiseReq
  /\ promise' = [promise EXCEPT ![ioReq] = "value"]
  /\ ioAt' = "finishing"
  /\ UNCHANGED <<ioReq, sendVars, table, calls, wireVars>>

\* Mutated SetValue: the answer never reaches the promise.
SetValue_Forgets ==
  /\ ioAt = "found" /\ ioReq \in PromiseReq
  /\ promise[ioReq] = "unset"
  /\ ioAt' = "finishing"
  /\ UNCHANGED <<ioReq, sendVars, descVars, wireVars>>

SetValue ==
  /\ ioAt = "found" /\ ioReq \in PromiseReq
  /\ promise[ioReq] = "unset"
  /\ promise' = [promise EXCEPT ![ioReq] = "value"]
  /\ ioAt' = "finishing"
  /\ UNCHANGED <<ioReq, sendVars, table, calls, wireVars>>

RunCallback ==
  /\ ioAt = "found" /\ ioReq \in CallbackReq
  /\ calls' = [calls EXCEPT ![ioReq] = @ + 1]
  /\ ioAt' = "running"
  /\ UNCHANGED <<ioReq, sendVars, table, promise, wireVars>>

\* The user's callback returns once the request it sent, if any, has.
ReturnCallback ==
  /\ ioAt = "running"
  /\ nested # None => pc[nested] \in Returned
  /\ nested' = None
  /\ ioAt' = "finishing"
  /\ UNCHANGED <<ioReq, pc, via, descVars, wireVars>>

RemoveAnswered ==
  /\ ioAt = "finishing"
  /\ table' = table \ {ioReq}
  /\ ioAt' = "idle" /\ ioReq' = None
  /\ UNCHANGED <<promise, calls, sendVars, wireVars>>

\* Mutated NotifyDisconnect: the table is cleared and no promise settled.
NotifyDisconnect_OnlyClears ==
  /\ table' = {}
  /\ UNCHANGED promise

\* Every promise of the table gets an exception, a second one is swallowed;
\* then the table is cleared, the requests with a callback included.
NotifyDisconnect ==
  /\ promise' = [r \in Req |-> IF r \in table \cap PromiseReq /\ promise[r] = "unset"
                                 THEN "exception" ELSE promise[r]]
  /\ table' = {}

\* The client sees c closed: what was under way on it is lost.  The IO
\* thread of c does this, so not while it is inside a handler.
Close(c) ==
  /\ c \in up
  /\ ioAt # "idle" => via[ioReq] # c
  /\ up' = up \ {c}
  /\ requests' = {r \in requests : via[r] # c}
  /\ responses' = {r \in responses : via[r] # c}
  /\ IF NotifyOnClose THEN NotifyDisconnect ELSE UNCHANGED <<table, promise>>
  /\ UNCHANGED <<served, calls, sendVars, ioVars>>

\* set_value on a satisfied promise throws std::future_error, which nothing
\* between onResponse and the event loop catches.
SetValueThrows ==
  /\ ioAt = "found" /\ ioReq \in PromiseReq
  /\ promise[ioReq] # "unset"
  /\ crashed' = TRUE
  /\ UNCHANGED <<sendVars, descVars, wireVars, ioVars>>

-----------------------------------------------------------------------------
SendStep(r) ==
  \/ InsertDesc(r) \/ Send(r) \/ GetFuture(r)
  \/ Wake(r) \/ Expire(r) \/ RemoveExpired(r)

HandlerStep == SetValue \/ RunCallback \/ ReturnCallback \/ RemoveAnswered

Running ==
  \/ \E r \in Req, c \in Conn : Call(r, c) \/ CallNested(r, c)
  \/ \E r \in Req : SendStep(r) \/ Serve(r) \/ OnResponse(r)
  \/ HandlerStep
  \/ \E c \in Conn : Close(c)

Next == ~crashed /\ (SetValueThrows \/ (Running /\ UNCHANGED crashed))

Spec == Init /\ [][Next]_vars

\* The threads of the process are scheduled and wait_for returns in time.
\* The server is not assumed to answer.
ThreadStep(r) == ~crashed /\ SendStep(r) /\ UNCHANGED crashed
IoStep(r) == ~crashed /\ OnResponse(r) /\ UNCHANGED crashed
DispatchStep == ~crashed /\ HandlerStep /\ UNCHANGED crashed

Fairness ==
  /\ \A r \in Req : WF_vars(ThreadStep(r)) /\ WF_vars(IoStep(r))
  /\ WF_vars(DispatchStep)

FairSpec == Spec /\ Fairness

-----------------------------------------------------------------------------
(* What the request table has to get right.                                *)

\* No promise is satisfied twice.  With notifyDisconnect wired as maintain.md
\* asks, this is false for a table that serves several connections.
NoCrash == ~crashed

\* onResponse holds no lock of the table between find and set_value
\* (requestor.hpp:34, :42).  What can satisfy the promise in that gap, so that
\* set_value throws, is one thing only: notifyDisconnect for the loss of
\* another connection than the one the answer came in on.  The timeout, a
\* second answer and the loss of the answer's own connection never do.
OnlyOtherLossCrashes ==
  crashed =>
    /\ NotifyOnClose
    /\ ioReq \notin table /\ promise[ioReq] = "exception"
    /\ \E c \in Conn \ up : c # via[ioReq]

\* A thread that is waiting, or is about to, and whose promise is unset is in
\* the table: nobody removes an entry whose waiter could still be woken.
AwaitedIsRegistered ==
  \A r \in PromiseReq :
    (pc[r] \in {"inserted", "sent", "waiting"} /\ promise[r] = "unset") => r \in table

\* Once a request is settled (answered, timed out or failed) its entry is
\* gone, or is being removed by the handler that answered it
\* (requestor.hpp:51, :95).
Settled(r) ==
  \/ promise[r] # "unset"
  \/ r \in SyncReq /\ pc[r] \in Returned
  \/ r \in CallbackReq /\ calls[r] > 0
SettledLeavesTable ==
  \A r \in table : Settled(r) => ioReq = r /\ ioAt \in {"running", "finishing"}

\* A synchronous call made from inside a user callback cannot succeed: its
\* answer needs Dispatcher::_lock, which the callback's IO thread holds until
\* the call has failed (dispatcher.hpp:42-49).
NestedSyncFails == nested \in SyncReq => pc[nested] # "ok"

\* Every send returns, whether or not the server answers and whatever
\* happens to the connection (maintain.md, fix four).
SendReturns == \A r \in Req : pc[r] = "called" ~> pc[r] \in Returned

\* Dispatcher::_lock is always given back: no callback, not even one that
\* waits for an answer, stops the answers of the other requests for good.
LockReleased == (ioAt # "idle") ~> (ioAt = "idle")

\* An answer that has come in for a future or a callback gets there, unless
\* its connection is lost first.
AnswersDelivered ==
  /\ \A r \in FutureReq :
       (r \in responses \cap table) ~> (promise[r] # "unset" \/ via[r] \notin up)
  /\ \A r \in CallbackReq :
       (r \in responses \cap table) ~> (calls[r] > 0 \/ via[r] \notin up)

\* What requestor.hpp:102 says of a lost connection: the asynchronous
\* requests pending on it are all given an exception.
DisconnectSettlesPending ==
  \A r \in FutureReq :
    []((pc[r] = "ok" /\ via[r] \in up)
         => [](via[r] \notin up => <>(promise[r] # "unset")))

-----------------------------------------------------------------------------
(* The table implements at-most-once calls.  A synchronous call ends when   *)
(* send returns, one with a future when its promise is satisfied, one with  *)
(* a callback when the callback is entered, or when notifyDisconnect drops  *)
(* it unseen.                                                               *)

Dropped(r) ==
  /\ pc[r] \in {"inserted", "ok"}
  /\ r \notin table
  /\ ~(ioAt = "found" /\ ioReq = r)

CallStatus(r) ==
  IF pc[r] = "idle" THEN "idle"
  ELSE IF r \in SyncReq
    THEN IF pc[r] = "ok" THEN "completed"
         ELSE IF pc[r] \in Returned THEN "failed" ELSE "open"
  ELSE IF r \in FutureReq
    THEN IF promise[r] = "value" THEN "completed"
         ELSE IF promise[r] = "exception" THEN "failed" ELSE "open"
  ELSE IF calls[r] > 0 THEN "completed"
       ELSE IF Dropped(r) THEN "failed" ELSE "open"

callStatus == [r \in Req |-> CallStatus(r)]

Calls == INSTANCE AtMostOnceCall WITH status <- callStatus

\* Every call completes or fails at most once, and completes only if the
\* server has executed it.
CallsSpec == Calls!Spec
=============================================================================
