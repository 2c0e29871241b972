--------------------------- MODULE RequestorProofs ---------------------------
(***************************************************************************)
(* Theorems of Requestor and RpcCaller, for any sets of requests, any      *)
(* connections and any result codes, with or without notifyDisconnect.     *)
(* Those of Requestor all rest on one inductive invariant, IInv.           *)
(***************************************************************************)
EXTENDS RpcCaller, TLAPS

-----------------------------------------------------------------------------
(* The inductive invariant: the checked invariants with what they rest on. *)

\* A request nobody has put in the table yet has left no trace.
Fresh ==
  /\ \A r \in Req : pc[r] \in {"idle", "called"} =>
       /\ r \notin table \cup requests \cup responses
       /\ r # ioReq
       /\ promise[r] = "unset"
       /\ calls[r] = 0
  /\ \A r \in Req : pc[r] = "inserted" => r \notin requests

\* Where the thread of a request of each kind can be.
Kinds ==
  \A r \in Req :
    /\ pc[r] = "sent" => r \in PromiseReq
    /\ pc[r] \in {"waiting", "expired", "failed", "threw"} => r \in SyncReq

\* Nothing is settled by an answer before the server has given one.
ServedFirst ==
  /\ responses \subseteq served
  /\ ioReq # None => ioReq \in served
  /\ \A r \in Req : promise[r] = "value" \/ calls[r] > 0 => r \in served

\* A handler past its middle has settled its request, and only a request
\* with a callback has one running.
HandlerSettles ==
  /\ ioAt = "running" => ioReq \in CallbackReq
  /\ ioAt \in {"running", "finishing"} /\ ioReq \in CallbackReq => calls[ioReq] > 0
  /\ ioAt = "finishing" /\ ioReq \in PromiseReq => promise[ioReq] # "unset"

\* While a callback runs no answer is handled, its own calls' included.
NestedUnanswered ==
  nested # None => ioAt = "running" /\ promise[nested] # "value"

IInv ==
  /\ TypeOK
  /\ Fresh
  /\ Kinds
  /\ ServedFirst
  /\ HandlerSettles
  /\ NestedUnanswered
  /\ AwaitedIsRegistered
  /\ SettledLeavesTable
  /\ NestedSyncFails

LEMMA InitIInv == Init => IInv
<1> SUFFICES ASSUME Init PROVE IInv
  OBVIOUS
<1> USE RequestorAssumption DEF Init
<1>1. TypeOK
  BY DEF TypeOK, PC, IoAt, Returned
<1>2. Fresh /\ Kinds /\ NestedUnanswered
  BY DEF Fresh, Kinds, NestedUnanswered, Returned, Req
<1>3. ServedFirst /\ HandlerSettles
  BY DEF ServedFirst, HandlerSettles
<1>4. AwaitedIsRegistered /\ SettledLeavesTable
  BY DEF AwaitedIsRegistered, SettledLeavesTable, Req, PromiseReq
<1>5. NestedSyncFails
  BY DEF NestedSyncFails, Req
<1> QED
  BY <1>1, <1>2, <1>3, <1>4, <1>5 DEF IInv

\* One step per action of Next; under it the parts of IInv that belong
\* together.
LEMMA NextIInv == IInv /\ [Next]_vars => IInv'
<1> SUFFICES ASSUME IInv, [Next]_vars PROVE IInv'
  OBVIOUS
<1> USE RequestorAssumption
      DEF IInv, TypeOK, sendVars, descVars, wireVars, ioVars, Req, PromiseReq
<1>1. ASSUME NEW r \in Req, NEW c \in Conn, Call(r, c), UNCHANGED crashed
     PROVE  IInv'
  <2> USE <1>1 DEF Call, Step
  <2>1. TypeOK'
    BY DEF Fresh, PC, IoAt, Returned
  <2>2. Fresh' /\ Kinds'
    BY DEF Fresh, Kinds
  <2>3. ServedFirst' /\ HandlerSettles'
    BY DEF ServedFirst, HandlerSettles, Fresh
  <2>4. NestedUnanswered' /\ NestedSyncFails'
    BY DEF NestedUnanswered, NestedSyncFails, Fresh
  <2>5. AwaitedIsRegistered'
    BY DEF AwaitedIsRegistered, HandlerSettles, Fresh
  <2>6. SettledLeavesTable'
    BY DEF SettledLeavesTable, Settled, HandlerSettles, Fresh, Returned
  <2> QED
    BY <2>1, <2>2, <2>3, <2>4, <2>5, <2>6
<1>2. ASSUME NEW r \in Req, NEW c \in Conn, CallNested(r, c), UNCHANGED crashed
     PROVE  IInv'
  <2> USE <1>2 DEF CallNested, Step
  <2>1. TypeOK'
    BY DEF Fresh, PC, IoAt, Returned
  <2>2. Fresh' /\ Kinds'
    BY DEF Fresh, Kinds
  <2>3. ServedFirst' /\ HandlerSettles'
    BY DEF ServedFirst, HandlerSettles, Fresh
  <2>4. NestedUnanswered' /\ NestedSyncFails'
    BY DEF NestedUnanswered, NestedSyncFails, Fresh
  <2>5. AwaitedIsRegistered'
    BY DEF AwaitedIsRegistered, HandlerSettles, Fresh
  <2>6. SettledLeavesTable'
    BY DEF SettledLeavesTable, Settled, HandlerSettles, Fresh, Returned
  <2> QED
    BY <2>1, <2>2, <2>3, <2>4, <2>5, <2>6
<1>3. ASSUME NEW r \in Req, InsertDesc(r), UNCHANGED crashed
     PROVE  IInv'
  <2> USE <1>3 DEF InsertDesc, Step
  <2>1. TypeOK'
    BY DEF Fresh, PC, IoAt, Returned
  <2>2. Fresh' /\ Kinds'
    BY DEF Fresh, Kinds
  <2>3. ServedFirst' /\ HandlerSettles'
    BY DEF ServedFirst, HandlerSettles, Fresh
  <2>4. NestedUnanswered' /\ NestedSyncFails'
    BY DEF NestedUnanswered, NestedSyncFails, Fresh
  <2>5. AwaitedIsRegistered'
    BY DEF AwaitedIsRegistered, HandlerSettles, Fresh
  <2>6. SettledLeavesTable'
    BY DEF SettledLeavesTable, Settled, HandlerSettles, Fresh, Returned
  <2> QED
    BY <2>1, <2>2, <2>3, <2>4, <2>5, <2>6
<1>4. ASSUME NEW r \in Req, Send(r), UNCHANGED crashed
     PROVE  IInv'
  <2> USE <1>4 DEF Send, Step
  <2>1. TypeOK'
    BY DEF Fresh, PC, IoAt, Returned
  <2>2. Fresh' /\ Kinds'
    BY DEF Fresh, Kinds
  <2>3. ServedFirst' /\ HandlerSettles'
    BY DEF ServedFirst, HandlerSettles, Fresh
  <2>4. NestedUnanswered' /\ NestedSyncFails'
    BY DEF NestedUnanswered, NestedSyncFails, Fresh
  <2>5. AwaitedIsRegistered'
    BY DEF AwaitedIsRegistered, HandlerSettles, Fresh
  <2>6. SettledLeavesTable'
    BY DEF SettledLeavesTable, Settled, HandlerSettles, Fresh, Returned
  <2> QED
    BY <2>1, <2>2, <2>3, <2>4, <2>5, <2>6
<1>5. ASSUME NEW r \in Req, GetFuture(r), UNCHANGED crashed
     PROVE  IInv'
  <2> USE <1>5 DEF GetFuture, Step
  <2>1. TypeOK'
    BY DEF Fresh, PC, IoAt, Returned
  <2>2. Fresh' /\ Kinds'
    BY DEF Fresh, Kinds
  <2>3. ServedFirst' /\ HandlerSettles'
    BY DEF ServedFirst, HandlerSettles, Fresh
  <2>4. NestedUnanswered' /\ NestedSyncFails'
    BY DEF NestedUnanswered, NestedSyncFails, Fresh
  <2>5. AwaitedIsRegistered'
    BY DEF AwaitedIsRegistered, HandlerSettles, Fresh
  <2>6. SettledLeavesTable'
    BY DEF SettledLeavesTable, Settled, HandlerSettles, Fresh, Returned
  <2> QED
    BY <2>1, <2>2, <2>3, <2>4, <2>5, <2>6
<1>6. ASSUME NEW r \in Req, Wake(r), UNCHANGED crashed
     PROVE  IInv'
  <2> USE <1>6 DEF Wake, Step
  <2>1. TypeOK'
    BY DEF Fresh, PC, IoAt, Returned
  <2>2. Fresh' /\ Kinds'
    BY DEF Fresh, Kinds
  <2>3. ServedFirst' /\ HandlerSettles'
    BY DEF ServedFirst, HandlerSettles, Fresh
  <2>4. NestedUnanswered' /\ NestedSyncFails'
    BY DEF NestedUnanswered, NestedSyncFails, Fresh
  <2>5. AwaitedIsRegistered'
    BY DEF AwaitedIsRegistered, HandlerSettles, Fresh
  <2>6. SettledLeavesTable'
    BY DEF SettledLeavesTable, Settled, HandlerSettles, Fresh, Returned
  <2> QED
    BY <2>1, <2>2, <2>3, <2>4, <2>5, <2>6
<1>7. ASSUME NEW r \in Req, Expire(r), UNCHANGED crashed
     PROVE  IInv'
  <2> USE <1>7 DEF Expire, Step
  <2>1. TypeOK'
    BY DEF Fresh, PC, IoAt, Returned
  <2>2. Fresh' /\ Kinds'
    BY DEF Fresh, Kinds
  <2>3. ServedFirst' /\ HandlerSettles'
    BY DEF ServedFirst, HandlerSettles, Fresh
  <2>4. NestedUnanswered' /\ NestedSyncFails'
    BY DEF NestedUnanswered, NestedSyncFails, Fresh
  <2>5. AwaitedIsRegistered'
    BY DEF AwaitedIsRegistered, HandlerSettles, Fresh
  <2>6. SettledLeavesTable'
    BY DEF SettledLeavesTable, Settled, HandlerSettles, Fresh, Returned
  <2> QED
    BY <2>1, <2>2, <2>3, <2>4, <2>5, <2>6
<1>8. ASSUME NEW r \in Req, RemoveExpired(r), UNCHANGED crashed
     PROVE  IInv'
  <2> USE <1>8 DEF RemoveExpired, Step
  <2>1. TypeOK'
    BY DEF Fresh, PC, IoAt, Returned
  <2>2. Fresh' /\ Kinds'
    BY DEF Fresh, Kinds
  <2>3. ServedFirst' /\ HandlerSettles'
    BY DEF ServedFirst, HandlerSettles, Fresh
  <2>4. NestedUnanswered' /\ NestedSyncFails'
    BY DEF NestedUnanswered, NestedSyncFails, Fresh
  <2>5. AwaitedIsRegistered'
    BY DEF AwaitedIsRegistered, HandlerSettles, Fresh
  <2>6. SettledLeavesTable'
    BY DEF SettledLeavesTable, Settled, HandlerSettles, Fresh, Returned
  <2> QED
    BY <2>1, <2>2, <2>3, <2>4, <2>5, <2>6
<1>9. ASSUME NEW r \in Req, Serve(r), UNCHANGED crashed
     PROVE  IInv'
  <2> USE <1>9 DEF Serve
  <2>1. TypeOK'
    BY DEF Fresh, PC, IoAt, Returned
  <2>2. Fresh' /\ Kinds'
    BY DEF Fresh, Kinds
  <2>3. ServedFirst' /\ HandlerSettles'
    BY DEF ServedFirst, HandlerSettles, Fresh
  <2>4. NestedUnanswered' /\ NestedSyncFails'
    BY DEF NestedUnanswered, NestedSyncFails, Fresh
  <2>5. AwaitedIsRegistered'
    BY DEF AwaitedIsRegistered, HandlerSettles, Fresh
  <2>6. SettledLeavesTable'
    BY DEF SettledLeavesTable, Settled, HandlerSettles, Fresh, Returned
  <2> QED
    BY <2>1, <2>2, <2>3, <2>4, <2>5, <2>6
<1>10. ASSUME NEW r \in Req, OnResponse(r), UNCHANGED crashed
     PROVE  IInv'
  <2> USE <1>10 DEF OnResponse
  <2>1. TypeOK'
    BY DEF Fresh, PC, IoAt, Returned
  <2>2. Fresh' /\ Kinds'
    BY DEF Fresh, Kinds
  <2>3. ServedFirst' /\ HandlerSettles'
    BY DEF ServedFirst, HandlerSettles, Fresh
  <2>4. NestedUnanswered' /\ NestedSyncFails'
    BY DEF NestedUnanswered, NestedSyncFails, Fresh
  <2>5. AwaitedIsRegistered'
    BY DEF AwaitedIsRegistered, HandlerSettles, Fresh
  <2>6. SettledLeavesTable'
    BY DEF SettledLeavesTable, Settled, HandlerSettles, Fresh, Returned
  <2> QED
    BY <2>1, <2>2, <2>3, <2>4, <2>5, <2>6
<1>11. ASSUME SetValue, UNCHANGED crashed
     PROVE  IInv'
  <2> USE <1>11 DEF SetValue
  <2>1. TypeOK'
    BY DEF Fresh, PC, IoAt, Returned
  <2>2. Fresh' /\ Kinds'
    BY DEF Fresh, Kinds
  <2>3. ServedFirst' /\ HandlerSettles'
    BY DEF ServedFirst, HandlerSettles, Fresh
  <2>4. NestedUnanswered' /\ NestedSyncFails'
    BY DEF NestedUnanswered, NestedSyncFails, Fresh
  <2>5. AwaitedIsRegistered'
    BY DEF AwaitedIsRegistered, HandlerSettles, Fresh
  <2>6. SettledLeavesTable'
    BY DEF SettledLeavesTable, Settled, HandlerSettles, Fresh, Returned
  <2> QED
    BY <2>1, <2>2, <2>3, <2>4, <2>5, <2>6
<1>12. ASSUME RunCallback, UNCHANGED crashed
     PROVE  IInv'
  <2> USE <1>12 DEF RunCallback
  <2>1. TypeOK'
    BY DEF Fresh, PC, IoAt, Returned
  <2>2. Fresh' /\ Kinds'
    BY DEF Fresh, Kinds
  <2>3. ServedFirst' /\ HandlerSettles'
    BY DEF ServedFirst, HandlerSettles, Fresh
  <2>4. NestedUnanswered' /\ NestedSyncFails'
    BY DEF NestedUnanswered, NestedSyncFails, Fresh
  <2>5. AwaitedIsRegistered'
    BY DEF AwaitedIsRegistered, HandlerSettles, Fresh
  <2>6. SettledLeavesTable'
    BY DEF SettledLeavesTable, Settled, HandlerSettles, Fresh, Returned
  <2> QED
    BY <2>1, <2>2, <2>3, <2>4, <2>5, <2>6
<1>13. ASSUME ReturnCallback, UNCHANGED crashed
     PROVE  IInv'
  <2> USE <1>13 DEF ReturnCallback
  <2>1. TypeOK'
    BY DEF Fresh, PC, IoAt, Returned
  <2>2. Fresh' /\ Kinds'
    BY DEF Fresh, Kinds
  <2>3. ServedFirst' /\ HandlerSettles'
    BY DEF ServedFirst, HandlerSettles, Fresh
  <2>4. NestedUnanswered' /\ NestedSyncFails'
    BY DEF NestedUnanswered, NestedSyncFails, Fresh
  <2>5. AwaitedIsRegistered'
    BY DEF AwaitedIsRegistered, HandlerSettles, Fresh
  <2>6. SettledLeavesTable'
    BY DEF SettledLeavesTable, Settled, HandlerSettles, Fresh, Returned
  <2> QED
    BY <2>1, <2>2, <2>3, <2>4, <2>5, <2>6
<1>14. ASSUME RemoveAnswered, UNCHANGED crashed
     PROVE  IInv'
  <2> USE <1>14 DEF RemoveAnswered
  <2>1. TypeOK'
    BY DEF Fresh, PC, IoAt, Returned
  <2>2. Fresh' /\ Kinds'
    BY DEF Fresh, Kinds
  <2>3. ServedFirst' /\ HandlerSettles'
    BY DEF ServedFirst, HandlerSettles, Fresh
  <2>4. NestedUnanswered' /\ NestedSyncFails'
    BY DEF NestedUnanswered, NestedSyncFails, Fresh
  <2>5. AwaitedIsRegistered'
    BY DEF AwaitedIsRegistered, HandlerSettles, Fresh
  <2>6. SettledLeavesTable'
    BY DEF SettledLeavesTable, Settled, HandlerSettles, Fresh, Returned
  <2> QED
    BY <2>1, <2>2, <2>3, <2>4, <2>5, <2>6
<1>15. ASSUME NEW c \in Conn, Close(c), UNCHANGED crashed
     PROVE  IInv'
  <2> USE <1>15 DEF Close, NotifyDisconnect
  <2>1. TypeOK'
    BY DEF Fresh, PC, IoAt, Returned
  <2>2. Fresh' /\ Kinds'
    BY DEF Fresh, Kinds
  <2>3. ServedFirst' /\ HandlerSettles'
    BY DEF ServedFirst, HandlerSettles, Fresh
  <2>4. NestedUnanswered' /\ NestedSyncFails'
    BY DEF NestedUnanswered, NestedSyncFails, Fresh
  <2>5. AwaitedIsRegistered'
    BY DEF AwaitedIsRegistered, HandlerSettles, Fresh
  <2>6. SettledLeavesTable'
    BY DEF SettledLeavesTable, Settled, HandlerSettles, Fresh, Returned
  <2> QED
    BY <2>1, <2>2, <2>3, <2>4, <2>5, <2>6
<1>16. CASE SetValueThrows
  BY <1>16 DEF SetValueThrows, Fresh, Kinds, ServedFirst, HandlerSettles,
    NestedUnanswered, NestedSyncFails, AwaitedIsRegistered, SettledLeavesTable, Settled
<1>17. CASE UNCHANGED vars
  BY <1>17 DEF vars, Fresh, Kinds, ServedFirst, HandlerSettles,
    NestedUnanswered, NestedSyncFails, AwaitedIsRegistered, SettledLeavesTable, Settled
<1> QED
  BY <1>1, <1>2, <1>3, <1>4, <1>5, <1>6, <1>7, <1>8, <1>9, <1>10, <1>11, <1>12, <1>13, <1>14, <1>15, <1>16, <1>17
  DEF Next, Running, SendStep, HandlerStep

\* The types, and what a request under way and a held lock imply.
THEOREM TypeCorrect == Spec => []TypeOK
<1>1. Spec => []IInv
  BY InitIInv, NextIInv, PTL DEF Spec
<1>2. IInv => TypeOK
  BY DEF IInv
<1> QED
  BY <1>1, <1>2, PTL

\* A request that somebody still waits for is in the table, where its answer
\* finds it.
THEOREM WaiterIsRegistered == Spec => []AwaitedIsRegistered
<1>1. Spec => []IInv
  BY InitIInv, NextIInv, PTL DEF Spec
<1>2. IInv => AwaitedIsRegistered
  BY DEF IInv
<1> QED
  BY <1>1, <1>2, PTL

\* A settled request is not in the table, except in the hands of the handler
\* that answered it.
THEOREM TableCorrect == Spec => []SettledLeavesTable
<1>1. Spec => []IInv
  BY InitIInv, NextIInv, PTL DEF Spec
<1>2. IInv => SettledLeavesTable
  BY DEF IInv
<1> QED
  BY <1>1, <1>2, PTL

\* A synchronous call made from inside a user callback never succeeds.
THEOREM NestedCallFails == Spec => []NestedSyncFails
<1>1. Spec => []IInv
  BY InitIInv, NextIInv, PTL DEF Spec
<1>2. IInv => NestedSyncFails
  BY DEF IInv
<1> QED
  BY <1>1, <1>2, PTL

-----------------------------------------------------------------------------
(* What can go wrong between find and set_value: a promise that is already  *)
(* satisfied when the handler gets to it (Doubled) was satisfied by the     *)
(* loss of another connection, after the handler had found it.              *)

Doubled == ioAt = "found" /\ ioReq \in PromiseReq /\ promise[ioReq] # "unset"

LossElsewhere ==
  /\ NotifyOnClose
  /\ ioReq \notin table /\ promise[ioReq] = "exception"
  /\ \E c \in Conn \ up : c # via[ioReq]

InHand ==
  /\ crashed => Doubled
  /\ Doubled => LossElsewhere

\* One step per action.  OnResponse finds unsettled requests only
\* (SettledLeavesTable); after that the sender does not touch the promise, the
\* entry does not come back (Fresh), and Close is that of another connection.
LEMMA NextInHand == IInv /\ InHand /\ [Next]_vars => InHand'
<1> SUFFICES ASSUME IInv, InHand, [Next]_vars PROVE InHand'
  OBVIOUS
<1> USE RequestorAssumption
      DEF IInv, TypeOK, InHand, Doubled, LossElsewhere, sendVars, descVars, wireVars,
          ioVars, Req, PromiseReq
<1>1. CASE SetValueThrows
  BY <1>1 DEF SetValueThrows
<1>2. CASE UNCHANGED vars
  BY <1>2 DEF vars
<1>3. ASSUME NEW r \in Req, NEW c \in Conn, Call(r, c) \/ CallNested(r, c),
             ~crashed, UNCHANGED crashed
      PROVE  InHand'
  <2>1. r # ioReq
    BY <1>3 DEF Call, CallNested, Step, Fresh
  <2> QED
    BY <1>3, <2>1 DEF Call, CallNested, Step
<1>4. ASSUME NEW r \in Req, InsertDesc(r), ~crashed, UNCHANGED crashed
      PROVE  InHand'
  <2>1. r # ioReq
    BY <1>4 DEF InsertDesc, Step, Fresh
  <2> QED
    BY <1>4, <2>1 DEF InsertDesc, Step
<1>5. ASSUME NEW r \in Req, ~crashed, UNCHANGED crashed,
             Send(r) \/ GetFuture(r) \/ Wake(r) \/ Expire(r) \/ RemoveExpired(r) \/ Serve(r)
      PROVE  InHand'
  BY <1>5 DEF Send, GetFuture, Wake, Expire, RemoveExpired, Step, Serve
<1>6. ASSUME NEW r \in Req, OnResponse(r), ~crashed, UNCHANGED crashed
      PROVE  InHand'
  BY <1>6 DEF OnResponse, SettledLeavesTable, Settled
<1>7. ASSUME HandlerStep, ~crashed, UNCHANGED crashed
      PROVE  InHand'
  BY <1>7 DEF HandlerStep, SetValue, RunCallback, ReturnCallback, RemoveAnswered
<1>8. ASSUME NEW c \in Conn, Close(c), ~crashed, UNCHANGED crashed
      PROVE  InHand'
  <2>1. c \notin up' /\ (ioAt # "idle" => via[ioReq] # c) /\ UNCHANGED <<via, ioAt, ioReq>>
    BY <1>8 DEF Close
  <2>2. CASE ~NotifyOnClose
    BY <1>8, <2>1, <2>2 DEF Close
  <2>3. CASE NotifyOnClose
    BY <1>8, <2>1, <2>3 DEF Close, NotifyDisconnect
  <2> QED
    BY <2>2, <2>3
<1> QED
  BY <1>1, <1>2, <1>3, <1>4, <1>5, <1>6, <1>7, <1>8 DEF Next, Running, SendStep

LEMMA InHandAlways == Spec => [](IInv /\ InHand)
<1>1. Init => IInv /\ InHand
  BY InitIInv DEF Init, InHand, Doubled
<1>2. IInv /\ InHand /\ [Next]_vars => (IInv /\ InHand)'
  BY NextIInv, NextInHand
<1> QED
  BY <1>1, <1>2, PTL DEF Spec

\* A promise is satisfied twice only when notifyDisconnect comes between find
\* and set_value for the loss of a connection other than the answer's.
THEOREM OnlyOtherLoss == Spec => []OnlyOtherLossCrashes
<1>1. InHand => OnlyOtherLossCrashes
  BY DEF InHand, Doubled, LossElsewhere, OnlyOtherLossCrashes
<1> QED
  BY <1>1, InHandAlways, PTL

\* So no exception leaves an IO thread if notifyDisconnect is not called, or if
\* the table serves one connection: the thread that could call it is then the
\* one inside the handler.
SingleConn == NotifyOnClose => \A c, d \in Conn : c = d

THEOREM NoDoubleSet ==
  ASSUME SingleConn
  PROVE  Spec => []NoCrash
<1>1. IInv /\ InHand => NoCrash
  <2> SUFFICES ASSUME IInv, InHand, crashed PROVE FALSE
    BY DEF NoCrash
  <2>1. Doubled /\ LossElsewhere
    BY DEF InHand
  <2>2. via[ioReq] \in Conn
    BY <2>1 DEF Doubled, IInv, Fresh, TypeOK, Req, PromiseReq
  <2> QED
    BY <2>1, <2>2 DEF LossElsewhere, SingleConn
<1> QED
  BY <1>1, InHandAlways, PTL

-----------------------------------------------------------------------------
(* The request table implements AtMostOnceCall.  A step of the table is     *)
(* described by the calls whose status it changes.                          *)

LEMMA StatusKept ==
  ASSUME \A q \in Req : CallStatus(q)' = CallStatus(q), served' = served
  PROVE  UNCHANGED Calls!callVars
BY DEF callStatus, Calls!callVars

LEMMA StatusChanged ==
  ASSUME NEW r \in Req, NEW v,
         CallStatus(r)' = v,
         \A q \in Req \ {r} : CallStatus(q)' = CallStatus(q)
  PROVE  callStatus' = [callStatus EXCEPT ![r] = v]
BY DEF callStatus

LEMMA InitCalls == Init => Calls!Init
BY DEF Init, callStatus, CallStatus, Calls!Init

LEMMA NextCalls == IInv /\ [Next]_vars => [Calls!Next]_(Calls!callVars)
<1> SUFFICES ASSUME IInv, [Next]_vars PROVE [Calls!Next]_(Calls!callVars)
  OBVIOUS
<1> USE RequestorAssumption
      DEF IInv, TypeOK, sendVars, descVars, wireVars, ioVars, Req, PromiseReq
<1>1. ASSUME NEW r \in Req, NEW c \in Conn, Call(r, c) \/ CallNested(r, c)
      PROVE  Calls!Start(r)
  <2>1. CallStatus(r) = "idle" /\ CallStatus(r)' = "open"
    BY <1>1 DEF Call, CallNested, Step, CallStatus, Dropped, Fresh, Returned
  <2>2. \A q \in Req \ {r} : CallStatus(q)' = CallStatus(q)
    BY <1>1 DEF Call, CallNested, Step, CallStatus, Dropped
  <2>3. UNCHANGED served
    BY <1>1 DEF Call, CallNested
  <2> QED
    BY <2>1, <2>2, <2>3, StatusChanged DEF callStatus, Calls!Start
<1>2. ASSUME NEW r \in Req, InsertDesc(r) \/ Send(r) \/ GetFuture(r) \/ Expire(r)
      PROVE  UNCHANGED Calls!callVars
  <2>1. \A q \in Req : CallStatus(q)' = CallStatus(q)
    BY <1>2 DEF InsertDesc, Send, GetFuture, Expire, Step, CallStatus, Dropped,
      Kinds, Fresh, Returned
  <2> QED
    BY <1>2, <2>1, StatusKept DEF InsertDesc, Send, GetFuture, Expire
<1>3. ASSUME NEW r \in Req, Wake(r)
      PROVE  Calls!Complete(r) \/ Calls!Fail({r})
  <2>1. CallStatus(r) = "open"
    BY <1>3 DEF Wake, Step, CallStatus, Kinds, Returned
  <2>2. \A q \in Req \ {r} : CallStatus(q)' = CallStatus(q)
    BY <1>3 DEF Wake, Step, CallStatus, Dropped
  <2>3. CASE promise[r] = "value"
    <3>1. CallStatus(r)' = "completed"
      BY <1>3, <2>3 DEF Wake, Step, CallStatus, Kinds
    <3> QED
      BY <1>3, <2>1, <2>2, <2>3, <3>1, StatusChanged
      DEF callStatus, Calls!Complete, ServedFirst, Wake
  <2>4. CASE promise[r] # "value"
    <3>1. CallStatus(r)' = "failed"
      BY <1>3, <2>4 DEF Wake, Step, CallStatus, Kinds, Returned
    <3> QED
      BY <1>3, <2>1, <2>2, <3>1 DEF callStatus, Calls!Fail, Wake
  <2> QED
    BY <2>3, <2>4
<1>4. ASSUME NEW r \in Req, RemoveExpired(r)
      PROVE  Calls!Fail({r})
  <2>1. CallStatus(r) = "open" /\ CallStatus(r)' = "failed"
    BY <1>4 DEF RemoveExpired, Step, CallStatus, Kinds, Returned
  <2>2. \A q \in Req \ {r} : CallStatus(q)' = CallStatus(q)
    BY <1>4 DEF RemoveExpired, Step, CallStatus, Dropped
  <2> QED
    BY <1>4, <2>1, <2>2 DEF callStatus, Calls!Fail, RemoveExpired
<1>5. ASSUME NEW r \in Req, Serve(r)
      PROVE  [Calls!Serve(r)]_(Calls!callVars)
  <2>1. \A q \in Req : CallStatus(q)' = CallStatus(q)
    BY <1>5 DEF Serve, CallStatus, Dropped
  <2>2. callStatus' = callStatus /\ callStatus[r] # "idle"
    BY <1>5, <2>1 DEF callStatus, CallStatus, Serve, Fresh, Returned
  <2> QED
    BY <1>5, <2>2 DEF Serve, Calls!Serve, Calls!callVars
<1>6. ASSUME NEW r \in Req, OnResponse(r)
      PROVE  UNCHANGED Calls!callVars
  <2>1. \A q \in Req : CallStatus(q)' = CallStatus(q)
    BY <1>6 DEF OnResponse, CallStatus, Dropped
  <2> QED
    BY <1>6, <2>1, StatusKept DEF OnResponse
<1>7. ASSUME NEW r \in Req, r = ioReq, SetValue \/ RunCallback
      PROVE  [Calls!Complete(r)]_(Calls!callVars)
  <2>1. r \in served /\ ioReq' = r
    BY <1>7 DEF SetValue, RunCallback, ServedFirst
  <2>2. \A q \in Req \ {r} : CallStatus(q)' = CallStatus(q)
    BY <1>7 DEF SetValue, RunCallback, CallStatus, Dropped
  <2>3. \/ CallStatus(r)' = CallStatus(r)
        \/ CallStatus(r) = "open" /\ CallStatus(r)' = "completed"
    BY <1>7, <2>1 DEF SetValue, RunCallback, CallStatus, Dropped, Fresh, Returned
  <2>4. UNCHANGED served
    BY <1>7 DEF SetValue, RunCallback
  <2>5. CASE CallStatus(r)' = CallStatus(r)
    BY <2>2, <2>4, <2>5, StatusKept
  <2>6. CASE CallStatus(r) = "open" /\ CallStatus(r)' = "completed"
    BY <2>1, <2>2, <2>4, <2>6, StatusChanged DEF callStatus, Calls!Complete
  <2> QED
    BY <2>3, <2>5, <2>6
<1>8. ASSUME ReturnCallback \/ RemoveAnswered
      PROVE  UNCHANGED Calls!callVars
  <2>1. \A q \in Req : CallStatus(q)' = CallStatus(q)
    BY <1>8 DEF ReturnCallback, RemoveAnswered, CallStatus, Dropped, HandlerSettles
  <2> QED
    BY <1>8, <2>1, StatusKept DEF ReturnCallback, RemoveAnswered
<1>9. ASSUME NEW c \in Conn, Close(c)
      PROVE  \E R \in SUBSET Req : Calls!Fail(R)
  <2> DEFINE R == {q \in Req : CallStatus(q)' # CallStatus(q)}
  <2>1. \A q \in R : CallStatus(q) = "open" /\ CallStatus(q)' = "failed"
    BY <1>9 DEF Close, NotifyDisconnect, CallStatus, Dropped
  <2>2. Calls!Fail(R)
    BY <1>9, <2>1 DEF callStatus, Calls!Fail, Close
  <2> QED
    BY <2>2
<1>10. ASSUME SetValueThrows \/ UNCHANGED vars
       PROVE  UNCHANGED Calls!callVars
  <2>1. \A q \in Req : CallStatus(q)' = CallStatus(q)
    BY <1>10 DEF SetValueThrows, vars, CallStatus, Dropped
  <2> QED
    BY <1>10, <2>1, StatusKept DEF SetValueThrows, vars
<1>11. CASE UNCHANGED vars \/ SetValueThrows
  BY <1>10, <1>11
<1>12. ASSUME NEW r \in Req, SendStep(r) \/ Serve(r) \/ OnResponse(r)
       PROVE  [Calls!Next]_(Calls!callVars)
  BY <1>2, <1>3, <1>4, <1>5, <1>6, <1>12 DEF SendStep, Calls!Next
<1>13. ASSUME HandlerStep
       PROVE  [Calls!Next]_(Calls!callVars)
  BY <1>7, <1>8, <1>13 DEF HandlerStep, SetValue, RunCallback, Calls!Next
<1>14. ASSUME NEW c \in Conn, Close(c)
       PROVE  [Calls!Next]_(Calls!callVars)
  BY <1>9, <1>14 DEF Calls!Next
<1>15. ASSUME NEW r \in Req, NEW c \in Conn, Call(r, c) \/ CallNested(r, c)
       PROVE  [Calls!Next]_(Calls!callVars)
  BY <1>1, <1>15 DEF Calls!Next
<1> QED
  BY <1>11, <1>12, <1>13, <1>14, <1>15 DEF Next, Running

\* Every call completes or fails at most once, and completes only if the
\* server has executed it.
THEOREM CallsRefined == Spec => CallsSpec
<1>1. Spec => []IInv
  BY InitIInv, NextIInv, PTL DEF Spec
<1> QED
  BY <1>1, InitCalls, NextCalls, PTL DEF Spec, CallsSpec, Calls!Spec

-----------------------------------------------------------------------------
(* RpcCaller: what its user sees of a call is at most once too.  A step of *)
(* RpcCaller is a step of Requestor, so that its invariant holds here.     *)
(* What it does not say is that a request is answered once: a second       *)
(* answer could change the result code after the user saw it.              *)

RcodeTypeOK == rcode \in [Req -> Rcode \cup {None}]

\* The server has a request only before it serves it.
ServedOnce ==
  /\ requests \cap served = {}
  /\ \A r \in Req : pc[r] \in {"idle", "called", "inserted"} => r \notin served

\* send returns true to a call that was served only.
ReturnedServed == \A r \in SyncReq : pc[r] = "ok" => r \in served

CInv == IInv /\ RcodeTypeOK /\ ServedOnce /\ ReturnedServed

-----------------------------------------------------------------------------
LEMMA CallerStepIsStep == [CallerNext]_callerVars => [Next]_vars
BY DEF CallerNext, CallerRunning, Answer, NestedCall, Next, Running, callerVars

\* Only an answer changes a result code, and it is the answer to a request
\* that was not served before.
LEMMA RcodeKept ==
  ASSUME CInv, [CallerNext]_callerVars
  PROVE  \/ UNCHANGED rcode
         \/ \E r \in Req : Answer(r)
BY DEF CallerNext, CallerRunning, callerVars

LEMMA NextRcodeTypeOK ==
  ASSUME CInv, [CallerNext]_callerVars
  PROVE  RcodeTypeOK'
<1>1. CASE UNCHANGED rcode
  BY <1>1 DEF CInv, RcodeTypeOK
<1>2. ASSUME NEW r \in Req, Answer(r)
      PROVE  RcodeTypeOK'
  BY <1>2 DEF CInv, RcodeTypeOK, Answer
<1> QED  BY <1>1, <1>2, RcodeKept

\* The same invariant of the table, whoever answers.
LEMMA NextServedOnce ==
  ASSUME IInv, ServedOnce, ReturnedServed, [Next]_vars
  PROVE  ServedOnce' /\ ReturnedServed'
<1> USE RequestorAssumption
      DEF IInv, TypeOK, sendVars, descVars, wireVars, ioVars, Req, PromiseReq,
          ServedOnce, ReturnedServed
<1>1. ASSUME NEW r \in Req, NEW c \in Conn, Call(r, c) \/ CallNested(r, c)
      PROVE  ServedOnce' /\ ReturnedServed'
  BY <1>1 DEF Call, CallNested, Step
<1>2. ASSUME NEW r \in Req, InsertDesc(r) \/ Send(r) \/ GetFuture(r) \/ Expire(r) \/ RemoveExpired(r)
      PROVE  ServedOnce' /\ ReturnedServed'
  BY <1>2 DEF InsertDesc, Send, GetFuture, Expire, RemoveExpired, Step
<1>3. ASSUME NEW r \in Req, Wake(r)
      PROVE  ServedOnce' /\ ReturnedServed'
  BY <1>3 DEF Wake, Step, ServedFirst
<1>4. ASSUME NEW r \in Req, Serve(r)
      PROVE  ServedOnce' /\ ReturnedServed'
  BY <1>4 DEF Serve, Fresh
<1>5. ASSUME NEW r \in Req, OnResponse(r)
      PROVE  ServedOnce' /\ ReturnedServed'
  BY <1>5 DEF OnResponse
<1>6. ASSUME HandlerStep
      PROVE  ServedOnce' /\ ReturnedServed'
  BY <1>6 DEF HandlerStep, SetValue, RunCallback, ReturnCallback, RemoveAnswered
<1>7. ASSUME NEW c \in Conn, Close(c)
      PROVE  ServedOnce' /\ ReturnedServed'
  BY <1>7 DEF Close
<1>8. CASE SetValueThrows \/ UNCHANGED vars
  BY <1>8 DEF SetValueThrows, vars
<1> QED
  BY <1>1, <1>2, <1>3, <1>4, <1>5, <1>6, <1>7, <1>8 DEF Next, Running, SendStep

LEMMA InitCInv == CallerInit => CInv
<1>1. CallerInit => IInv
  BY InitIInv DEF CallerInit
<1>2. CallerInit => RcodeTypeOK /\ ServedOnce /\ ReturnedServed
  BY DEF CallerInit, Init, RcodeTypeOK, ServedOnce, ReturnedServed, Req
<1> QED  BY <1>1, <1>2 DEF CInv

LEMMA NextCInv == CInv /\ [CallerNext]_callerVars => CInv'
BY CallerStepIsStep, NextIInv, NextRcodeTypeOK, NextServedOnce DEF CInv

-----------------------------------------------------------------------------
(* The outcomes.  A step is described by the calls whose outcome it changes. *)

LEMMA OutcomeKept ==
  ASSUME \A q \in Req : Outcome(q)' = Outcome(q), served' = served
  PROVE  UNCHANGED UserCalls!callVars
BY DEF outcome, UserCalls!callVars

LEMMA OutcomeChanged ==
  ASSUME NEW r \in Req, NEW v, Outcome(r)' = v,
         \A q \in Req \ {r} : Outcome(q)' = Outcome(q)
  PROVE  outcome' = [outcome EXCEPT ![r] = v]
BY DEF outcome

LEMMA OutcomeFails ==
  ASSUME served' = served,
         \A q \in Req : \/ Outcome(q)' = Outcome(q)
                        \/ Outcome(q) = "open" /\ Outcome(q)' = "failed"
  PROVE  UserCalls!Next
<1> DEFINE R == {q \in Req : Outcome(q)' # Outcome(q)}
<1>1. UserCalls!Fail(R)
  BY DEF outcome, UserCalls!Fail
<1> QED  BY <1>1 DEF UserCalls!Next

LEMMA InitUserCalls == CallerInit => UserCalls!Init
BY DEF CallerInit, Init, outcome, Outcome, UserCalls!Init

\* One step per action of CallerNext.
LEMMA NextUserCalls ==
  CInv /\ [CallerNext]_callerVars => [UserCalls!Next]_(UserCalls!callVars)
<1> SUFFICES ASSUME CInv, [CallerNext]_callerVars
             PROVE  [UserCalls!Next]_(UserCalls!callVars)
  OBVIOUS
<1> USE RequestorAssumption, CallerAssumption
      DEF CInv, IInv, TypeOK, RcodeTypeOK, sendVars, descVars, wireVars, ioVars, Req, PromiseReq
<1>1. ASSUME NEW r \in Req, NEW c \in Conn, Call(r, c) \/ CallNested(r, c), UNCHANGED rcode
      PROVE  UserCalls!Start(r)
  <2>1. Outcome(r) = "idle" /\ Outcome(r)' = "open"
    BY <1>1 DEF Call, CallNested, Step, Outcome, Future, Delivered, Held, Fresh, Returned
  <2>2. \A q \in Req \ {r} : Outcome(q)' = Outcome(q)
    BY <1>1 DEF Call, CallNested, Step, Outcome, Future, Delivered, Held
  <2>3. UNCHANGED served
    BY <1>1 DEF Call, CallNested
  <2> QED  BY <2>1, <2>2, <2>3, OutcomeChanged DEF outcome, UserCalls!Start
<1>2. ASSUME NEW r \in Req, InsertDesc(r) \/ GetFuture(r) \/ Expire(r), UNCHANGED rcode
      PROVE  UNCHANGED UserCalls!callVars
  <2>1. \A q \in Req : Outcome(q)' = Outcome(q)
    BY <1>2 DEF InsertDesc, GetFuture, Expire, Step, Outcome, Future, Delivered, Held,
                Kinds, Returned
  <2> QED  BY <1>2, <2>1, OutcomeKept DEF InsertDesc, GetFuture, Expire
<1>3. ASSUME NEW r \in Req, Send(r) \/ RemoveExpired(r), UNCHANGED rcode
      PROVE  UserCalls!Next
  <2>1. \A q \in Req : \/ Outcome(q)' = Outcome(q)
                       \/ Outcome(q) = "open" /\ Outcome(q)' = "failed"
    BY <1>3 DEF Send, RemoveExpired, Step, Outcome, Future, Delivered, Held, Kinds, Returned
  <2> QED  BY <1>3, <2>1, OutcomeFails DEF Send, RemoveExpired
<1>4. ASSUME NEW r \in Req, Wake(r), UNCHANGED rcode
      PROVE  UserCalls!Next
  <2>1. r \in SyncReq /\ Outcome(r) = "open"
    BY <1>4 DEF Wake, Step, Outcome, Kinds, Returned
  <2>2. \A q \in Req \ {r} : Outcome(q)' = Outcome(q)
    BY <1>4 DEF Wake, Step, Outcome, Future, Delivered, Held
  <2>3. UNCHANGED served
    BY <1>4 DEF Wake
  <2>4. CASE promise[r] = "value" /\ rcode[r] = OK
    <3>1. Outcome(r)' = "completed"
      BY <1>4, <2>1, <2>4 DEF Wake, Step, Outcome
    <3>2. r \in served
      BY <2>4 DEF ServedFirst
    <3> QED  BY <2>1, <2>2, <2>3, <3>1, <3>2, OutcomeChanged
             DEF outcome, UserCalls!Complete, UserCalls!Next
  <2>5. CASE ~(promise[r] = "value" /\ rcode[r] = OK)
    <3>1. Outcome(r)' = "failed"
      BY <1>4, <2>1, <2>5 DEF Wake, Step, Outcome, Returned
    <3> QED  BY <2>1, <2>2, <2>3, <3>1, OutcomeFails
  <2> QED  BY <2>4, <2>5
<1>5. ASSUME NEW r \in Req, Answer(r)
      PROVE  UserCalls!Serve(r)
  <2>1. r \notin served /\ r \in requests /\ served' = served \cup {r}
    BY <1>5 DEF Answer, Serve, ServedOnce
  <2>2. ~(r \in SyncReq /\ pc[r] = "ok") /\ ~(calls[r] > 0)
    BY <2>1 DEF ReturnedServed, ServedFirst
  <2>3. \A q \in Req \ {r} : rcode'[q] = rcode[q]
    BY <1>5 DEF Answer
  <2>4. \A q \in Req : Outcome(q)' = Outcome(q)
    BY <1>5, <2>2, <2>3 DEF Answer, Serve, Outcome, Future, Delivered, Held
  <2>5. Outcome(r) # "idle"
    BY <2>1 DEF Outcome, Future, Fresh, Returned
  <2> QED  BY <2>1, <2>4, <2>5 DEF outcome, UserCalls!Serve
<1>6. ASSUME NEW r \in Req, OnResponse(r), UNCHANGED rcode
      PROVE  UNCHANGED UserCalls!callVars
  <2>1. \A q \in Req : Outcome(q)' = Outcome(q)
    BY <1>6 DEF OnResponse, Outcome, Future, Delivered, Held
  <2> QED  BY <1>6, <2>1, OutcomeKept DEF OnResponse
<1>7. ASSUME SetValue, UNCHANGED rcode
      PROVE  UNCHANGED UserCalls!callVars
  <2>1. \A q \in Req : Outcome(q)' = Outcome(q)
    BY <1>7 DEF SetValue, Outcome, Future, Delivered, Held
  <2> QED  BY <1>7, <2>1, OutcomeKept DEF SetValue
<1>8. ASSUME NEW r \in Req, r = ioReq, RunCallback, UNCHANGED rcode
      PROVE  [UserCalls!Next]_(UserCalls!callVars)
  <2>1. r \in served /\ r \notin SyncReq /\ ioReq' = r /\ calls'[r] = calls[r] + 1
    BY <1>8 DEF RunCallback, ServedFirst
  <2>2. \A q \in Req \ {r} : Outcome(q)' = Outcome(q)
    BY <1>8 DEF RunCallback, Outcome, Future, Delivered, Held
  <2>3. \/ Outcome(r)' = Outcome(r)
        \/ Outcome(r) = "open" /\ Outcome(r)' = "completed"
    <3>1. pc[r] # "idle" /\ pc' = pc /\ calls[r] \in Nat
      BY <1>8 DEF RunCallback, Fresh
    <3>2. Held(r) /\ Held(r)'
      BY <1>8, <2>1 DEF Held
    <3> QED  BY <1>8, <2>1, <3>1, <3>2 DEF Outcome, Future, Delivered
  <2>4. UNCHANGED served
    BY <1>8 DEF RunCallback
  <2>5. CASE Outcome(r)' = Outcome(r)
    BY <2>2, <2>4, <2>5, OutcomeKept
  <2>6. CASE Outcome(r) = "open" /\ Outcome(r)' = "completed"
    BY <2>1, <2>2, <2>4, <2>6, OutcomeChanged DEF outcome, UserCalls!Complete, UserCalls!Next
  <2> QED  BY <2>3, <2>5, <2>6
<1>9. ASSUME ReturnCallback, UNCHANGED rcode
      PROVE  UNCHANGED UserCalls!callVars
  <2>1. \A q \in Req : Outcome(q)' = Outcome(q)
    BY <1>9 DEF ReturnCallback, Outcome, Future, Delivered, Held
  <2> QED  BY <1>9, <2>1, OutcomeKept DEF ReturnCallback
<1>10. ASSUME RemoveAnswered, UNCHANGED rcode
       PROVE  UserCalls!Next
  <2>1. \A q \in Req : \/ Outcome(q)' = Outcome(q)
                       \/ Outcome(q) = "open" /\ Outcome(q)' = "failed"
    BY <1>10 DEF RemoveAnswered, Outcome, Future, Delivered, Held
  <2> QED  BY <1>10, <2>1, OutcomeFails DEF RemoveAnswered
<1>11. ASSUME NEW c \in Conn, Close(c), UNCHANGED rcode
       PROVE  UserCalls!Next
  <2>1. \A q \in Req : \/ Outcome(q)' = Outcome(q)
                       \/ Outcome(q) = "open" /\ Outcome(q)' = "failed"
    BY <1>11 DEF Close, NotifyDisconnect, Outcome, Future, Delivered, Held
  <2> QED  BY <1>11, <2>1, OutcomeFails DEF Close
<1>12. CASE (SetValueThrows /\ UNCHANGED rcode) \/ UNCHANGED callerVars
  <2>1. \A q \in Req : Outcome(q)' = Outcome(q)
    BY <1>12 DEF SetValueThrows, callerVars, vars, Outcome, Future, Delivered, Held
  <2> QED  BY <1>12, <2>1, OutcomeKept DEF SetValueThrows, callerVars, vars
<1>13. ASSUME NEW r \in Req, SendStep(r) \/ OnResponse(r), UNCHANGED rcode
       PROVE  [UserCalls!Next]_(UserCalls!callVars)
  BY <1>2, <1>3, <1>4, <1>6, <1>13 DEF SendStep
<1>14. ASSUME HandlerStep, UNCHANGED rcode
       PROVE  [UserCalls!Next]_(UserCalls!callVars)
  <2>1. CASE RunCallback
    <3>1. ioReq \in Req
      BY <2>1 DEF RunCallback
    <3> QED  BY <1>8, <1>14, <2>1, <3>1
  <2> QED  BY <1>7, <1>9, <1>10, <1>14, <2>1 DEF HandlerStep
<1>15. ASSUME NEW r \in Req, NEW c \in Conn, Call(r, c) \/ CallNested(r, c), UNCHANGED rcode
       PROVE  [UserCalls!Next]_(UserCalls!callVars)
  BY <1>1, <1>15 DEF UserCalls!Next
<1>16. ASSUME NEW r \in Req, Answer(r)
       PROVE  [UserCalls!Next]_(UserCalls!callVars)
  BY <1>5, <1>16 DEF UserCalls!Next
<1> QED
  BY <1>11, <1>12, <1>13, <1>14, <1>15, <1>16 DEF CallerNext, CallerRunning, NestedCall

\* What the user learns of a call is final and true, for any calls, any
\* connections and result codes, whether or not notifyDisconnect is called.
THEOREM UserCallsRefined == CallerSpec => UserCallsSpec
<1>1. CallerSpec => []CInv
  BY InitCInv, NextCInv, PTL DEF CallerSpec
<1> QED
  BY <1>1, InitUserCalls, NextUserCalls, PTL DEF CallerSpec, UserCallsSpec, UserCalls!Spec
=============================================================================
