------------------------------ MODULE RpcCaller ------------------------------
(***************************************************************************)
(* What a user of RpcClient sees of a call (client/rpc_caller.hpp) on top  *)
(* of the request table.  RpcCaller sends a synchronous call with a        *)
(* promise and everything else with a callback: for a call with a future   *)
(* the callback (CallOnAsync) owns the promise behind the user's future,   *)
(* for a call with a callback (CallOnMessage) it runs the user's own.      *)
(* Both look at the result code of the answer first.                       *)
(***************************************************************************)
EXTENDS Requestor

CONSTANTS
  AsyncCall,     \* the calls made with call(conn, method, params, future)
  MessageCall,   \* the calls made with call(conn, method, params, callback)
  Rcode,         \* the result codes the server answers with
  OK             \* RCODE_OK

ASSUME CallerAssumption ==
  /\ FutureReq = {}
  /\ CallbackReq = AsyncCall \cup MessageCall
  /\ AsyncCall \cap MessageCall = {}
  /\ OK \in Rcode
  /\ None \notin Rcode

VARIABLE rcode   \* rcode[r]: the result code r was answered with, None before

callerVars == <<vars, rcode>>

CallerInit == Init /\ rcode = [r \in Req |-> None]

-----------------------------------------------------------------------------
\* The server answers r with some result code.
Answer(r) == Serve(r) /\ \E code \in Rcode : rcode' = [rcode EXCEPT ![r] = code]

\* The callback that runs is the user's: CallOnMessage enters it for a call
\* that succeeded only, and CallOnAsync runs nothing of the user's.
UserCallback ==
  ioAt = "running" /\ ioReq \in MessageCall /\ rcode[ioReq] = OK

NestedCall(r, c) == UserCallback /\ CallNested(r, c)

CallerRunning ==
  \/ \E r \in Req : Answer(r)
  \/ /\ \/ \E r \in Req, c \in Conn : Call(r, c) \/ NestedCall(r, c)
        \/ \E r \in Req : SendStep(r) \/ OnResponse(r)
        \/ HandlerStep
        \/ \E c \in Conn : Close(c)
     /\ UNCHANGED rcode

CallerNext ==
  /\ ~crashed
  /\ \/ SetValueThrows /\ UNCHANGED rcode
     \/ CallerRunning /\ UNCHANGED crashed

CallerSpec == CallerInit /\ [][CallerNext]_callerVars

FairCaller ==
  /\ CallerSpec
  /\ \A r \in Req : WF_callerVars((ThreadStep(r) \/ IoStep(r)) /\ UNCHANGED rcode)
  /\ WF_callerVars(DispatchStep /\ UNCHANGED rcode)

-----------------------------------------------------------------------------
(* What the user holds.                                                    *)

\* The callback of r has passed the result on: set_value on the user's
\* promise, or the user's own callback.
Delivered(r) == calls[r] > 0 /\ rcode[r] = OK

\* Somebody still refers to r's callback, and with it to the user's promise:
\* the frame of call(), the request table, or the handler that found it.
Held(r) == pc[r] # "ok" \/ r \in table \/ ioReq = r

\* The state of the future a call with a future gave its user: broken once
\* the last reference to its promise is gone and nothing was set.
Future(r) ==
  IF Delivered(r) THEN "value" ELSE IF Held(r) THEN "pending" ELSE "broken"

\* What a call came to for its user.
Outcome(r) ==
  IF pc[r] = "idle" THEN "idle"
  ELSE IF r \in SyncReq
    THEN IF pc[r] = "ok" /\ rcode[r] = OK THEN "completed"
         ELSE IF pc[r] \in Returned THEN "failed" ELSE "open"
  ELSE CASE Future(r) = "value"   -> "completed"
         [] Future(r) = "broken"  -> "failed"
         [] Future(r) = "pending" -> "open"

outcome == [r \in Req |-> Outcome(r)]

UserCalls == INSTANCE AtMostOnceCall WITH status <- outcome

\* What the user learns of a call is final and true: a result only of a call
\* the server executed, never after a failure, never a failure after it.
UserCallsSpec == UserCalls!Spec

\* An answered future is resolved, by its value or as broken, unless its
\* connection is lost before the answer is handled.
AnsweredFutureResolves ==
  \A r \in AsyncCall :
    (r \in responses /\ r \in table) ~> (Future(r) # "pending" \/ via[r] \notin up)
=============================================================================
