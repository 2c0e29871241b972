---------------------------- MODULE AtMostOnceCall ----------------------------
(***************************************************************************)
(* What the request/response layer of the client promises for every call:  *)
(* a call that was started completes or fails, never both and never twice, *)
(* and it completes only after the server has served it.  A call that      *)
(* failed may or may not have been served: the server may still get to it  *)
(* after the caller gave up.                                               *)
(***************************************************************************)
CONSTANT Req            \* the calls; each carries an id no other call has

VARIABLES status,       \* status[r]: how far call r is
          served        \* the calls the server has executed

callVars == <<status, served>>

Status == {"idle", "open", "completed", "failed"}

Init ==
  /\ status = [r \in Req |-> "idle"]
  /\ served = {}

Start(r) ==
  /\ status[r] = "idle"
  /\ status' = [status EXCEPT ![r] = "open"]
  /\ UNCHANGED served

\* The server executes the procedure once, whether or not anyone still waits.
Serve(r) ==
  /\ status[r] # "idle"
  /\ r \notin served
  /\ served' = served \cup {r}
  /\ UNCHANGED status

Complete(r) ==
  /\ status[r] = "open"
  /\ r \in served
  /\ status' = [status EXCEPT ![r] = "completed"]
  /\ UNCHANGED served

\* A lost connection fails every call still open at one stroke.
Fail(R) ==
  /\ \A r \in R : status[r] = "open"
  /\ status' = [r \in Req |-> IF r \in R THEN "failed" ELSE status[r]]
  /\ UNCHANGED served

Next ==
  \/ \E r \in Req : Start(r) \/ Serve(r) \/ Complete(r)
  \/ \E R \in SUBSET Req : Fail(R)

Spec == Init /\ [][Next]_callVars
=============================================================================
