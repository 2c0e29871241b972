----------------------------- MODULE MCRequestor -----------------------------
(***************************************************************************)
(* Instances of Requestor for TLC.  Ids are model values; the number of    *)
(* requests and of connections is all that is bounded.                     *)
(***************************************************************************)
EXTENDS Requestor
=============================================================================
