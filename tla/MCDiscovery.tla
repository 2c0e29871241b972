----------------------------- MODULE MCDiscovery -----------------------------
(***************************************************************************)
(* Instances of Discovery for TLC: a client, the providers beside it, and  *)
(* few discoveries by few threads.                                         *)
(***************************************************************************)
EXTENDS Discovery

CONSTANT Provider

MCConn == {Client} \cup Provider
MCId == Thread \X (1..MaxCalls)

Symmetry == Permutations(Provider) \cup Permutations(Thread) \cup Permutations(Host)
              \cup Permutations(Method)
=============================================================================
