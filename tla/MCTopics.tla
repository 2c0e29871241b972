------------------------------- MODULE MCTopics -------------------------------
(***************************************************************************)
(* Instances of Topics for TLC: a client, the peers beside it, and few     *)
(* calls by few threads.                                                   *)
(***************************************************************************)
EXTENDS Topics

CONSTANT Peer

MCConn == {Client} \cup Peer
MCId == (Thread \X (1..MaxCalls)) \cup {PeerId}

Symmetry == Permutations(Peer) \cup Permutations(Thread) \cup Permutations(Topic)
=============================================================================
