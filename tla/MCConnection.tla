----------------------------- MODULE MCConnection -----------------------------
(***************************************************************************)
(* An instance of Connection for TLC: bytes of four values, integers of    *)
(* two bytes, a message of exactly the limit and one beyond it.            *)
(***************************************************************************)
EXTENDS Connection

Fits == [type |-> 1, id |-> <<2>>, body |-> <<3>>]
Long == [type |-> 6, id |-> <<1>>, body |-> <<0, 2>>]
MCMessage == {Fits, Long}
=============================================================================
