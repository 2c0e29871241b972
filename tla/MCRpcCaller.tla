----------------------------- MODULE MCRpcCaller -----------------------------
(***************************************************************************)
(* Instances of RpcCaller for TLC: the calls by their kind, and the        *)
(* result codes that matter, one that is RCODE_OK and one that is not.     *)
(***************************************************************************)
EXTENDS RpcCaller

CONSTANT Error          \* any other result code

MCCallbackReq == AsyncCall \cup MessageCall
MCRcode == {OK, Error}
=============================================================================
