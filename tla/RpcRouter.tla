------------------------------ MODULE RpcRouter ------------------------------
(***************************************************************************)
(* The services of an RpcServer (server/rpc_router.hpp): how they are      *)
(* described and registered, and how a request becomes a call of one.      *)
(*                                                                         *)
(* A service is its ServiceDesc: a name and the types of its parameters.   *)
(* The type it is said to return is never looked at.  What it computes is  *)
(* the application's; all that counts is whether it throws.                *)
(***************************************************************************)
EXTENDS Messages, FiniteSets

CONSTANTS
  Service,        \* ServiceDesc: records with name and parameters
  KindCase(_),    \* which kind of value a Value is
  Result(_, _),   \* what a service makes of parameters: a Struct, or Throws
  Throws

ParameterType == {"BOOL", "INTEGRAL", "NUMERIC", "STRING", "ARRAY", "OBJECT"}

ASSUME RouterAssumption ==
  \A s \in Service :
    /\ s.name \in Text
    /\ IsFiniteSet(DOMAIN s.parameters)
    /\ \A p \in DOMAIN s.parameters : s.parameters[p] \in ParameterType
    /\ \A ps \in [DOMAIN s.parameters -> Value] : Result(s, ps) \in Struct \cup {Throws}

Described(name, type) == [name |-> name, type |-> type]

\* The ServiceDesc that a ServiceDescBuilder makes of a method's name and of the
\* descriptions of its parameters: the first one of a name counts.
Build(name, described) ==
  LET first(p) == CHOOSE i \in DOMAIN described :
                    described[i].name = p /\ \A j \in 1..(i-1) : described[j].name # p
  IN [name |-> name,
      parameters |-> [p \in {described[i].name : i \in DOMAIN described} |->
                        described[first(p)].type]]

VARIABLE services   \* RpcServiceManager::_services, by name

-----------------------------------------------------------------------------
\* insert leaves a service that is there under the same name.
Insert(s) ==
  services' = [n \in DOMAIN services \cup {s.name} |->
                 IF n \in DOMAIN services THEN services[n] ELSE s]

\* The types a value may be declared with.  Every number passes for an
\* integer; a Value without a kind passes for nothing.
TypesOf(kind) ==
  CASE kind = "not_set" -> {}
    [] kind = "bool"    -> {"BOOL"}
    [] kind = "number"  -> {"INTEGRAL", "NUMERIC"}
    [] kind = "string"  -> {"STRING"}
    [] kind = "list"    -> {"ARRAY"}
    [] kind = "struct"  -> {"OBJECT"}

CheckValueType(type, v) == type \in TypesOf(KindCase(v))

\* Mutated CheckOutParameters: nobody counts the parameters.
CheckOutParameters_Uncounted(s, ps) ==
  \A p \in DOMAIN s.parameters :
    p \in DOMAIN ps /\ CheckValueType(s.parameters[p], ps[p])

CheckOutParameters(s, ps) ==
  /\ Cardinality(DOMAIN ps) = Cardinality(DOMAIN s.parameters)
  /\ \A p \in DOMAIN s.parameters :
       p \in DOMAIN ps /\ CheckValueType(s.parameters[p], ps[p])

\* response: its result is there even when it is empty.
RpcAnswer(rcode, result) == [rcode |-> rcode, result |-> result]

\* The answer of a service that was called, which must not throw further.
Called(s, ps) ==
  IF Result(s, ps) = Throws THEN RpcAnswer(RCODE_INVALID_RESULT, NoStruct)
  ELSE RpcAnswer(RCODE_OK, Result(s, ps))

\* onRpcRequest, up to the sending of its answer.
OnRpcRequest(m) ==
  LET ps == StructIn(m.parameters)
  IN IF m.method \notin DOMAIN services
       THEN RpcAnswer(RCODE_NOT_FOUND_SERVICE, NoStruct)
     ELSE IF ~CheckOutParameters(services[m.method], ps)
       THEN RpcAnswer(RCODE_INVALID_PARAMS, NoStruct)
     ELSE Called(services[m.method], ps)
=============================================================================
