---------------------------- MODULE MCBasicModule ----------------------------
(***************************************************************************)
(* BasicModule with every kind of set_attributes() call; the OPER_STATUS a *)
(* client sets is the one that looks right in one state and is not in the  *)
(* other.                                                                  *)
(***************************************************************************)
EXTENDS BasicModule

AllRequests == {r \in RequestType : r.attr = "oper" => r.value = "ready"}

(* The calls of a client whose lists are always accepted.                  *)
AcceptedRequests == {r \in RequestType : r.accepted}

(* The calls that switch the admin status, with a list that is accepted.   *)
AdminRequests == {r \in AcceptedRequests : r.attr = "admin"}
=============================================================================
