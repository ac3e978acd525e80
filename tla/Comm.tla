-------------------------------- MODULE Comm --------------------------------
(***************************************************************************)
(* comm.Client: what a call makes of the reply to its request.  do sets a  *)
(* deadline of 30 s unless the caller's context has one of its own, so     *)
(* every call ends; one whose context has ended fails.                     *)
(*                                                                         *)
(* A reply is lost (no connection, a deadline, a body that breaks off) or  *)
(* has a status and a body; what bodies there are depends on the service.  *)
(***************************************************************************)
EXTENDS Naturals

Garbage == "garbage"                \* a body that is not JSON (or XML)

Reply(status, body) == [lost |-> FALSE, status |-> status, body |-> body]
Lost == [lost |-> TRUE, status |-> 0, body |-> Garbage]

(* do: the error of a call, by its type.                                   *)
CallErr(reply) == ~reply.lost /\ reply.status \notin {200, 201}
Do(reply) ==
    CASE reply.lost     -> "transport"
      [] CallErr(reply) -> "CallErr"
      [] OTHER          -> "none"

(* JSONCall, URLFormCall and xmlCall decode what do returns.               *)
Undecodable(reply) == Do(reply) = "none" /\ reply.body = Garbage
JSONCall(reply)    == IF Undecodable(reply) THEN "InvalidJsonErr" ELSE Do(reply)
URLFormCall(reply) == IF Undecodable(reply) THEN "InvalidJsonErr" ELSE Do(reply)
XMLCall(reply)     == IF Undecodable(reply) THEN "decode" ELSE Do(reply)

(* The replies a call can see when the service may send the given ones.    *)
Replies(cancelled, sent) == IF cancelled THEN {Lost} ELSE {Lost} \cup sent
=============================================================================
