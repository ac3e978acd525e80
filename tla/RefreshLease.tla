---------------------------- MODULE RefreshLease ----------------------------
(***************************************************************************)
(* What proactive token refresh promises, without saying how.              *)
(*                                                                         *)
(* base.Client refreshes a cached access token shortly before it expires   *)
(* while callers still receive the old one.  For each tenant string that   *)
(* callers pass, one caller at a time may hold the lease to do so, for one *)
(* particular token, and a token whose refresh succeeded (it is retired)   *)
(* is never the subject of a lease of that tenant again.                   *)
(***************************************************************************)
CONSTANTS
    Callers,    \* goroutines that call AcquireToken*
    Tenants,    \* tenant strings, the keys of Client.canRefresh
    Tokens      \* access tokens

VARIABLES
    lease,      \* lease[k]: the <<caller, token>> pairs now refreshing for k
    retired     \* retired[k]: tokens that a refresh for k has replaced

leaseVars == <<lease, retired>>

Init ==
    /\ lease = [k \in Tenants |-> {}]
    /\ retired = [k \in Tenants |-> {}]

(* A caller takes a free lease, for a token nobody has replaced yet.       *)
Begin(c, k, t) ==
    /\ lease[k] = {}
    /\ t \notin retired[k]
    /\ lease' = [lease EXCEPT ![k] = {<<c, t>>}]
    /\ UNCHANGED retired

(* The token service refused, or its answer could not be used.             *)
GiveUp(k) ==
    /\ lease[k] # {}
    /\ lease' = [lease EXCEPT ![k] = {}]
    /\ UNCHANGED retired

(* The new token is stored in place of the leased one.                     *)
Retire(c, k, t) ==
    /\ lease[k] = {<<c, t>>}
    /\ lease' = [lease EXCEPT ![k] = {}]
    /\ retired' = [retired EXCEPT ![k] = @ \cup {t}]

Next ==
    \E k \in Tenants :
        \/ GiveUp(k)
        \/ \E c \in Callers, t \in Tokens : Begin(c, k, t) \/ Retire(c, k, t)

Spec == Init /\ [][Next]_leaseVars
=============================================================================
