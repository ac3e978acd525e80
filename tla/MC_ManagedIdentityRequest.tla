--------------------- MODULE MC_ManagedIdentityRequest ---------------------
(* One status of each kind: a token, an answer that has no token, a final  *)
(* error, one that only IMDS repeats, one that only the others repeat, and *)
(* one that all repeat.                                                    *)
EXTENDS ManagedIdentityRequest

MC_Statuses == {200, 202, 400, 404, 408, 503}
=============================================================================
