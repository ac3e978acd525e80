------------------------- MODULE MC_ManagedIdentity -------------------------
(* A machine with a system-assigned and a user-assigned identity: one      *)
(* client for each.                                                        *)
EXTENDS ManagedIdentity

MCClients == {"forSystem", "forUser"}
MCIds     == {"system", "user"}
MCIdOf    == [m \in MCClients |-> IF m = "forSystem" THEN "system" ELSE "user"]
=============================================================================
