-------------------------- MODULE MC_SilentRefresh --------------------------
(* The instance of SilentRefresh that TLC checks: a confidential client,   *)
(* whose tenant string "" and configured tenant "home" reach the same app  *)
(* slot, and a public client, whose only tenant string is "pub".           *)
EXTENDS SilentRefresh

MCTenants == {"", "home", "pub"}
MCSlots   == {"app", "obo", "user"}
MCSlotsOf == [k \in MCTenants |->
                 CASE k = ""     -> {"app", "obo"}
                   [] k = "home" -> {"app"}
                   [] k = "pub"  -> {"user"}]
MCFlowOf  == [s \in MCSlots |-> IF s = "user" THEN "public" ELSE s]
=============================================================================
