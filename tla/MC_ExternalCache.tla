-------------------------- MODULE MC_ExternalCache --------------------------
(* Instances of ExternalCache: a store that is one file, as in the sample  *)
(* accessor, and a store with a blob per partition key, as in the tests.   *)
EXTENDS ExternalCache

OneKeyOf  == [s \in Slots |-> "file"]
KeyPerSlot == [s \in Slots |-> CASE s = "user" -> "uid"
                                 [] s = "app"  -> "appkey"
                                 [] s = "obo"  -> "hash"]
=============================================================================
