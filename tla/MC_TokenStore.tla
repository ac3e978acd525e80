---------------------------- MODULE MC_TokenStore ----------------------------
(* Instances of TokenStore: a client of one host whose storage also has    *)
(* items that another version of the module, or a client of an alias of    *)
(* the host, left there.                                                   *)
EXTENDS TokenStore, TLC

MCHost == "net"

(* Everything under v1.0 keys; and a cache two versions share.             *)
OldBlob    == [k \in Keys |-> IF k[2] = MCHost /\ k[3] = "v1.0" THEN Older ELSE NoItem]
SharedBlob == [k \in Keys |-> IF k[2] # MCHost THEN NoItem
                              ELSE IF k[3] = "v1.0" THEN Older ELSE Newer]
AliasBlob  == [k \in Keys |-> IF k[3] = "v1.1" THEN Newer ELSE NoItem]

Symmetry == Permutations(Callers)

MCBlobs    == {OldBlob, SharedBlob}
MCAliasBlobs == {AliasBlob}
=============================================================================
