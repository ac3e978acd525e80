--------------------------- MODULE MC_PublicFlows ---------------------------
(* Goroutines that share one loopback port (a fixed redirect URI).         *)
EXTENDS PublicFlows
=============================================================================
