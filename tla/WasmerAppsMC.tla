---------------------------- MODULE WasmerAppsMC ----------------------------
(* Small instances of WasmerApps for TLC. *)
EXTENDS WasmerApps, TLC

CONSTANTS a1, a2, a3

\* Two allocated ports, and one configured within the pool's range.
Ports == a1 :> 0 @@ a2 :> 0 @@ a3 :> 9001
=============================================================================
