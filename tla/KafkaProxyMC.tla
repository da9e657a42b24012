---------------------------- MODULE KafkaProxyMC ----------------------------
(* Small instances of KafkaProxy for TLC. *)
EXTENDS KafkaProxy, TLC

CONSTANTS r1, r2

\* Two targets of one cluster, the first with a breaker.
OneCluster == r1 :> "a" @@ r2 :> "a"
=============================================================================
