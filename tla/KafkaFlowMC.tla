----------------------------- MODULE KafkaFlowMC -----------------------------
(* Small instances of KafkaFlow for TLC. *)
EXTENDS KafkaFlow

TwoPartitions == {1, 2}

\* Three records: two of them on one partition.
ThreeRecords == <<2, 1>>
=============================================================================
