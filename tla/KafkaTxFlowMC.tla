--------------------------- MODULE KafkaTxFlowMC ---------------------------
(* Small instances of KafkaTxFlow for TLC. *)
EXTENDS KafkaTxFlow

TwoPartitions == {1, 2}

\* Three records: two of them on one partition.
ThreeRecords == <<2, 1>>
=============================================================================
