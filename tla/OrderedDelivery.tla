--------------------------- MODULE OrderedDelivery ---------------------------
(***************************************************************************)
(* What a manually committing Kafka flow promises about a topic, whatever  *)
(* its sink, its policy and its crashes: from the first offset the group   *)
(* was assigned, the records of a partition are settled (delivered, or     *)
(* parked in the dead letter queue) in order, and an offset is committed   *)
(* only when everything below it is accounted for.  Records the client     *)
(* gave up on are named in "lost": the promise does not hide them.         *)
(***************************************************************************)
EXTENDS Integers

CONSTANT Partitions      \* partitions of the consumed topic

VARIABLES
    log,        \* [Partitions -> Nat]: end offset of each partition
    origin,     \* first offset the group was ever assigned, or NoOffset
    settled,    \* records <<p, o>> delivered or dead-lettered
    lost,       \* records the consumer moved past without settling them
    committed   \* the group's committed offset, or NoOffset

vars == <<log, origin, settled, lost, committed>>

NoOffset == -1

\* Every record of p from the origin up to (not including) n is accounted for.
AccountedBelow(p, n) ==
    \A o \in origin[p]..(n - 1) : <<p, o>> \in settled \cup lost

InLog(p, o) == o \in origin[p]..(log[p] - 1)

Init ==
    /\ log \in [Partitions -> Nat]
    /\ origin = [p \in Partitions |-> NoOffset]
    /\ settled = {}
    /\ lost = {}
    /\ committed = [p \in Partitions |-> NoOffset]

\* A producer appends to a partition.
Append(p) ==
    /\ log' = [log EXCEPT ![p] = @ + 1]
    /\ UNCHANGED <<origin, settled, lost, committed>>

\* The group gets its first assignment.
Assign ==
    /\ \A p \in Partitions : origin[p] = NoOffset /\ origin'[p] \in 0..log[p]
    /\ UNCHANGED <<log, settled, lost, committed>>

\* One more record is settled, after every record before it.
Settle(p, o) ==
    /\ origin[p] # NoOffset
    /\ InLog(p, o)
    /\ AccountedBelow(p, o)
    /\ settled' = settled \cup {<<p, o>>}
    /\ UNCHANGED <<log, origin, lost, committed>>

\* Committed offsets move forward over records that are accounted for.
Commit ==
    /\ \A p \in Partitions :
          committed'[p] # committed[p] =>
              /\ committed'[p] > committed[p]
              /\ AccountedBelow(p, committed'[p])
    /\ UNCHANGED <<log, origin, settled, lost>>

\* The consumer moves past records it did not settle.
Lose ==
    /\ lost \subseteq lost'
    /\ \A r \in lost' \ lost : origin[r[1]] # NoOffset /\ InLog(r[1], r[2])
    /\ UNCHANGED <<log, origin, settled, committed>>

Next ==
    \/ \E p \in Partitions : Append(p)
    \/ Assign
    \/ \E p \in Partitions : \E o \in origin[p]..(log[p] - 1) : Settle(p, o)
    \/ Commit
    \/ Lose

Spec == Init /\ [][Next]_vars
=============================================================================
