----------------------------- MODULE ExactlyOnce -----------------------------
(***************************************************************************)
(* What a transactional Kafka flow promises: the consumed offsets and the  *)
(* output move together.  In one step the offsets of some partitions move  *)
(* forward and the output gets exactly one record for each input record    *)
(* they move over, but for those the consumer is known to have dropped.    *)
(***************************************************************************)
EXTENDS Integers

CONSTANT Partitions      \* partitions of the consumed topic

VARIABLES
    consumed,   \* [Partitions -> Nat]: offsets committed
    output,     \* input records whose output is visible
    repeated,   \* input records whose output is visible more than once, never any
    dropped     \* input records the consumer dropped

vars == <<consumed, output, repeated, dropped>>

Span(p, a, b) == {p} \X (a..(b - 1))

Init ==
    /\ consumed = [p \in Partitions |-> 0]
    /\ output = {}
    /\ repeated = {}
    /\ dropped = {}

\* The records between the committed offsets and to.
Batch(to) == UNION {Span(p, consumed[p], to[p]) : p \in Partitions}

\* One transaction takes effect.
Advance ==
    /\ consumed' \in [Partitions -> Nat]
    /\ \A p \in Partitions : consumed'[p] >= consumed[p]
    /\ output \subseteq output'
    /\ output' \ output \subseteq Batch(consumed')
    /\ Batch(consumed') \subseteq (output' \ output) \cup dropped
    /\ UNCHANGED <<repeated, dropped>>

\* The consumer drops records.
Drop ==
    /\ dropped \subseteq dropped'
    /\ UNCHANGED <<consumed, output, repeated>>

Next == Advance \/ Drop

Spec == Init /\ [][Next]_vars
=============================================================================
