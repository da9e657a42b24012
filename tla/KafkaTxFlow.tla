---------------------------- MODULE KafkaTxFlow ----------------------------
(***************************************************************************)
(* A Kafka-to-Kafka flow of fiso-flow under the commit policy              *)
(* "kafka_transaction": the transactional consumer loop of                 *)
(* internal/source/kafka (poll, Begin, handle every record, End), the      *)
(* strict failure handling of internal/pipeline, the Kafka sink that       *)
(* produces through the transaction in its context (internal/sink/kafka,   *)
(* internal/delivery), and the process around them.                        *)
(*                                                                         *)
(* The broker and franz-go's GroupTransactSession are modelled from how    *)
(* the source uses them: End commits the polled offsets and the produced   *)
(* records as one, or neither; End(TryAbort) rewinds the client to the     *)
(* offsets committed last; an open transaction whose producer is gone is   *)
(* aborted by the broker, or by the next Begin under the same              *)
(* transactional id; with RequireStableFetchOffset a starting consumer     *)
(* waits until the offsets of an undecided transaction are decided.        *)
(* startOffset is "earliest", and one member owns every partition.         *)
(***************************************************************************)
EXTENDS Integers

CONSTANTS
    Partitions,                 \* partitions of the consumed topic
    MaxLog,                     \* records produced to each (model bound)
    StopOnHandlerError,         \* source Config.StopOnHandlerError
    RequireStableFetchOffset    \* source Config.RequireStableFetchOffset

ASSUME KafkaTxFlowAssumption ==
    /\ Partitions # {}
    /\ MaxLog \in [Partitions -> Nat]
    /\ StopOnHandlerError \in BOOLEAN
    /\ RequireStableFetchOffset \in BOOLEAN

VARIABLES
    \* the broker
    log,        \* end offset of each partition
    committed,  \* offsets of the consumer group
    tx,         \* the transaction: "none", "open" or "undecided"
    txOut,      \* input records whose output is in the transaction
    txOffsets,  \* offsets in an undecided transaction
    output,     \* input records whose output readers see (read_committed)
    repeated,   \* input records whose output they see twice
    \* the consumer, lost with its process
    position,   \* next offset the client will fetch
    cursor,     \* next offset of the polled batch to hand to the handler
    base,       \* offsets the client knows as committed: where an abort rewinds
    part,       \* partition of the record in hand
    cancelled,  \* the flow's context is done
    pc,         \* the consumer goroutine's next step
    \* history
    dropped     \* records polled with a fetch error and never handed out

txVars == <<tx, txOut, txOffsets>>
outVars == <<committed, output, repeated>>
clientVars == <<position, cursor, base>>
vars == <<log, outVars, txVars, clientVars, part, cancelled, pc, dropped>>

Zero == [p \in Partitions |-> 0]

Steps == {"down", "poll", "begin", "next", "handle", "abort", "commit", "returned"}

InHand == <<part, cursor[part]>>

BatchDone == \A p \in Partitions : cursor[p] = position[p]

Span(p, a, b) == {p} \X (a..(b - 1))

Init ==
    /\ log = Zero
    /\ committed = Zero
    /\ tx = "none"
    /\ txOut = {}
    /\ txOffsets = Zero
    /\ output = {}
    /\ repeated = {}
    /\ position = Zero
    /\ cursor = Zero
    /\ base = Zero
    /\ part \in Partitions
    /\ cancelled = FALSE
    /\ pc = "down"
    /\ dropped = {}

-----------------------------------------------------------------------------
(* The outside: producers, the broker's coordinator, the process.          *)

Produce(p) ==
    /\ log[p] < MaxLog[p]
    /\ log' = [log EXCEPT ![p] = @ + 1]
    /\ UNCHANGED <<outVars, txVars, clientVars, part, cancelled, pc, dropped>>

\* The transaction is gone without effect.
Discard ==
    /\ tx' = "none"
    /\ txOut' = {}
    /\ txOffsets' = Zero

\* The offsets and the output of a transaction become visible together.
TakeEffect(offsets) ==
    /\ committed' = offsets
    /\ output' = output \cup txOut
    /\ repeated' = repeated \cup (output \cap txOut)
    /\ Discard

\* The coordinator aborts a transaction: its timeout, or an EndTxn never came.
BrokerAborts ==
    /\ tx # "none"
    /\ Discard
    /\ UNCHANGED <<log, outVars, clientVars, part, cancelled, pc, dropped>>

\* The EndTxn of an undecided transaction did arrive.
BrokerCommits ==
    /\ tx = "undecided"
    /\ TakeEffect(txOffsets)
    /\ UNCHANGED <<log, clientVars, part, cancelled, pc, dropped>>

\* Mutant: offsets are fetched without waiting for an undecided transaction.
Start_Unstable ==
    /\ pc = "down"
    /\ position' = committed
    /\ cursor' = committed
    /\ base' = committed
    /\ pc' = "poll"
    /\ UNCHANGED <<log, outVars, txVars, part, cancelled, dropped>>

\* The process starts: NewSource, the group's offsets, startTransactional.
Start ==
    /\ pc = "down"
    /\ RequireStableFetchOffset => tx # "undecided"
    /\ position' = committed
    /\ cursor' = committed
    /\ base' = committed
    /\ pc' = "poll"
    /\ UNCHANGED <<log, outVars, txVars, part, cancelled, dropped>>

Cancel ==
    /\ pc # "down"
    /\ ~cancelled
    /\ cancelled' = TRUE
    /\ UNCHANGED <<log, outVars, txVars, clientVars, part, pc, dropped>>

\* The process ends, killed or after run() returned, wherever the loop is.
ProcessEnds ==
    /\ pc # "down"
    /\ pc' = "down"
    /\ position' = Zero
    /\ cursor' = Zero
    /\ base' = Zero
    /\ cancelled' = FALSE
    /\ UNCHANGED <<log, outVars, txVars, part, dropped>>

-----------------------------------------------------------------------------
(* startTransactional.                                                     *)

\* Fetch positions a poll can move to.
Fetches == {f \in [Partitions -> UNION {position[p]..log[p] : p \in Partitions}] :
               \A p \in Partitions : f[p] \in position[p]..log[p]}

\* PollFetches returns records.
Poll ==
    /\ pc = "poll"
    /\ \E f \in Fetches : f # position /\ position' = f
    /\ pc' = "begin"
    /\ UNCHANGED <<log, outVars, txVars, cursor, base, part, cancelled, dropped>>

\* Mutant: nothing looks at the context.
Onward_IgnoresContext == "poll"

\* After a poll without records and after a commit the loop looks at its context.
Onward == IF cancelled THEN "returned" ELSE "poll"

\* PollFetches returns nothing because the context is done.
PollEmpty ==
    /\ pc = "poll"
    /\ cancelled
    /\ pc' = Onward
    /\ UNCHANGED <<log, outVars, txVars, clientVars, part, cancelled, dropped>>

\* PollFetches returns an error, of a partition q or of the context, and
\* perhaps records: the loop polls again without looking at them.
PollError ==
    /\ pc = "poll"
    /\ \E f \in Fetches, q \in Partitions :
          /\ f[q] = position[q] \/ cancelled
          /\ position' = f
          /\ cursor' = f
          /\ dropped' = dropped \cup UNION {Span(p, position[p], f[p]) : p \in Partitions}
    /\ pc' = Onward
    /\ UNCHANGED <<log, outVars, txVars, base, part, cancelled>>

\* Begin: a transaction its producer left open is aborted, one that is
\* undecided is waited for; or it fails, and so does the flow.
Begin ==
    /\ pc = "begin"
    /\ \/ /\ tx # "undecided"
          /\ tx' = "open"
          /\ pc' = "next"
          /\ txOut' = {}
          /\ UNCHANGED txOffsets
       \/ pc' = "returned" /\ UNCHANGED txVars
    /\ UNCHANGED <<log, outVars, clientVars, part, cancelled, dropped>>

NextRecord(p) ==
    /\ pc = "next"
    /\ cursor[p] < position[p]
    /\ p = part \/ cursor[part] = position[part]
    /\ part' = p
    /\ pc' = "handle"
    /\ UNCHANGED <<log, outVars, txVars, clientVars, cancelled, dropped>>

\* Mutant: the sink publishes with its own producer, outside the transaction.
HandleOk_OwnProducer ==
    /\ pc = "handle"
    /\ output' = output \cup {InHand}
    /\ repeated' = repeated \cup (output \cap {InHand})
    /\ cursor' = [cursor EXCEPT ![part] = @ + 1]
    /\ pc' = "next"
    /\ UNCHANGED <<log, committed, txVars, position, base, part, cancelled, dropped>>

\* The pipeline produced the record's output into the transaction.
HandleOk ==
    /\ pc = "handle"
    /\ tx = "open"
    /\ txOut' = txOut \cup {InHand}
    /\ cursor' = [cursor EXCEPT ![part] = @ + 1]
    /\ pc' = "next"
    /\ UNCHANGED <<log, outVars, tx, txOffsets, position, base, part, cancelled, dropped>>

\* The pipeline failed, perhaps after its output reached the transaction.
HandleError ==
    /\ pc = "handle"
    /\ \/ UNCHANGED txOut
       \/ tx = "open" /\ txOut' = txOut \cup {InHand}
    /\ pc' = "abort"
    /\ UNCHANGED <<log, outVars, tx, txOffsets, clientVars, part, cancelled, dropped>>

\* End(TryAbort), and the flow stops or polls again from the rewound offsets;
\* or it fails, and the flow stops.
Abort ==
    /\ pc = "abort"
    /\ \/ /\ Discard
          /\ position' = base
          /\ cursor' = base
          /\ pc' = IF StopOnHandlerError THEN "returned" ELSE "poll"
       \/ pc' = "returned" /\ UNCHANGED <<txVars, position, cursor>>
    /\ UNCHANGED <<log, outVars, base, part, cancelled, dropped>>

EndOfBatch ==
    /\ pc = "next"
    /\ BatchDone
    /\ pc' = "commit"
    /\ UNCHANGED <<log, outVars, txVars, clientVars, part, cancelled, dropped>>

\* Mutant: a commit that turned into an abort is taken for a commit.
CommitAborted_Ignored ==
    /\ pc = "commit"
    /\ Discard
    /\ base' = position
    /\ pc' = "poll"
    /\ UNCHANGED <<log, outVars, position, cursor, part, cancelled, dropped>>

\* End(TryCommit) returns false: the session turned it into an abort.
CommitAborted ==
    /\ pc = "commit"
    /\ Discard
    /\ pc' = "returned"
    /\ UNCHANGED <<log, outVars, clientVars, part, cancelled, dropped>>

\* End(TryCommit) fails before the offsets are in the transaction or after it,
\* when only the broker knows what becomes of it.
CommitError ==
    /\ pc = "commit"
    /\ \/ UNCHANGED txVars
       \/ tx = "open" /\ tx' = "undecided" /\ txOffsets' = position /\ UNCHANGED txOut
    /\ pc' = "returned"
    /\ UNCHANGED <<log, outVars, clientVars, part, cancelled, dropped>>

\* End(TryCommit) returns true.
CommitOk ==
    /\ pc = "commit"
    /\ tx = "open"
    /\ TakeEffect(position)
    /\ base' = position
    /\ pc' = Onward
    /\ UNCHANGED <<log, position, cursor, part, cancelled, dropped>>

-----------------------------------------------------------------------------
Loop ==
    \/ PollEmpty \/ PollError \/ Begin
    \/ \E p \in Partitions : NextRecord(p)
    \/ HandleOk \/ HandleError \/ Abort
    \/ EndOfBatch \/ CommitOk \/ CommitAborted \/ CommitError

Next ==
    \/ \E p \in Partitions : Produce(p)
    \/ BrokerAborts \/ BrokerCommits
    \/ Start \/ Cancel \/ ProcessEnds
    \/ Poll \/ Loop

Spec == Init /\ [][Next]_vars

(***************************************************************************)
(* The goroutine is scheduled, its calls of the broker return, and a poll  *)
(* that has records to return returns them or an error.  An abort leaves   *)
(* the client without buffered records, so a poll with a done context does *)
(* not return records again and again: it returns the context's error.     *)
(***************************************************************************)
Fairness ==
    /\ WF_vars(Loop)
    /\ WF_vars(Poll)
    /\ SF_vars(PollEmpty \/ (PollError /\ cancelled))

FairSpec == Spec /\ Fairness

-----------------------------------------------------------------------------
(* Properties.                                                             *)

Records == Partitions \X Nat

\* The types of the broker's, the client's and the history's state.
TypeOK ==
    /\ log \in [Partitions -> Nat]
    /\ committed \in [Partitions -> Nat]
    /\ tx \in {"none", "open", "undecided"}
    /\ txOut \subseteq Records
    /\ txOffsets \in [Partitions -> Nat]
    /\ output \subseteq Records
    /\ repeated \subseteq Records
    /\ position \in [Partitions -> Nat]
    /\ cursor \in [Partitions -> Nat]
    /\ base \in [Partitions -> Nat]
    /\ part \in Partitions
    /\ cancelled \in BOOLEAN
    /\ pc \in Steps
    /\ dropped \subseteq Records

\* No output is seen twice, whichever of Begin, End, the process and the broker
\* fails at whichever point.
NoOutputTwice == repeated = {}

\* The records below the committed offsets.
Consumed == UNION {Span(p, 0, committed[p]) : p \in Partitions}

\* Offsets and output agree: a record has an output that is seen exactly when it
\* lies below its partition's committed offset, but for the dropped ones.
OutputMatchesOffsets ==
    /\ output \subseteq Consumed
    /\ Consumed \subseteq output \cup dropped

Promise == INSTANCE ExactlyOnce WITH consumed <- committed

\* Every step moves offsets and output together, once.
ImplementsExactlyOnce == Promise!Spec

\* SIGTERM ends the flow: one more transaction at most.
DrainTerminates == cancelled ~> pc \in {"returned", "down"}
=============================================================================
