------------------------------ MODULE KafkaFlow ------------------------------
(***************************************************************************)
(* A Kafka-sourced flow of fiso-flow under the commit policies "sink" and  *)
(* "sink_or_dlq": the consumer loop of internal/source/kafka (poll, handle *)
(* one record, mark, commit), the handler it calls (internal/pipeline:     *)
(* transform, interceptors and CloudEvent wrapping, delivery, failure      *)
(* policy), the HTTP sink's retry loop, the dead letter queue and the      *)
(* process around them (cmd/fiso-flow: one goroutine per flow, SIGTERM).   *)
(*                                                                         *)
(* The broker and franz-go's client are modelled from how the source uses  *)
(* them: a poll moves the client's fetch position past what it returns, a  *)
(* commit writes every marked offset, a restarted process resumes at the   *)
(* committed offset or, when there is none, where the reset policy says.   *)
(* One member owns every partition: rebalances are not modelled.           *)
(***************************************************************************)
EXTENDS Integers

CONSTANTS
    Partitions,           \* partitions of the consumed topic
    MaxLog,               \* records produced to each partition (model bound)
    CommitPolicy,         \* errorHandling.commitPolicy, normalized
    StartOffset,          \* source startOffset: 0 for "earliest", a number no log
                          \* reaches for "latest"
    StopOnHandlerError,   \* source Config.StopOnHandlerError
    MaxAttempts           \* sink retry.maxAttempts after New's normalization

ASSUME KafkaFlowAssumption ==
    /\ Partitions # {}
    /\ MaxLog \in [Partitions -> Nat]
    /\ CommitPolicy \in {"sink", "sink_or_dlq"}
    /\ StartOffset \in Nat
    /\ StopOnHandlerError \in BOOLEAN
    /\ MaxAttempts \in Nat \ {0}

VARIABLES
    \* the broker
    log,        \* end offset of each partition
    committed,  \* committed offset of the consumer group, or NoOffset
    \* the consumer, lost with its process
    position,   \* next offset the client will fetch
    cursor,     \* next offset of the polled batch to hand to the handler
    marked,     \* offset marked for commit, or NoOffset
    part,       \* partition of the record in hand
    attempt,    \* delivery attempt of the record in hand
    cancelled,  \* the flow's context is done (SIGINT or SIGTERM)
    pc,         \* the consumer goroutine's next step
    \* what happened to the records (history)
    origin,     \* first offset the group was assigned, or NoOffset
    acked,      \* records whose sink delivery returned nil
    dlqd,       \* records written to the dead letter topic
    dropped,    \* records polled and then abandoned by the loop
    skipped     \* records a restart resumed past

brokerVars == <<log, committed>>
batchVars == <<position, cursor>>
historyVars == <<origin, acked, dlqd, dropped, skipped>>
vars == <<brokerVars, batchVars, marked, part, attempt, cancelled, pc, historyVars>>

NoOffset == -1

Steps == {"down", "poll", "next", "transform", "deliver", "backoff",
          "dlq", "ack", "failed", "returned"}

\* The record the handler works on.
InHand == <<part, cursor[part]>>

\* The commit policy decides what settles a record: strict "sink" counts the
\* sink only, "sink_or_dlq" also a durable dead letter.
settled == IF CommitPolicy = "sink" THEN acked ELSE acked \cup dlqd

lost == dropped \cup skipped

BatchDone == \A p \in Partitions : cursor[p] = position[p]

\* The records of partition p from offset a up to (not including) b.
Span(p, a, b) == {p} \X (a..(b - 1))

\* The polled records not handled yet.
Rest == UNION {Span(p, cursor[p], position[p]) : p \in Partitions}

Init ==
    /\ log = [p \in Partitions |-> 0]
    /\ committed = [p \in Partitions |-> NoOffset]
    /\ position = [p \in Partitions |-> 0]
    /\ cursor = [p \in Partitions |-> 0]
    /\ marked = [p \in Partitions |-> NoOffset]
    /\ part \in Partitions
    /\ attempt = 0
    /\ cancelled = FALSE
    /\ pc = "down"
    /\ origin = [p \in Partitions |-> NoOffset]
    /\ acked = {}
    /\ dlqd = {}
    /\ dropped = {}
    /\ skipped = {}

-----------------------------------------------------------------------------
(* The outside: producers, the operating system, the process.              *)

Produce(p) ==
    /\ log[p] < MaxLog[p]
    /\ log' = [log EXCEPT ![p] = @ + 1]
    /\ UNCHANGED <<committed, batchVars, marked, part, attempt, cancelled, pc, historyVars>>

\* Where a new consumer of the group starts on partition p: of a start offset past
\* the end of the log the client makes its end.
ResumeAt(p) ==
    IF committed[p] # NoOffset THEN committed[p]
    ELSE IF StartOffset <= log[p] THEN StartOffset ELSE log[p]

\* The process starts: NewSource joins the group, Start enters its loop.
Start ==
    /\ pc = "down"
    /\ position' = [p \in Partitions |-> ResumeAt(p)]
    /\ cursor' = position'
    /\ pc' = "poll"
    /\ origin' = [p \in Partitions |->
                    IF origin[p] = NoOffset THEN ResumeAt(p) ELSE origin[p]]
    /\ skipped' = skipped \cup
         ((UNION {Span(p, origin'[p], ResumeAt(p)) :
                    p \in {q \in Partitions : committed[q] = NoOffset}})
          \ (settled \cup lost))
    /\ UNCHANGED <<brokerVars, marked, part, attempt, cancelled, acked, dlqd, dropped>>

\* SIGINT or SIGTERM cancels the context every flow runs under.
Cancel ==
    /\ pc # "down"
    /\ ~cancelled
    /\ cancelled' = TRUE
    /\ UNCHANGED <<brokerVars, batchVars, marked, part, attempt, pc, historyVars>>

\* A process that ends loses its client's positions and marks and its place in
\* the batch.
ProcessEnds ==
    /\ pc' = "down"
    /\ position' = [p \in Partitions |-> 0]
    /\ cursor' = [p \in Partitions |-> 0]
    /\ marked' = [p \in Partitions |-> NoOffset]
    /\ attempt' = 0
    /\ cancelled' = FALSE
    /\ UNCHANGED <<brokerVars, part, historyVars>>

\* run() does not wait for the flows' goroutines: once the context is done it
\* closes the clients and the process exits, wherever the loop is.
Exit == pc # "down" /\ cancelled /\ ProcessEnds

\* The process is killed.
Crash == pc # "down" /\ ProcessEnds

-----------------------------------------------------------------------------
(* The consumer loop: internal/source/kafka startManualCommit.             *)

\* Fetch positions a poll can move to.
Fetches == {f \in [Partitions -> UNION {position[p]..log[p] : p \in Partitions}] :
               \A p \in Partitions : f[p] \in position[p]..log[p]}

\* PollFetches returns records, or nothing because the context is done.
Poll ==
    /\ pc = "poll"
    /\ \E f \in Fetches :
          /\ f # position \/ cancelled
          /\ position' = f
    /\ pc' = "next"
    /\ UNCHANGED <<brokerVars, cursor, marked, part, attempt, cancelled, historyVars>>

\* PollFetches returns an error, of some partition q or of the context, and
\* perhaps records of the others: the loop polls again without looking at them.
PollError ==
    /\ pc = "poll"
    /\ \E f \in Fetches, q \in Partitions :
          /\ f[q] = position[q] \/ cancelled
          /\ position' = f
          /\ cursor' = f
          /\ dropped' = dropped \cup
                UNION {Span(p, position[p], f[p]) : p \in Partitions}
    /\ pc' = IF cancelled THEN "returned" ELSE "poll"
    /\ UNCHANGED <<brokerVars, marked, part, attempt, cancelled, origin, acked, dlqd, skipped>>

\* The iterator yields the next record, one partition after the other.
NextRecord(p) ==
    /\ pc = "next"
    /\ cursor[p] < position[p]
    /\ p = part \/ cursor[part] = position[part]
    /\ part' = p
    /\ pc' = "transform"
    /\ UNCHANGED <<brokerVars, batchVars, marked, attempt, cancelled, historyVars>>

\* Mutant: the context is not looked at after a batch.
EndOfBatch_IgnoresContext ==
    /\ pc = "next"
    /\ BatchDone
    /\ pc' = "poll"
    /\ UNCHANGED <<brokerVars, batchVars, marked, part, attempt, cancelled, historyVars>>

EndOfBatch ==
    /\ pc = "next"
    /\ BatchDone
    /\ pc' = IF cancelled THEN "returned" ELSE "poll"
    /\ UNCHANGED <<brokerVars, batchVars, marked, part, attempt, cancelled, historyVars>>

\* Mutant: the commit covers the whole batch.
MarkAndCommit_WholeBatch ==
    /\ pc = "ack"
    /\ marked' = position
    /\ \/ committed' = marked'
       \/ UNCHANGED committed
    /\ cursor' = [cursor EXCEPT ![part] = @ + 1]
    /\ pc' = "next"
    /\ UNCHANGED <<log, position, part, attempt, cancelled, historyVars>>

\* The handler returned nil: the record is marked and the marks are committed.
\* A commit error is only logged; the mark stays for the next commit.
MarkAndCommit ==
    /\ pc = "ack"
    /\ marked' = [marked EXCEPT ![part] = cursor[part] + 1]
    /\ \/ committed' = [p \in Partitions |->
                          IF marked'[p] = NoOffset THEN committed[p] ELSE marked'[p]]
       \/ UNCHANGED committed
    /\ cursor' = [cursor EXCEPT ![part] = @ + 1]
    /\ pc' = "next"
    /\ UNCHANGED <<log, position, part, attempt, cancelled, historyVars>>

\* Mutant: the loop continues with the next record of the batch.
HandlerError_Continue ==
    /\ pc = "failed"
    /\ pc' = "next"
    /\ cursor' = [cursor EXCEPT ![part] = @ + 1]
    /\ UNCHANGED <<brokerVars, position, marked, part, attempt, cancelled, historyVars>>

\* The handler returned an error: the rest of the batch is not handled.  With
\* StopOnHandlerError the flow stops, else it polls on, past the failed record.
HandlerError ==
    /\ pc = "failed"
    /\ IF StopOnHandlerError
       THEN /\ pc' = "returned"
            /\ UNCHANGED <<cursor, dropped>>
       ELSE /\ pc' = IF cancelled THEN "returned" ELSE "poll"
            /\ cursor' = position
            /\ dropped' = dropped \cup Rest
    /\ UNCHANGED <<brokerVars, position, marked, part, attempt, cancelled,
                   origin, acked, dlqd, skipped>>

-----------------------------------------------------------------------------
(* The handler: internal/pipeline processEvent, sink and dead letter queue. *)

\* handleFailure: the strict policy returns the cause, the other one tries
\* the dead letter queue first.
HandleFailure ==
    /\ pc' = IF CommitPolicy = "sink" THEN "failed" ELSE "dlq"
    /\ attempt' = 0

\* Transform, interceptors and CloudEvent wrapping, each of which may fail.
Transform ==
    /\ pc = "transform"
    /\ \/ pc' = "deliver" /\ attempt' = 1
       \/ HandleFailure
    /\ UNCHANGED <<brokerVars, batchVars, marked, part, cancelled, historyVars>>

DeliverOk ==
    /\ pc = "deliver"
    /\ acked' = acked \cup {InHand}
    /\ pc' = "ack"
    /\ attempt' = 0
    /\ UNCHANGED <<brokerVars, batchVars, marked, part, cancelled,
                   origin, dlqd, dropped, skipped>>

\* A transient error is retried after a backoff while attempts are left; a
\* permanent one (4xx but 429) or the last attempt fails the delivery.
DeliverError ==
    /\ pc = "deliver"
    /\ \/ attempt < MaxAttempts /\ pc' = "backoff" /\ UNCHANGED attempt
       \/ HandleFailure
    /\ UNCHANGED <<brokerVars, batchVars, marked, part, cancelled, historyVars>>

\* Mutant: the attempt counter is not advanced.
Backoff_NoCount ==
    /\ pc = "backoff"
    /\ \/ cancelled /\ HandleFailure
       \/ pc' = "deliver" /\ UNCHANGED attempt
    /\ UNCHANGED <<brokerVars, batchVars, marked, part, cancelled, historyVars>>

\* The backoff's select: the timer fires, or the context is done; when both are
\* true it takes either.
Backoff ==
    /\ pc = "backoff"
    /\ \/ cancelled /\ HandleFailure
       \/ pc' = "deliver" /\ attempt' = attempt + 1
    /\ UNCHANGED <<brokerVars, batchVars, marked, part, cancelled, historyVars>>

\* Mutant: a failed dead letter publish is only logged.
SendToDLQ_LogOnly ==
    /\ pc = "dlq"
    /\ pc' = "ack"
    /\ \/ dlqd' = dlqd \cup {InHand}
       \/ UNCHANGED dlqd
    /\ UNCHANGED <<brokerVars, batchVars, marked, part, attempt, cancelled,
                   origin, acked, dropped, skipped>>

\* sendToDLQ: a durable dead letter acknowledges the record, a failed publish
\* returns the cause joined with the publish error.
SendToDLQ ==
    /\ pc = "dlq"
    /\ \/ pc' = "ack" /\ dlqd' = dlqd \cup {InHand}
       \/ pc' = "failed" /\ UNCHANGED dlqd
    /\ UNCHANGED <<brokerVars, batchVars, marked, part, attempt, cancelled,
                   origin, acked, dropped, skipped>>

-----------------------------------------------------------------------------
Handle == Transform \/ DeliverOk \/ DeliverError \/ Backoff \/ SendToDLQ

Loop ==
    \/ Poll \/ PollError
    \/ \E p \in Partitions : NextRecord(p)
    \/ EndOfBatch \/ MarkAndCommit \/ HandlerError

Next ==
    \/ \E p \in Partitions : Produce(p)
    \/ Start \/ Cancel \/ Exit \/ Crash
    \/ Loop
    \/ Handle

Spec == Init /\ [][Next]_vars

(***************************************************************************)
(* The goroutine is scheduled (WF on every step but the poll's), and the   *)
(* broker answers: a record it keeps offering is not passed over by polls  *)
(* forever (SF).  Nothing is assumed of restarts, of the sink or the DLQ.  *)
(***************************************************************************)
PollOf(p) == Poll /\ position'[p] > position[p]

Fairness ==
    /\ WF_vars(Handle \/ EndOfBatch \/ MarkAndCommit \/ HandlerError
                 \/ \E p \in Partitions : NextRecord(p))
    /\ WF_vars(Poll \/ PollError)
    /\ \A p \in Partitions : SF_vars(PollOf(p))

FairSpec == Spec /\ Fairness

-----------------------------------------------------------------------------
(* Properties.                                                             *)

Records == Partitions \X Nat
Offsets == Nat \cup {NoOffset}

\* The types of the broker's, the client's and the history's state.
TypeOK ==
    /\ log \in [Partitions -> Nat]
    /\ committed \in [Partitions -> Offsets]
    /\ position \in [Partitions -> Nat]
    /\ cursor \in [Partitions -> Nat]
    /\ marked \in [Partitions -> Offsets]
    /\ part \in Partitions
    /\ attempt \in 0..MaxAttempts
    /\ cancelled \in BOOLEAN
    /\ pc \in Steps
    /\ origin \in [Partitions -> Offsets]
    /\ acked \subseteq Records
    /\ dlqd \subseteq Records
    /\ dropped \subseteq Records
    /\ skipped \subseteq Records

AccountedBelow(p, n) ==
    \A o \in origin[p]..(n - 1) : <<p, o>> \in settled \cup lost

\* The commit policies' promise: below a committed offset, every record was
\* settled as the policy demands, or is one of those the loop is known to
\* abandon.  Commit errors, retries, drains and crashes do not break it.
CommittedAccounted ==
    \A p \in Partitions :
        committed[p] # NoOffset => AccountedBelow(p, committed[p])

\* A partition's records are settled in order: none overtakes an earlier one,
\* not even across restarts and redeliveries.
SettledInOrder ==
    \A r \in settled : AccountedBelow(r[1], r[2])

\* The group's committed offset never goes back, not after a failed commit,
\* not in a restarted process that redelivers.
CommitMonotone ==
    [][\A p \in Partitions : committed'[p] >= committed[p]]_vars

\* SIGTERM ends the flow: it handles at most the batch it polled, whatever the
\* handler returns and however many retries are left, and leaves its loop.
DrainTerminates == cancelled ~> pc \in {"returned", "down"}

\* No record waits forever in a running flow: it is settled, abandoned, or
\* the flow is no longer running.
NoRecordStuck ==
    \A p \in Partitions : \A o \in 0..(MaxLog[p] - 1) :
        (origin[p] # NoOffset /\ o \in origin[p]..(log[p] - 1))
            ~> \/ <<p, o>> \in settled \cup lost
               \/ pc \in {"returned", "down"}

\* hld-specification.md 7.3: "Resumes from last committed consumer offset. No
\* message loss."  Every record below a committed offset was settled.
NoMessageLoss ==
    \A p \in Partitions :
        committed[p] # NoOffset =>
            \A o \in origin[p]..(committed[p] - 1) : <<p, o>> \in settled \cup skipped

Delivery == INSTANCE OrderedDelivery

\* A flow implements the ordered at-least-once promise.
ImplementsDelivery == Delivery!Spec
=============================================================================
