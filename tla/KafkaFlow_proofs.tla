-------------------------- MODULE KafkaFlow_proofs --------------------------
(***************************************************************************)
(* KafkaFlow for any set of partitions, any log bound, policy, start       *)
(* offset and retry count: type correctness, the accounting of committed   *)
(* offsets, in-order settlement, monotone commits, and the implementation  *)
(* of OrderedDelivery.  Then TemporalFlow, for any flow definitions and    *)
(* events: a step of it is a step of KafkaFlow, so all of this carries     *)
(* over, and the server's runs are related to the flow's history.          *)
(***************************************************************************)
EXTENDS TemporalFlow, SequenceTheorems, TLAPS

\* Steps at which the loop has a record in hand.
Handling == {"transform", "deliver", "backoff", "dlq", "ack", "failed"}

\* Per partition: offsets are ordered origin <= committed <= marked <= cursor
\* <= position <= log as far as they are set.
Ordered(p) ==
    /\ origin[p] <= log[p]
    /\ committed[p] <= log[p]
    /\ committed[p] # NoOffset => origin[p] # NoOffset /\ origin[p] <= committed[p]
    /\ origin[p] <= StartOffset
    /\ pc = "down" => marked[p] = NoOffset
    /\ pc # "down" =>
          /\ origin[p] # NoOffset
          /\ origin[p] <= cursor[p]
          /\ cursor[p] <= position[p]
          /\ position[p] <= log[p]
          /\ committed[p] <= cursor[p]
          /\ marked[p] # NoOffset =>
                /\ origin[p] <= marked[p]
                /\ committed[p] <= marked[p]
                /\ marked[p] <= cursor[p]

\* Where the loop is says how far it got with the batch.
Control ==
    /\ pc = "poll" => BatchDone
    /\ pc \in Handling => cursor[part] < position[part]
    /\ pc = "ack" => InHand \in settled
    /\ pc = "dlq" => CommitPolicy # "sink"
    /\ pc = "backoff" => attempt < MaxAttempts

\* What lies below the cursor of a running loop is accounted for: this is what
\* makes a commit of a mark safe.
CursorAccounted ==
    pc # "down" => \A p \in Partitions : AccountedBelow(p, cursor[p])

\* A record that was settled or lost is a record of an assigned partition.
HistoryInLog ==
    \A r \in settled \cup lost :
        /\ r \in Records
        /\ origin[r[1]] # NoOffset
        /\ origin[r[1]] <= r[2]
        /\ r[2] < log[r[1]]

\* The first start assigns every partition at once.
AssignedTogether ==
    \/ \A p \in Partitions : origin[p] = NoOffset
    \/ \A p \in Partitions : origin[p] # NoOffset

\* The inductive invariant.
IInv ==
    /\ TypeOK
    /\ AssignedTogether
    /\ HistoryInLog
    /\ \A p \in Partitions : Ordered(p)
    /\ Control
    /\ CursorAccounted
    /\ CommittedAccounted
    /\ SettledInOrder

\* What is accounted for.
AccountedSet == settled \cup lost

-----------------------------------------------------------------------------
\* A record accounted for stays accounted for when the history only grows.
LEMMA AccountedPreserved ==
    ASSUME NEW p, NEW n,
           origin'[p] = origin[p], AccountedSet \subseteq AccountedSet',
           AccountedBelow(p, n)
    PROVE  AccountedBelow(p, n)'
BY DEF AccountedBelow, AccountedSet

\* The initial states satisfy the inductive invariant.
LEMMA InitInv == Init => IInv
<1> SUFFICES ASSUME Init PROVE IInv
  OBVIOUS
<1> USE KafkaFlowAssumption DEF KafkaFlowAssumption, Init, NoOffset
<1>1. TypeOK
  <2>1. log \in [Partitions -> Nat]
    OBVIOUS
  <2>2. committed \in [Partitions -> Offsets]
    BY DEF Offsets
  <2>3. part \in Partitions /\ pc \in Steps /\ cancelled \in BOOLEAN
    BY DEF Steps
  <2>4. attempt \in 0..MaxAttempts
    OBVIOUS
  <2>5. acked \subseteq Records /\ marked \in [Partitions -> Offsets]
    BY DEF Records, Offsets
  <2> QED
    BY <2>1, <2>2, <2>3, <2>4, <2>5 DEF TypeOK, Offsets, Records
<1>2. ASSUME NEW p \in Partitions PROVE Ordered(p)
  <2>1. /\ log[p] = 0 /\ origin[p] = -1 /\ committed[p] = -1
        /\ marked[p] = -1 /\ pc = "down" /\ StartOffset \in Nat
    OBVIOUS
  <2> QED
    BY ONLY <2>1 DEF Ordered, NoOffset
<1>3. Control
  BY DEF Control, Handling
<1>4. CursorAccounted /\ CommittedAccounted
  BY DEF CursorAccounted, CommittedAccounted
<1>5. SettledInOrder /\ HistoryInLog /\ AssignedTogether
  BY DEF SettledInOrder, HistoryInLog, settled, lost, AssignedTogether
<1> QED
  BY <1>1, <1>2, <1>3, <1>4, <1>5 DEF IInv

\* Produce only lengthens a log.
LEMMA ProduceInv == ASSUME IInv, NEW p \in Partitions, Produce(p) PROVE IInv'
<1> USE DEF Produce, brokerVars, batchVars, historyVars, IInv
<1>1. TypeOK'
  BY DEF TypeOK
<1>2. \A q \in Partitions : Ordered(q)'
  BY DEF TypeOK, Ordered, Offsets, NoOffset
<1>3. Control'
  BY DEF Control, BatchDone, InHand, settled
<1>4. CursorAccounted' /\ CommittedAccounted' /\ SettledInOrder'
  BY DEF CursorAccounted, CommittedAccounted, SettledInOrder, AccountedBelow, settled, lost
<1>5. HistoryInLog' /\ AssignedTogether'
  BY DEF HistoryInLog, TypeOK, Records, settled, lost, AssignedTogether
<1> QED
  BY <1>1, <1>2, <1>3, <1>4, <1>5

\* The steps that only move the goroutine, its context or its attempt counter.
LEMMA ControlOnlyInv ==
    ASSUME IInv, UNCHANGED <<brokerVars, batchVars, marked, historyVars>>,
           part' \in Partitions, attempt' \in 0..MaxAttempts,
           cancelled' \in BOOLEAN, pc' \in Steps \ {"down"}, pc # "down",
           Control'
    PROVE  IInv'
<1> USE DEF brokerVars, batchVars, historyVars, IInv
<1>1. TypeOK'
  BY DEF TypeOK
<1>2. \A q \in Partitions : Ordered(q)'
  BY DEF Ordered
<1>3. CursorAccounted' /\ CommittedAccounted' /\ SettledInOrder'
  BY DEF CursorAccounted, CommittedAccounted, SettledInOrder, AccountedBelow, settled, lost
<1>4. HistoryInLog' /\ AssignedTogether'
  BY DEF HistoryInLog, Records, settled, lost, AssignedTogether
<1> QED
  BY <1>1, <1>2, <1>3, <1>4

\* The steps of the loop and the handler that decide nothing about a record.
LEMMA ControlStepsInv ==
    ASSUME IInv,
           \/ Cancel \/ EndOfBatch \/ Transform \/ DeliverError \/ Backoff
           \/ \E p \in Partitions : NextRecord(p)
    PROVE  IInv'
<1> USE KafkaFlowAssumption DEF KafkaFlowAssumption, IInv, Control, Handling, BatchDone, InHand, settled,
        brokerVars, batchVars, historyVars, TypeOK, Steps
<1>1. CASE Cancel
  BY <1>1, ControlOnlyInv DEF Cancel
<1>2. CASE EndOfBatch
  BY <1>2, ControlOnlyInv DEF EndOfBatch
<1>3. CASE Transform
  BY <1>3, ControlOnlyInv DEF Transform, HandleFailure
<1>4. CASE DeliverError
  BY <1>4, ControlOnlyInv DEF DeliverError, HandleFailure
<1>5. CASE Backoff
  BY <1>5, ControlOnlyInv DEF Backoff, HandleFailure
<1>6. ASSUME NEW p \in Partitions, NextRecord(p) PROVE IInv'
  BY <1>6, ControlOnlyInv DEF NextRecord
<1> QED
  BY <1>1, <1>2, <1>3, <1>4, <1>5, <1>6

-----------------------------------------------------------------------------
\* A start resumes every partition at or after its origin, and names what it
\* resumes past.
LEMMA StartInv == ASSUME IInv, Start PROVE IInv'
<1> USE KafkaFlowAssumption
    DEF KafkaFlowAssumption, Start, brokerVars, IInv, NoOffset, Offsets
<1>0. \A p \in Partitions : ResumeAt(p) \in Nat
  BY DEF ResumeAt, TypeOK
<1>1. TypeOK'
  <2>1. origin' \in [Partitions -> Offsets]
    BY <1>0 DEF TypeOK
  <2>2. skipped' \subseteq Records
    BY <1>0, <2>1 DEF TypeOK, Records, Span
  <2> QED
    BY <1>0, <2>1, <2>2 DEF TypeOK, Steps
<1>2. \A p \in Partitions : Ordered(p)'
  BY <1>0 DEF TypeOK, Ordered, ResumeAt
<1>3. Control'
  BY DEF Control, Handling, BatchDone, TypeOK
<1>4. AccountedSet \subseteq AccountedSet'
  BY DEF AccountedSet, settled, lost
<1>5. CommittedAccounted'
  <2> SUFFICES ASSUME NEW p \in Partitions, committed[p] # NoOffset
               PROVE  AccountedBelow(p, committed[p])'
    BY DEF CommittedAccounted
  <2>1. origin'[p] = origin[p]
    BY DEF Ordered, TypeOK
  <2> QED
    BY <1>4, <2>1, AccountedPreserved DEF CommittedAccounted
<1>6. CursorAccounted'
  <2> SUFFICES ASSUME NEW p \in Partitions
               PROVE  AccountedBelow(p, cursor[p])'
    BY DEF CursorAccounted
  <2>1. CASE committed[p] # NoOffset
    BY <1>5, <2>1 DEF CommittedAccounted, ResumeAt, TypeOK
  <2>2. CASE committed[p] = NoOffset
    <3>1. cursor'[p] = ResumeAt(p)
      OBVIOUS
    <3>2. Span(p, origin'[p], ResumeAt(p)) \subseteq skipped' \cup settled \cup lost
      BY <2>2
    <3>3. skipped' \cup settled \cup lost \subseteq (settled \cup lost)'
      BY DEF settled, lost
    <3>4. \A o \in origin'[p]..(ResumeAt(p) - 1) : <<p, o>> \in (settled \cup lost)'
      BY <3>2, <3>3 DEF Span
    <3> QED
      BY <3>1, <3>4 DEF AccountedBelow
  <2> QED
    BY <2>1, <2>2
<1>7. SettledInOrder'
  <2> SUFFICES ASSUME NEW r \in settled PROVE AccountedBelow(r[1], r[2])'
    BY DEF SettledInOrder, settled
  <2>1. r \in Records
    BY DEF TypeOK, settled
  <2>2. r[1] \in Partitions /\ r[2] \in Nat /\ AccountedBelow(r[1], r[2])
    BY <2>1 DEF Records, SettledInOrder
  <2>3. origin'[r[1]] = origin[r[1]]
    BY <2>2 DEF TypeOK, HistoryInLog
  <2> QED
    BY <1>4, <2>2, <2>3, AccountedPreserved
<1>8. HistoryInLog'
  <2> SUFFICES ASSUME NEW r \in (settled \cup lost)'
               PROVE  /\ r \in Records
                      /\ origin'[r[1]] # NoOffset
                      /\ origin'[r[1]] <= r[2]
                      /\ r[2] < log[r[1]]
    BY DEF HistoryInLog
  <2>1. CASE r \in settled \cup lost
    BY <2>1 DEF HistoryInLog, TypeOK, Records
  <2>2. CASE r \in skipped' \ (settled \cup lost)
    <3>1. PICK p \in Partitions :
             committed[p] = NoOffset /\ r \in Span(p, origin'[p], ResumeAt(p))
      BY <2>2 DEF lost
    <3>2. PICK o \in origin'[p]..(ResumeAt(p) - 1) : r = <<p, o>>
      BY <3>1 DEF Span
    <3>3. ResumeAt(p) <= log[p] /\ log[p] \in Nat
      BY <3>1, <1>0 DEF ResumeAt, TypeOK
    <3>4. origin'[p] # NoOffset /\ origin'[p] \in Nat
      BY <3>1, <1>0, <1>1 DEF TypeOK
    <3> QED
      BY <3>1, <3>2, <3>3, <3>4, <1>0 DEF Records
  <2> QED
    BY <2>1, <2>2 DEF settled, lost
<1>9. AssignedTogether'
  BY <1>2 DEF AssignedTogether, Ordered
<1> QED
  BY <1>1, <1>2, <1>3, <1>5, <1>6, <1>7, <1>8, <1>9

-----------------------------------------------------------------------------
\* A process that ends keeps the broker's state and the records' history.
LEMMA ProcessEndsInv == ASSUME IInv, pc # "down", ProcessEnds PROVE IInv'
<1> USE KafkaFlowAssumption
    DEF KafkaFlowAssumption, ProcessEnds, brokerVars, historyVars, IInv
<1>1. TypeOK'
  <2>1. position' \in [Partitions -> Nat] /\ cursor' \in [Partitions -> Nat]
    OBVIOUS
  <2>2. marked' \in [Partitions -> Offsets]
    BY DEF Offsets
  <2>a. attempt' \in 0..MaxAttempts
    BY ONLY KafkaFlowAssumption, attempt' = 0 DEF KafkaFlowAssumption
  <2>3. attempt' \in 0..MaxAttempts /\ cancelled' \in BOOLEAN /\ pc' \in Steps
    BY <2>a DEF Steps
  <2>4. /\ log' = log /\ committed' = committed /\ part' = part /\ origin' = origin
        /\ acked' = acked /\ dlqd' = dlqd /\ dropped' = dropped /\ skipped' = skipped
    OBVIOUS
  <2> QED
    BY ONLY TypeOK, <2>1, <2>2, <2>3, <2>4 DEF TypeOK
<1>2. \A p \in Partitions : Ordered(p)'
  BY DEF Ordered, TypeOK
<1>3. Control' /\ CursorAccounted'
  BY DEF Control, Handling, CursorAccounted
<1>4. CommittedAccounted' /\ SettledInOrder' /\ HistoryInLog' /\ AssignedTogether'
  BY DEF CommittedAccounted, SettledInOrder, HistoryInLog, AccountedBelow, settled, lost,
         Records, AssignedTogether
<1> QED
  BY <1>1, <1>2, <1>3, <1>4

\* A poll hands out records the broker has, and moves nothing else.
LEMMA PollInv == ASSUME IInv, Poll PROVE IInv'
<1> USE DEF Poll, Fetches, brokerVars, historyVars, IInv
<1>1. TypeOK'
  BY DEF TypeOK, Steps
<1>2. \A p \in Partitions : position'[p] >= position[p] /\ position'[p] <= log[p]
  BY DEF TypeOK
<1>3. \A p \in Partitions : Ordered(p)'
  BY <1>1, <1>2 DEF Ordered, TypeOK
<1>4. Control'
  BY DEF Control, Handling
<1>5. /\ CursorAccounted' /\ CommittedAccounted' /\ SettledInOrder' /\ HistoryInLog'
      /\ AssignedTogether'
  BY DEF CursorAccounted, CommittedAccounted, SettledInOrder, HistoryInLog,
         AccountedBelow, settled, lost, Records, AssignedTogether
<1> QED
  BY <1>1, <1>3, <1>4, <1>5

\* The cursor jumps to the end of what was polled, and everything it jumps over
\* is named as dropped: PollError, and HandlerError when the loop polls on.
LEMMA JumpInv ==
    ASSUME IInv, pc # "down",
           position' \in [Partitions -> Nat], cursor' = position',
           \A p \in Partitions : position'[p] >= position[p] /\ position'[p] <= log[p],
           dropped' = dropped \cup
               UNION {Span(p, cursor[p], position'[p]) : p \in Partitions},
           pc' \in {"poll", "returned"},
           UNCHANGED <<brokerVars, marked, part, attempt, cancelled,
                       origin, acked, dlqd, skipped>>
    PROVE  IInv'
<1> USE DEF brokerVars, IInv
<1>1. TypeOK'
  BY DEF TypeOK, Steps, Records, Span
<1>2. \A p \in Partitions : Ordered(p)'
  BY <1>1 DEF Ordered, TypeOK, Offsets, NoOffset
<1>3. Control'
  BY DEF Control, Handling, BatchDone
<1>4. AccountedSet \subseteq AccountedSet' /\ settled' = settled
  BY DEF AccountedSet, settled, lost
<1>5. CommittedAccounted' /\ SettledInOrder'
  BY <1>4, AccountedPreserved DEF CommittedAccounted, SettledInOrder
<1>6. CursorAccounted'
  <2> SUFFICES ASSUME NEW p \in Partitions,
                      NEW o \in origin[p]..(position'[p] - 1)
               PROVE  <<p, o>> \in (settled \cup lost)'
    BY DEF CursorAccounted, AccountedBelow
  <2>1. CASE o < cursor[p]
    BY <2>1, <1>4 DEF CursorAccounted, AccountedBelow, AccountedSet, TypeOK, Offsets, NoOffset
  <2>2. CASE o >= cursor[p]
    <3>1. <<p, o>> \in Span(p, cursor[p], position'[p])
      BY <2>2 DEF Span, TypeOK, Offsets, NoOffset
    <3> QED
      BY <3>1 DEF lost
  <2> QED
    BY <2>1, <2>2 DEF TypeOK, Offsets, NoOffset
<1>7. HistoryInLog'
  <2> SUFFICES ASSUME NEW r \in (settled \cup lost)'
               PROVE  /\ r \in Records /\ origin[r[1]] # NoOffset
                      /\ origin[r[1]] <= r[2] /\ r[2] < log[r[1]]
    BY DEF HistoryInLog
  <2>1. CASE r \in settled \cup lost
    BY <2>1 DEF HistoryInLog
  <2>2. CASE r \notin settled \cup lost
    <3>1. PICK p \in Partitions : r \in Span(p, cursor[p], position'[p])
      BY <2>2, <1>4 DEF lost
    <3>2. PICK o \in cursor[p]..(position'[p] - 1) : r = <<p, o>>
      BY <3>1 DEF Span
    <3>3. /\ cursor[p] \in Nat /\ log[p] \in Nat /\ origin[p] \in Nat
          /\ origin[p] # NoOffset /\ origin[p] <= cursor[p] /\ position'[p] <= log[p]
      BY DEF TypeOK, Ordered, Offsets
    <3> QED
      BY <3>2, <3>3 DEF Records
  <2> QED
    BY <2>1, <2>2
<1>8. AssignedTogether'
  BY DEF AssignedTogether
<1> QED
  BY <1>1, <1>2, <1>3, <1>5, <1>6, <1>7, <1>8

\* A poll that reports an error drops the records it came with.
LEMMA PollErrorInv == ASSUME IInv, PollError PROVE IInv'
<1>1. \A p \in Partitions : position[p] = cursor[p]
  BY DEF IInv, Control, BatchDone, PollError
<1>2. PICK f \in Fetches :
         /\ position' = f /\ cursor' = f
         /\ dropped' = dropped \cup UNION {Span(p, position[p], f[p]) : p \in Partitions}
  BY DEF PollError
<1>3. /\ f \in [Partitions -> Nat]
      /\ \A p \in Partitions : f[p] >= position[p] /\ f[p] <= log[p]
  BY DEF Fetches, IInv, TypeOK
<1>4. dropped' = dropped \cup UNION {Span(p, cursor[p], position'[p]) : p \in Partitions}
  BY <1>1, <1>2
<1> QED
  BY <1>2, <1>3, <1>4, JumpInv DEF PollError

\* A handler error stops the flow, or drops the rest of the batch.
LEMMA HandlerErrorInv == ASSUME IInv, HandlerError PROVE IInv'
<1>1. CASE StopOnHandlerError
  BY <1>1, ControlOnlyInv
     DEF HandlerError, IInv, TypeOK, Control, Handling, batchVars, historyVars, Steps
<1>2. CASE ~StopOnHandlerError
  <2>1. \A p \in Partitions : position[p] >= position[p] /\ position[p] <= log[p]
    BY DEF HandlerError, IInv, Ordered, TypeOK
  <2> QED
    BY <1>2, <2>1, JumpInv DEF HandlerError, Rest, IInv, TypeOK
<1> QED
  BY <1>1, <1>2

\* The record in hand is settled, or its delivery is recorded without settling
\* it: a dead letter under "sink" does not happen, a repeated one adds nothing.
LEMMA SettleInv ==
    ASSUME IInv, pc \in Handling,
           \/ acked' = acked \cup {InHand} /\ UNCHANGED dlqd
           \/ dlqd' = dlqd \cup {InHand} /\ UNCHANGED acked /\ CommitPolicy # "sink",
           pc' = "ack", attempt' \in 0..MaxAttempts,
           UNCHANGED <<brokerVars, batchVars, marked, part, cancelled,
                       origin, dropped, skipped>>
    PROVE  IInv'
<1> USE DEF IInv, brokerVars, batchVars
<1>1. /\ part \in Partitions /\ cursor[part] \in Nat /\ pc # "down"
      /\ origin[part] \in Nat /\ log[part] \in Nat /\ position[part] \in Nat
      /\ origin[part] <= cursor[part] /\ cursor[part] < log[part]
  BY DEF TypeOK, Ordered, Control, Handling, Offsets, NoOffset
<1>2. settled' = settled \cup {InHand} /\ lost' = lost
  BY DEF settled, lost
<1>3. TypeOK'
  BY <1>1 DEF TypeOK, Steps, InHand, Records
<1>4. \A p \in Partitions : Ordered(p)'
  BY <1>1 DEF Ordered
<1>5. Control'
  BY <1>1, <1>2 DEF Control, Handling, InHand
<1>6. AccountedSet \subseteq AccountedSet'
  BY <1>2 DEF AccountedSet
<1>7. CursorAccounted' /\ CommittedAccounted'
  BY <1>1, <1>6, AccountedPreserved DEF CursorAccounted, CommittedAccounted
<1>8. SettledInOrder'
  <2> SUFFICES ASSUME NEW r \in settled' PROVE AccountedBelow(r[1], r[2])'
    BY DEF SettledInOrder
  <2>1. AccountedBelow(r[1], r[2])
    BY <1>1, <1>2 DEF SettledInOrder, CursorAccounted, InHand
  <2> QED
    BY <2>1, <1>6, AccountedPreserved
<1>9. HistoryInLog'
  BY <1>1, <1>2 DEF HistoryInLog, InHand, Records, NoOffset
<1>10. AssignedTogether'
  BY DEF AssignedTogether
<1> QED
  BY <1>3, <1>4, <1>5, <1>7, <1>8, <1>9, <1>10

\* A delivery, and a dead letter that may or may not be written.
LEMMA SettlingStepsInv == ASSUME IInv, DeliverOk \/ SendToDLQ PROVE IInv'
<1> USE KafkaFlowAssumption DEF KafkaFlowAssumption
<1>1. CASE DeliverOk
  BY <1>1, SettleInv DEF DeliverOk, Handling
<1>2. CASE SendToDLQ /\ pc' = "failed"
  BY <1>2, ControlOnlyInv
     DEF SendToDLQ, IInv, TypeOK, Steps, Control, Handling, brokerVars, batchVars, historyVars
<1>3. CASE SendToDLQ /\ pc' = "ack"
  <2>1. CASE CommitPolicy # "sink"
    BY <1>3, <2>1, SettleInv DEF SendToDLQ, Handling, IInv, TypeOK
  <2>2. CASE CommitPolicy = "sink"
    BY <1>3, <2>2 DEF SendToDLQ, IInv, Control
  <2> QED
    BY <2>1, <2>2
<1> QED
  BY <1>1, <1>2, <1>3 DEF SendToDLQ

\* The record in hand is settled, so the cursor may pass it; the marks a commit
\* writes lie at or below cursors, so what they cover is accounted for.
LEMMA MarkAndCommitInv == ASSUME IInv, MarkAndCommit PROVE IInv'
<1> USE DEF IInv, MarkAndCommit, historyVars
<1>1. /\ part \in Partitions /\ pc # "down" /\ InHand \in settled
      /\ cursor[part] < position[part]
  BY DEF TypeOK, Control, Handling
<1>2. TypeOK'
  BY <1>1 DEF TypeOK, Steps, Offsets, NoOffset
<1>3. settled' = settled /\ lost' = lost /\ AccountedSet \subseteq AccountedSet'
  BY DEF settled, lost, AccountedSet
<1>4. CursorAccounted'
  <2> SUFFICES ASSUME NEW p \in Partitions,
                      NEW o \in origin[p]..(cursor'[p] - 1)
               PROVE  <<p, o>> \in settled \cup lost
    BY <1>3 DEF CursorAccounted, AccountedBelow
  <2>1. \A i \in origin[p]..(cursor[p] - 1) : <<p, i>> \in settled \cup lost
    BY <1>1 DEF CursorAccounted, AccountedBelow
  <2>2. CASE p = part /\ o = cursor[part]
    BY <2>2, <1>1 DEF InHand
  <2>3. CASE o < cursor[p]
    BY <2>1, <2>3 DEF TypeOK, Offsets, NoOffset
  <2> QED
    BY <2>2, <2>3, <1>1 DEF TypeOK, Offsets, NoOffset
<1>5. ASSUME NEW p \in Partitions PROVE Ordered(p)'
  <2>1. Ordered(p) /\ pc # "down" /\ pc' # "down"
    BY <1>1
  <2>2. /\ marked'[p] = IF p = part THEN cursor[p] + 1 ELSE marked[p]
        /\ cursor'[p] = IF p = part THEN cursor[p] + 1 ELSE cursor[p]
        /\ committed'[p] \in {committed[p], marked'[p]}
        /\ marked'[p] = NoOffset => committed'[p] = committed[p]
        /\ p = part => cursor[p] < position[p]
    BY <1>1 DEF TypeOK
  <2>3. /\ origin[p] \in Offsets /\ log[p] \in Nat /\ committed[p] \in Offsets
        /\ cursor[p] \in Nat /\ position[p] \in Nat /\ marked[p] \in Offsets
    BY DEF TypeOK
  <2>. HIDE DEF MarkAndCommit, IInv
  <2>a. /\ origin[p] # -1 /\ origin[p] <= cursor[p] /\ committed[p] <= cursor[p]
        /\ cursor[p] <= position[p] /\ position[p] <= log[p]
        /\ marked[p] # -1 =>
              origin[p] <= marked[p] /\ committed[p] <= marked[p] /\ marked[p] <= cursor[p]
        /\ committed[p] # -1 => origin[p] <= committed[p]
        /\ origin[p] <= StartOffset
        /\ origin[p] <= log[p] /\ committed[p] <= log[p]
    BY <2>1 DEF Ordered, NoOffset
  <2>4. marked'[p] # NoOffset =>
           origin[p] <= marked'[p] /\ committed'[p] <= marked'[p] /\ marked'[p] <= cursor'[p]
    BY <2>a, <2>2, <2>3 DEF Offsets, NoOffset
  <2>5. committed'[p] <= cursor'[p] /\ cursor'[p] <= position[p]
    BY <2>a, <2>2, <2>3 DEF Offsets, NoOffset
  <2>6. committed'[p] # NoOffset => origin[p] <= committed'[p]
    BY <2>a, <2>2, <2>3 DEF Offsets, NoOffset
  <2>7. origin[p] <= cursor'[p] /\ committed'[p] <= log[p]
    BY <2>a, <2>2, <2>3, <2>5 DEF Offsets, NoOffset
  <2>8. origin' = origin /\ log' = log /\ position' = position
    BY DEF MarkAndCommit, historyVars
  <2> QED
    BY <2>1, <2>a, <2>4, <2>5, <2>6, <2>7, <2>8 DEF Ordered, NoOffset
<1>6. Control' /\ SettledInOrder' /\ HistoryInLog' /\ AssignedTogether'
  BY <1>3 DEF Control, Handling, SettledInOrder, HistoryInLog, AccountedBelow, AssignedTogether
<1>7. CommittedAccounted'
  <2> SUFFICES ASSUME NEW p \in Partitions, committed'[p] # NoOffset
               PROVE  AccountedBelow(p, committed[p])'
    BY DEF CommittedAccounted
  <2>1. committed'[p] <= cursor'[p] /\ AccountedBelow(p, cursor[p])'
    BY <1>4, <1>5 DEF CursorAccounted, Ordered
  <2> QED
    BY <2>1, <1>2 DEF AccountedBelow, TypeOK, Offsets, NoOffset
<1> QED
  BY <1>2, <1>4, <1>5, <1>6, <1>7

-----------------------------------------------------------------------------
\* Every step preserves the inductive invariant.
LEMMA NextInv == ASSUME IInv, [Next]_vars PROVE IInv'
<1>1. ASSUME NEW p \in Partitions, Produce(p) PROVE IInv'
  BY <1>1, ProduceInv
<1>2. CASE Start
  BY <1>2, StartInv
<1>3. CASE Exit \/ Crash
  BY <1>3, ProcessEndsInv DEF Exit, Crash
<1>4. CASE Poll
  BY <1>4, PollInv
<1>5. CASE PollError
  BY <1>5, PollErrorInv
<1>6. CASE HandlerError
  BY <1>6, HandlerErrorInv
<1>7. CASE DeliverOk \/ SendToDLQ
  BY <1>7, SettlingStepsInv
<1>8. CASE MarkAndCommit
  BY <1>8, MarkAndCommitInv
<1>9. CASE \/ Cancel \/ EndOfBatch \/ Transform \/ DeliverError \/ Backoff
           \/ \E p \in Partitions : NextRecord(p)
  BY <1>9, ControlStepsInv
<1>10. CASE UNCHANGED vars
  BY <1>10 DEF vars, brokerVars, batchVars, historyVars, IInv, TypeOK, HistoryInLog,
               Ordered, Control, CursorAccounted, CommittedAccounted, SettledInOrder,
               AccountedBelow, BatchDone, InHand, settled, lost, Records,
               AssignedTogether
<1> QED
  BY <1>1, <1>2, <1>3, <1>4, <1>5, <1>6, <1>7, <1>8, <1>9, <1>10 DEF Next, Loop, Handle

\* The inductive invariant holds of every behaviour.
THEOREM FlowInvariant == Spec => []IInv
BY InitInv, NextInv, PTL DEF Spec

\* Every variable of the flow keeps its type.
THEOREM FlowTypeCorrect == Spec => []TypeOK
BY FlowInvariant, PTL DEF IInv

\* Whatever fails, and wherever the process dies, a committed offset covers
\* only records settled as the policy demands or named as abandoned.
THEOREM FlowCommitsAccounted == Spec => []CommittedAccounted
BY FlowInvariant, PTL DEF IInv

\* Records of a partition are settled in order.
THEOREM FlowSettlesInOrder == Spec => []SettledInOrder
BY FlowInvariant, PTL DEF IInv

\* A step never moves a committed offset back.
LEMMA CommitStep ==
    ASSUME IInv, Next PROVE \A p \in Partitions : committed'[p] >= committed[p]
<1> USE DEF IInv, TypeOK, Offsets, NoOffset
<1>1. CASE MarkAndCommit
  <2> SUFFICES ASSUME NEW p \in Partitions PROVE committed'[p] >= committed[p]
    OBVIOUS
  <2>1. /\ committed[p] <= cursor[p]
        /\ marked[p] # NoOffset => committed[p] <= marked[p]
    BY <1>1 DEF MarkAndCommit, Ordered
  <2> QED
    BY <1>1, <2>1 DEF MarkAndCommit
<1>2. CASE UNCHANGED committed
  BY <1>2
<1>3. MarkAndCommit \/ UNCHANGED committed
  BY DEF Next, Produce, Start, Cancel, Exit, Crash, ProcessEnds, Loop, Handle, Poll,
         PollError, NextRecord, EndOfBatch, HandlerError, Transform, DeliverOk,
         DeliverError, Backoff, SendToDLQ, brokerVars
<1> QED
  BY <1>1, <1>2, <1>3

\* The group's committed offsets only move forward.
THEOREM FlowCommitsForward == Spec => CommitMonotone
<1>1. IInv /\ [Next]_vars => [\A p \in Partitions : committed'[p] >= committed[p]]_vars
  BY CommitStep
<1> QED
  BY <1>1, FlowInvariant, PTL DEF Spec, CommitMonotone

-----------------------------------------------------------------------------
(* The flow implements OrderedDelivery, with "settled" and "lost" computed    *)
(* from the sink's, the dead letter queue's and the loop's history.           *)

\* The flow's initial states are the promise's.
LEMMA DeliveryInit == Init => Delivery!Init
<1> SUFFICES ASSUME Init PROVE Delivery!Init
  OBVIOUS
<1>1. log \in [Partitions -> Nat]
  BY DEF Init
<1> QED
  BY <1>1 DEF Init, Delivery!Init, settled, lost, NoOffset, Delivery!NoOffset

\* Lost records appear in the log of an assigned partition.
LEMMA LoseStep ==
    ASSUME IInv, IInv', lost \subseteq lost', UNCHANGED <<log, origin, settled, committed>>
    PROVE  Delivery!Lose
BY DEF Delivery!Lose, Delivery!InLog, Delivery!NoOffset, NoOffset, IInv, HistoryInLog,
       Records, TypeOK, Offsets

\* A start assigns the topic (the first one) or loses what it resumes past.
LEMMA StartImplements == ASSUME IInv, IInv', Start PROVE [Delivery!Next]_(Delivery!vars)
<1>1. settled' = settled /\ log' = log /\ committed' = committed /\ lost \subseteq lost'
  BY DEF Start, settled, lost, brokerVars
<1>2. CASE \A p \in Partitions : origin[p] # NoOffset
  <2>1. origin' = origin
    BY <1>2 DEF Start, IInv, TypeOK
  <2> QED
    BY <1>1, <2>1, LoseStep DEF Delivery!Next
<1>3. CASE \A p \in Partitions : origin[p] = NoOffset
  <2>1. \A p \in Partitions : origin'[p] = ResumeAt(p) /\ ResumeAt(p) \in 0..log[p]
    BY <1>3 DEF Start, ResumeAt, IInv, TypeOK, Ordered, Offsets, NoOffset
  <2>2. \A p \in Partitions : Span(p, origin'[p], ResumeAt(p)) = {}
    BY <2>1 DEF Span
  <2>3. skipped' = skipped
    BY <2>2 DEF Start
  <2>4. lost' = lost
    BY <2>3 DEF lost, Start
  <2> QED
    BY <1>1, <1>3, <2>1, <2>4 DEF Delivery!Next, Delivery!Assign, Delivery!NoOffset, NoOffset
<1> QED
  BY <1>2, <1>3 DEF IInv, AssignedTogether

\* A delivery or a dead letter settles the record in hand, or repeats one.
LEMMA SettleImplements ==
    ASSUME IInv, IInv', DeliverOk \/ SendToDLQ PROVE [Delivery!Next]_(Delivery!vars)
<1>1. /\ lost' = lost /\ log' = log /\ origin' = origin /\ committed' = committed
  BY DEF DeliverOk, SendToDLQ, lost, brokerVars
<1>2. settled' = settled \/ settled' = settled \cup {InHand}
  BY DEF DeliverOk, SendToDLQ, settled
<1>3. /\ part \in Partitions /\ cursor[part] \in origin[part]..(log[part] - 1)
      /\ origin[part] # NoOffset /\ AccountedBelow(part, cursor[part])
  BY DEF DeliverOk, SendToDLQ, IInv, TypeOK, Ordered, Control, Handling, CursorAccounted,
         Offsets, NoOffset
<1>4. CASE settled' = settled
  BY <1>1, <1>4 DEF Delivery!vars
<1>5. CASE settled' = settled \cup {InHand}
  BY <1>1, <1>3, <1>5
     DEF Delivery!Next, Delivery!Settle, Delivery!InLog, Delivery!AccountedBelow,
         Delivery!NoOffset, NoOffset, AccountedBelow, InHand
<1> QED
  BY <1>2, <1>4, <1>5

\* A commit writes marks, and marks lie on accounted prefixes.
LEMMA CommitImplements ==
    ASSUME IInv, IInv', MarkAndCommit PROVE Delivery!Commit
<1>1. /\ settled' = settled /\ lost' = lost /\ log' = log /\ origin' = origin
  BY DEF MarkAndCommit, settled, lost, historyVars
<1>2. \A p \in Partitions : committed'[p] >= committed[p]
  BY CommitStep DEF Next, Loop
<1>3. \A p \in Partitions : committed'[p] # committed[p] => committed'[p] # NoOffset
  BY <1>2 DEF IInv, TypeOK, Offsets, NoOffset
<1>4. \A p \in Partitions :
        committed'[p] # NoOffset => \A o \in origin[p]..(committed'[p] - 1) :
                                       <<p, o>> \in settled \cup lost
  BY <1>1 DEF IInv, CommittedAccounted, AccountedBelow
<1>5. ASSUME NEW p \in Partitions, committed'[p] # committed[p]
      PROVE  committed'[p] > committed[p]
  <2>1. committed[p] \in Int /\ committed'[p] \in Int
    BY DEF IInv, TypeOK, Offsets, NoOffset
  <2> QED
    BY ONLY <1>2, <1>5, <2>1
<1> QED
  BY <1>1, <1>3, <1>4, <1>5 DEF Delivery!Commit, Delivery!AccountedBelow

\* Every step of the flow is a step of the promise or a stutter.
LEMMA StepImplements ==
    ASSUME IInv, IInv', [Next]_vars PROVE [Delivery!Next]_(Delivery!vars)
<1>1. ASSUME NEW p \in Partitions, Produce(p) PROVE Delivery!Next
  <2>1. UNCHANGED <<origin, settled, lost, committed>>
    BY <1>1 DEF Produce, settled, lost, historyVars
  <2> QED
    BY <1>1, <2>1 DEF Produce, Delivery!Next, Delivery!Append
<1>2. CASE Start
  BY <1>2, StartImplements
<1>3. CASE DeliverOk \/ SendToDLQ
  BY <1>3, SettleImplements
<1>4. CASE MarkAndCommit
  BY <1>4, CommitImplements DEF Delivery!Next
<1>5. CASE PollError \/ HandlerError
  <2>1. lost \subseteq lost' /\ UNCHANGED <<log, origin, settled, committed>>
    BY <1>5 DEF PollError, HandlerError, settled, lost, brokerVars
  <2> QED
    BY <2>1, LoseStep DEF Delivery!Next
<1>6. CASE \/ Cancel \/ Exit \/ Crash \/ Poll \/ EndOfBatch
           \/ Transform \/ DeliverError \/ Backoff \/ UNCHANGED vars
           \/ \E p \in Partitions : NextRecord(p)
  <2>1. UNCHANGED <<brokerVars, historyVars>>
    BY <1>6 DEF Cancel, Exit, Crash, ProcessEnds, Poll, EndOfBatch, Transform,
                DeliverError, Backoff, NextRecord, vars
  <2> QED
    BY <2>1 DEF Delivery!vars, settled, lost, brokerVars, historyVars
<1> QED
  BY <1>1, <1>2, <1>3, <1>4, <1>5, <1>6 DEF Next, Loop, Handle

\* A Kafka flow implements ordered at-least-once delivery with losses named.
THEOREM FlowImplementsDelivery == Spec => ImplementsDelivery
<1>1. IInv /\ IInv' /\ [Next]_vars => [Delivery!Next]_(Delivery!vars)
  BY StepImplements
<1>2. Init => Delivery!Init
  BY DeliveryInit
<1> QED
  BY <1>1, <1>2, FlowInvariant, PTL DEF Spec, Delivery!Spec, ImplementsDelivery

-----------------------------------------------------------------------------
(* The flow with a Temporal sink: what the server's runs have to do with the   *)
(* flow's history.                                                             *)

\* The workflow ids a record's event resolves to (at most one).
IdsOf(r) == {ResolveWorkflowID(ce) : ce \in Prepared(Input(r))}

Heard(i) == ToSet(runs[i].heard)

RunFields == {"id", "event", "args", "open", "heard"}

\* The server's runs are a sequence of records.
RunsOK ==
    /\ runs \in Seq({runs[i] : i \in DOMAIN runs})
    /\ \A i \in DOMAIN runs :
          /\ DOMAIN runs[i] = RunFields
          /\ runs[i].heard \in Seq(Records)

\* A flow that signals starts no workflow, and one that starts them signals none.
RunsOfMode ==
    \A i \in DOMAIN runs :
        IF flow.mode = "signal" THEN runs[i].event = <<>> ELSE runs[i].heard = <<>>

\* An id names at most one open run; where none is ever started, at most one run.
IdsUnique ==
    \A i, j \in DOMAIN runs : runs[i].id = runs[j].id /\ i # j =>
        /\ flow.mode = "start"
        /\ runs[i].id # <<>> => ~(runs[i].open /\ runs[j].open)

\* A run that was started for a record has the id that record resolves to.
IdsOfEvents ==
    \A i \in DOMAIN runs : runs[i].event # <<>> => runs[i].id \in IdsOf(runs[i].event)

\* The server has what was acknowledged; a signal is with the run it names.
AckedReached ==
    \A r \in acked :
        /\ Reached(r)
        /\ flow.mode = "signal" => \E i \in DOMAIN runs : r \in Heard(i) /\ runs[i].id \in IdsOf(r)

\* What a run heard of is a record of an assigned partition.
HeardOnceAssigned == \A i \in DOMAIN runs : \A r \in Heard(i) : origin[r[1]] # NoOffset

\* The inductive invariant of the server's side, on top of the flow's.
ServerInv ==
    /\ flow \in Flows
    /\ RunsOK
    /\ RunsOfMode
    /\ IdsUnique
    /\ IdsOfEvents
    /\ AckedReached
    /\ HeardOnceAssigned
    /\ SignalsInOrder

\* The server only adds: runs keep what they were started for, and what they heard.
RunsGrow ==
    \A i \in DOMAIN runs :
        /\ i \in DOMAIN runs'
        /\ runs'[i].id = runs[i].id /\ runs'[i].event = runs[i].event
        /\ runs'[i].args = runs[i].args
        /\ runs'[i].open => runs[i].open
        /\ \A n \in DOMAIN runs[i].heard :
              n \in DOMAIN runs'[i].heard /\ runs'[i].heard[n] = runs[i].heard[n]

-----------------------------------------------------------------------------
\* What a record resolves to is a matter of the flow's definition.
LEMMA DefinitionStays ==
    ASSUME flow' = flow
    PROVE  /\ \A r : Prepared(Input(r))' = Prepared(Input(r))
           /\ \A ce : ResolveWorkflowID(ce)' = ResolveWorkflowID(ce)
           /\ \A ce : Arguments(ce)' = Arguments(ce)
           /\ \A r : IdsOf(r)' = IdsOf(r)
<1>1. \A r : Prepared(Input(r))' = Prepared(Input(r))
  BY DEF Prepared, Input
<1>2. \A ce : ResolveWorkflowID(ce)' = ResolveWorkflowID(ce)
  BY DEF ResolveWorkflowID
<1>3. \A ce : Arguments(ce)' = Arguments(ce)
  BY DEF Arguments
<1>4. \A r : IdsOf(r)' = IdsOf(r)
  BY <1>1, <1>2 DEF IdsOf
<1> QED
  BY <1>1, <1>2, <1>3, <1>4

\* What reached the server stays there.
LEMMA ReachedStays ==
    ASSUME flow' = flow, RunsGrow, NEW r, Reached(r) PROVE Reached(r)'
BY DefinitionStays DEF Reached, RunsGrow, ToSet

\* An event resolves to at most one id.
LEMMA OneId == ASSUME NEW r PROVE \A a, b \in IdsOf(r) : a = b
<1>1. \A fields, input : \A a, b \in Transformed(fields, input) : a = b
  BY DEF Transformed
<1> QED
  BY <1>1 DEF IdsOf, Prepared

-----------------------------------------------------------------------------
\* A run that is started is the last one; the others stay as they are.
LEMMA StartsRun ==
    ASSUME RunsOK, NEW run, DOMAIN run = RunFields, run.heard = <<>>, runs' = Append(runs, run)
    PROVE  /\ RunsOK'
           /\ RunsGrow
           /\ DOMAIN runs' = DOMAIN runs \cup {Len(runs) + 1}
           /\ Len(runs) + 1 \notin DOMAIN runs
           /\ \A i \in DOMAIN runs : runs'[i] = runs[i]
           /\ runs'[Len(runs) + 1] = run
<1> DEFINE S == {runs[i] : i \in DOMAIN runs}
           T == S \cup {run}
<1>1. runs \in Seq(T) /\ run \in T
  BY SeqMonotonic DEF RunsOK
<1> HIDE DEF T
<1>2. /\ Len(runs) \in Nat
      /\ DOMAIN runs = 1..Len(runs)
      /\ runs' \in Seq(T)
      /\ Len(runs') = Len(runs) + 1
      /\ \A i \in 1..Len(runs) : runs'[i] = runs[i]
      /\ runs'[Len(runs) + 1] = run
  BY <1>1, AppendProperties, LenProperties
<1>3. DOMAIN runs' = 1..(Len(runs) + 1)
  BY <1>2, LenProperties
<1>4. DOMAIN runs' = DOMAIN runs \cup {Len(runs) + 1} /\ Len(runs) + 1 \notin DOMAIN runs
  BY <1>2, <1>3
<1>5. T = {runs'[i] : i \in DOMAIN runs'}
  BY <1>2, <1>4 DEF T
<1>6. RunsOK'
  <2>1. run.heard \in Seq(Records)
    BY EmptySeq
  <2> QED
    BY <1>2, <1>4, <1>5, <2>1 DEF RunsOK, RunFields
<1>7. RunsGrow
  BY <1>2, <1>4 DEF RunsGrow
<1> QED
  BY <1>2, <1>4, <1>6, <1>7

\* A run that changes leaves the others as they are.
LEMMA ChangesRun ==
    ASSUME RunsOK, NEW k \in DOMAIN runs,
           NEW run, DOMAIN run = RunFields, run.heard \in Seq(Records),
           runs' = [runs EXCEPT ![k] = run]
    PROVE  /\ RunsOK'
           /\ DOMAIN runs' = DOMAIN runs
           /\ \A i \in DOMAIN runs : runs'[i] = IF i = k THEN run ELSE runs[i]
<1> DEFINE S == {runs[i] : i \in DOMAIN runs}
           U == {runs'[i] : i \in DOMAIN runs'}
<1>1. /\ DOMAIN runs' = DOMAIN runs
      /\ \A i \in DOMAIN runs : runs'[i] = IF i = k THEN run ELSE runs[i]
  OBVIOUS
<1>2. runs \in Seq(S)
  BY DEF RunsOK
<1>3. Len(runs) \in Nat /\ DOMAIN runs = 1..Len(runs)
  <2> HIDE DEF S
  <2> QED
    BY <1>2, LenProperties
<1>4. runs' = [i \in 1..Len(runs) |-> runs'[i]]
  BY <1>3
<1>5. \A i \in 1..Len(runs) : runs'[i] \in U
  BY <1>1, <1>3
<1> HIDE DEF U
<1>6. runs' \in [1..Len(runs) -> U]
  BY <1>4, <1>5
<1>7. runs' \in Seq(U)
  BY <1>3, <1>6, SeqDef
<1>8. RunsOK'
  BY <1>1, <1>7 DEF RunsOK, RunFields, U
<1> QED
  BY <1>1, <1>8

-----------------------------------------------------------------------------
\* What a run newly hears of is the record in hand, which is addressed to it.
Hears ==
    \A i \in DOMAIN runs' : \A n \in DOMAIN runs'[i].heard :
        /\ i \in DOMAIN runs
        /\ \/ n \in DOMAIN runs[i].heard
           \/ /\ DOMAIN runs[i].heard = 1..(n - 1)
              /\ runs'[i].heard[n] = InHand
              /\ runs[i].id \in IdsOf(InHand)
              /\ pc = "deliver"

\* What a step of the server leaves true.
ServerStep ==
    RunsOK' /\ RunsGrow /\ Hears /\ RunsOfMode' /\ IdsUnique' /\ IdsOfEvents'

\* The server has the record in hand.
HasInHand ==
    /\ \E ce \in Prepared(Input(InHand)), i \in DOMAIN runs' :
          IF flow.mode = "signal" THEN InHand \in ToSet(runs'[i].heard)
          ELSE \/ runs'[i].event = InHand /\ runs'[i].args \in Arguments(ce)
               \/ ResolveWorkflowID(ce) # <<>> /\ runs'[i].id = ResolveWorkflowID(ce)
    /\ flow.mode = "signal" =>
          \E i \in DOMAIN runs' : InHand \in Heard(i)' /\ runs'[i].id \in IdsOf(InHand)

\* Nothing happens at the server.
LEMMA NothingServed ==
    ASSUME ServerInv, flow' = flow, runs' = runs PROVE ServerStep
<1>1. RunsOK' /\ RunsGrow /\ RunsOfMode' /\ IdsUnique'
  BY DEF ServerInv, RunsOK, RunsGrow, RunsOfMode, IdsUnique
<1>2. IdsOfEvents'
  BY DefinitionStays DEF ServerInv, IdsOfEvents
<1>3. Hears
  BY DEF Hears
<1> QED
  BY <1>1, <1>2, <1>3 DEF ServerStep

\* A start finds the open run of its id, or makes a new one.
LEMMA StartServed ==
    ASSUME ServerInv, flow' = flow, flow.mode = "start",
           NEW ce \in Prepared(Input(InHand)), NEW args \in Arguments(ce),
           ExecuteWorkflow(ResolveWorkflowID(ce), args)
    PROVE  ServerStep /\ HasInHand
<1> DEFINE id == ResolveWorkflowID(ce)
           run == [id |-> id, event |-> InHand, args |-> args, open |-> TRUE, heard |-> <<>>]
<1>0. id \in IdsOf(InHand)
  BY DEF IdsOf
<1>1. CASE OpenRuns(id) # {} /\ UNCHANGED runs
  <2>1. PICK i \in DOMAIN runs : id # <<>> /\ runs[i].id = id
    BY <1>1 DEF OpenRuns
  <2> QED
    BY <1>1, <2>1, NothingServed DEF HasInHand
<1>2. CASE OpenRuns(id) = {} /\ runs' = Append(runs, run)
  <2> DEFINE n == Len(runs) + 1
  <2>1. /\ DOMAIN run = RunFields /\ run.heard = <<>> /\ run.id = id
        /\ run.event = InHand /\ run.args = args
    BY DEF RunFields
  <2> HIDE DEF run
  <2>2. /\ RunsOK' /\ RunsGrow
        /\ DOMAIN runs' = DOMAIN runs \cup {n} /\ n \notin DOMAIN runs
        /\ \A i \in DOMAIN runs : runs'[i] = runs[i]
        /\ runs'[n] = run
    BY <1>2, <2>1, StartsRun DEF ServerInv
  <2> HIDE DEF n, id
  <2>3. RunsOfMode'
    BY <2>1, <2>2 DEF ServerInv, RunsOfMode
  <2>4. IdsUnique'
    BY <1>2, <2>1, <2>2 DEF ServerInv, IdsUnique, OpenRuns
  <2>5. IdsOfEvents'
    BY <1>0, <2>1, <2>2, DefinitionStays DEF ServerInv, IdsOfEvents
  <2>6. Hears
    <3>1. DOMAIN runs'[n].heard = {}
      BY <2>1, <2>2
    <3> QED
      BY <2>2, <3>1 DEF Hears
  <2>7. HasInHand
    BY <2>1, <2>2 DEF HasInHand
  <2> QED
    BY <2>2, <2>3, <2>4, <2>5, <2>6, <2>7 DEF ServerStep
<1> QED
  BY <1>1, <1>2 DEF ExecuteWorkflow

\* A signal is heard by an open run of its id.
LEMMA SignalServed ==
    ASSUME ServerInv, flow' = flow, flow.mode = "signal", pc = "deliver", InHand \in Records,
           NEW ce \in Prepared(Input(InHand)), SignalWorkflow(ResolveWorkflowID(ce))
    PROVE  ServerStep /\ HasInHand
<1> DEFINE id == ResolveWorkflowID(ce)
<1>0. id \in IdsOf(InHand)
  BY DEF IdsOf
<1>1. PICK k \in OpenRuns(id) : runs' = [runs EXCEPT ![k].heard = Append(@, InHand)]
  BY DEF SignalWorkflow
<1>2. k \in DOMAIN runs /\ runs[k].id = id
  BY DEF OpenRuns
<1> DEFINE heard == Append(runs[k].heard, InHand)
           run == [runs[k] EXCEPT !.heard = heard]
           n == Len(runs[k].heard) + 1
<1>3. /\ heard \in Seq(Records) /\ DOMAIN runs[k].heard = 1..(n - 1) /\ DOMAIN heard = 1..n
      /\ n \in Nat \ {0}
      /\ heard[n] = InHand /\ \A m \in 1..(n - 1) : heard[m] = runs[k].heard[m]
  <2>1. runs[k].heard \in Seq(Records)
    BY <1>2 DEF ServerInv, RunsOK
  <2> QED
    BY <2>1, AppendProperties, LenProperties
<1> HIDE DEF heard, n, id
<1>4. /\ DOMAIN run = RunFields /\ run.heard = heard /\ run.id = runs[k].id
      /\ run.event = runs[k].event /\ run.args = runs[k].args /\ run.open = runs[k].open
  BY <1>2 DEF ServerInv, RunsOK, RunFields
<1>5. runs' = [runs EXCEPT ![k] = run]
  BY <1>1 DEF heard
<1> HIDE DEF run
<1>6. /\ RunsOK'
      /\ DOMAIN runs' = DOMAIN runs
      /\ \A i \in DOMAIN runs : runs'[i] = IF i = k THEN run ELSE runs[i]
  BY <1>2, <1>3, <1>4, <1>5, ChangesRun DEF ServerInv
<1>7. RunsGrow
  BY <1>3, <1>4, <1>6 DEF RunsGrow
<1>8. RunsOfMode' /\ IdsUnique'
  BY <1>4, <1>6 DEF ServerInv, RunsOfMode, IdsUnique
<1>9. IdsOfEvents'
  BY <1>4, <1>6, DefinitionStays DEF ServerInv, IdsOfEvents
<1>10. Hears
  BY <1>0, <1>2, <1>3, <1>4, <1>6 DEF Hears
<1>11. InHand \in ToSet(runs'[k].heard) /\ runs'[k].id \in IdsOf(InHand)
  <2>1. runs'[k].heard = heard /\ runs'[k].id = id
    BY <1>2, <1>4, <1>6
  <2>2. n \in DOMAIN heard /\ heard[n] = InHand
    BY <1>3
  <2> QED
    BY <1>0, <2>1, <2>2 DEF ToSet
<1>12. Heard(k)' = ToSet(runs'[k].heard)
  BY DEF Heard
<1>13. HasInHand
  BY <1>2, <1>6, <1>11, <1>12 DEF HasInHand
<1> QED
  BY <1>6, <1>7, <1>8, <1>9, <1>10, <1>13 DEF ServerStep

\* The server serves the sink's call.
LEMMA ServedStep ==
    ASSUME ServerInv, flow' = flow, pc = "deliver", InHand \in Records, Served
    PROVE  ServerStep /\ HasInHand
<1>1. flow.mode \in {"start", "signal"}
  BY TemporalFlowAssumption DEF ServerInv
<1>2. PICK ce \in Prepared(Input(InHand)) : \E args \in Arguments(ce) :
        IF flow.mode = "start" THEN ExecuteWorkflow(ResolveWorkflowID(ce), args)
        ELSE SignalWorkflow(ResolveWorkflowID(ce))
  BY DEF Served
<1>3. CASE flow.mode = "start"
  BY <1>2, <1>3, StartServed
<1>4. CASE flow.mode = "signal"
  BY <1>2, <1>4, SignalServed
<1> QED
  BY <1>1, <1>3, <1>4

\* A run ends.
LEMMA EndsStep ==
    ASSUME ServerInv, flow' = flow, NEW k \in DOMAIN runs,
           runs' = [runs EXCEPT ![k].open = FALSE]
    PROVE  ServerStep
<1> DEFINE run == [runs[k] EXCEPT !.open = FALSE]
<1>1. /\ DOMAIN run = RunFields /\ run.heard = runs[k].heard /\ run.id = runs[k].id
      /\ run.event = runs[k].event /\ run.args = runs[k].args /\ run.open = FALSE
      /\ run.heard \in Seq(Records)
  BY DEF ServerInv, RunsOK, RunFields
<1>2. runs' = [runs EXCEPT ![k] = run]
  OBVIOUS
<1> HIDE DEF run
<1>3. /\ RunsOK'
      /\ DOMAIN runs' = DOMAIN runs
      /\ \A i \in DOMAIN runs : runs'[i] = IF i = k THEN run ELSE runs[i]
  BY <1>1, <1>2, ChangesRun DEF ServerInv
<1>4. RunsGrow /\ Hears
  BY <1>1, <1>3 DEF RunsGrow, Hears
<1>5. RunsOfMode' /\ IdsUnique'
  BY <1>1, <1>3 DEF ServerInv, RunsOfMode, IdsUnique
<1>6. IdsOfEvents'
  BY <1>1, <1>3, DefinitionStays DEF ServerInv, IdsOfEvents
<1> QED
  BY <1>3, <1>4, <1>5, <1>6 DEF ServerStep

-----------------------------------------------------------------------------
\* A step of the flow with its sink is a step of the flow.
LEMMA FlowStep == ASSUME [TemporalNext]_<<vars, temporalVars>> PROVE [Next]_vars
BY DEF TemporalNext, Prepare, Deliver, DeliverFails, WorkflowEnds, Next, Loop, Handle,
       temporalVars

\* A flow whose sink is Temporal is a Kafka flow, so what holds of any Kafka flow
\* holds of it.
THEOREM TemporalImplementsFlow == TemporalSpec => Spec
<1>1. TemporalInit => Init
  BY DEF TemporalInit
<1>2. [TemporalNext]_<<vars, temporalVars>> => [Next]_vars
  BY FlowStep
<1> QED
  BY <1>1, <1>2, PTL DEF TemporalSpec, Spec

\* The history grows, and the sink acknowledges the record in hand or nothing.
LEMMA HistoryGrows ==
    ASSUME IInv, [Next]_vars
    PROVE  /\ acked' \in {acked, acked \cup {InHand}}
           /\ acked' # acked => DeliverOk
           /\ dlqd \subseteq dlqd' /\ lost \subseteq lost'
           /\ \A p \in Partitions : origin[p] # NoOffset => origin'[p] = origin[p]
<1>1. CASE Start
  BY <1>1 DEF Start, IInv, TypeOK, lost
<1>2. CASE ~Start
  BY <1>2 DEF Next, Produce, Start, Cancel, Exit, Crash, ProcessEnds, Loop, Handle, Poll,
         PollError, NextRecord, EndOfBatch, HandlerError, Transform, DeliverOk, MarkAndCommit,
         DeliverError, Backoff, SendToDLQ, historyVars, lost, vars
<1> QED
  BY <1>1, <1>2

\* A step of the flow with its sink does this at the server, and acknowledges
\* only what the server has.
LEMMA TemporalStep ==
    ASSUME IInv, ServerInv, [TemporalNext]_<<vars, temporalVars>>
    PROVE  /\ flow' = flow
           /\ ServerStep
           /\ acked' # acked => HasInHand
<1>1. pc = "deliver" => InHand \in Records
  BY DEF InHand, Records, IInv, TypeOK
<1>2. CASE Deliver
  BY <1>1, <1>2, ServedStep DEF Deliver, DeliverOk
<1>3. CASE DeliverFails
  <2>1. flow' = flow /\ acked' = acked /\ pc = "deliver"
    BY <1>3 DEF DeliverFails, DeliverError, historyVars
  <2> QED
    BY <1>1, <1>3, <2>1, ServedStep, NothingServed DEF DeliverFails
<1>4. ASSUME NEW i \in DOMAIN runs, WorkflowEnds(i)
      PROVE  flow' = flow /\ ServerStep /\ acked' = acked
  BY <1>4, EndsStep DEF WorkflowEnds, vars, historyVars
<1>5. CASE UNCHANGED temporalVars /\ ~Deliver
  <2>1. acked' = acked
    BY <1>5 DEF TemporalNext, temporalVars, Prepare, WorkflowEnds, DeliverFails, Produce,
         Start, Cancel, Exit, Crash, ProcessEnds, Loop, Poll,
         PollError, NextRecord, EndOfBatch, HandlerError, Transform, MarkAndCommit,
         DeliverError, SendToDLQ, historyVars, vars
  <2> QED
    BY <1>5, <2>1, NothingServed DEF temporalVars
<1> QED
  BY <1>2, <1>3, <1>4, <1>5 DEF TemporalNext, Prepare, temporalVars

-----------------------------------------------------------------------------
\* The flow starts with the server's open workflows and no history.
LEMMA TemporalInitInv == ASSUME TemporalInit PROVE ServerInv
<1> USE DEF TemporalInit, Init
<1>1. /\ flow.open \in Seq(Seq(STRING)) /\ flow.mode \in {"start", "signal"}
      /\ \A i, j \in DOMAIN flow.open : flow.open[i] = flow.open[j] => i = j
  BY TemporalFlowAssumption
<1>2. Len(flow.open) \in Nat /\ DOMAIN flow.open = 1..Len(flow.open)
  BY <1>1, LenProperties
<1>3. /\ DOMAIN runs = DOMAIN flow.open
      /\ \A i \in DOMAIN runs :
           /\ DOMAIN runs[i] = RunFields
           /\ runs[i].id = flow.open[i] /\ runs[i].event = <<>> /\ runs[i].heard = <<>>
  BY DEF RunFields
<1>4. runs \in Seq({runs[i] : i \in DOMAIN runs})
  <2> DEFINE U == {runs[i] : i \in DOMAIN runs}
  <2>1. runs = [i \in 1..Len(flow.open) |-> runs[i]]
    BY <1>2
  <2>2. \A i \in 1..Len(flow.open) : runs[i] \in U
    BY <1>2, <1>3
  <2> HIDE DEF U
  <2>3. runs \in [1..Len(flow.open) -> U]
    BY <2>1, <2>2
  <2>4. runs \in Seq(U)
    BY <1>2, <2>3, SeqDef
  <2> QED
    BY <2>4 DEF U
<1> HIDE DEF TemporalInit, Init
<1>5. RunsOK
  BY <1>3, <1>4, EmptySeq DEF RunsOK, RunFields
<1>6. RunsOfMode /\ IdsUnique /\ IdsOfEvents
  BY <1>1, <1>3 DEF RunsOfMode, IdsUnique, IdsOfEvents
<1>7. HeardOnceAssigned /\ SignalsInOrder
  BY <1>3 DEF HeardOnceAssigned, SignalsInOrder, Heard, ToSet
<1>8. AckedReached /\ flow \in Flows
  BY DEF AckedReached, TemporalInit, Init
<1> QED
  BY <1>5, <1>6, <1>7, <1>8 DEF ServerInv

\* What was acknowledged is with the server, the record in hand included.
LEMMA AckedStep ==
    ASSUME IInv, ServerInv, [TemporalNext]_<<vars, temporalVars>> PROVE AckedReached'
<1>1. /\ flow' = flow /\ RunsGrow /\ acked' \in {acked, acked \cup {InHand}}
      /\ acked' # acked => HasInHand
  BY TemporalStep, FlowStep, HistoryGrows DEF ServerStep
<1>2. ASSUME NEW r \in acked
      PROVE  /\ Reached(r)'
             /\ (flow.mode = "signal")' =>
                   \E i \in DOMAIN runs' : r \in Heard(i)' /\ runs'[i].id \in IdsOf(r)'
  <2>1. Reached(r)'
    BY <1>1, <1>2, ReachedStays DEF ServerInv, AckedReached
  <2>2. \A i \in DOMAIN runs : i \in DOMAIN runs' /\ runs'[i].id = runs[i].id /\ Heard(i) \subseteq Heard(i)'
    BY <1>1 DEF RunsGrow, Heard, ToSet
  <2> QED
    BY <1>1, <2>1, <2>2, DefinitionStays DEF ServerInv, AckedReached
<1>3. ASSUME HasInHand, NEW r, r = InHand
      PROVE  /\ Reached(r)'
             /\ (flow.mode = "signal")' =>
                   \E i \in DOMAIN runs' : r \in Heard(i)' /\ runs'[i].id \in IdsOf(r)'
  BY <1>1, <1>3, DefinitionStays DEF HasInHand, Reached
<1> QED
  BY <1>1, <1>2, <1>3 DEF AckedReached

\* The records below the one in hand are accounted for: what the sink acknowledged
\* of them and is addressed to this run, this run has heard.
LEMMA SignalsStep ==
    ASSUME IInv, ServerInv, [TemporalNext]_<<vars, temporalVars>>
    PROVE  HeardOnceAssigned' /\ SignalsInOrder'
<1>1. /\ flow' = flow /\ RunsGrow /\ Hears
      /\ dlqd \subseteq dlqd' /\ lost \subseteq lost'
      /\ \A p \in Partitions : origin[p] # NoOffset => origin'[p] = origin[p]
  BY TemporalStep, FlowStep, HistoryGrows DEF ServerStep
<1>2. ASSUME NEW i \in DOMAIN runs', NEW n \in DOMAIN runs'[i].heard,
             n \in DOMAIN runs[i].heard
      PROVE  /\ runs'[i].heard[n] = runs[i].heard[n] /\ i \in DOMAIN runs
             /\ runs[i].heard[n] \in Records
             /\ origin[runs[i].heard[n][1]] # NoOffset
             /\ \A m \in 1..(n - 1) : m \in DOMAIN runs[i].heard
  <2>1. i \in DOMAIN runs /\ runs'[i].heard[n] = runs[i].heard[n]
    BY <1>1, <1>2 DEF Hears, RunsGrow
  <2>2. runs[i].heard \in Seq(Records)
    BY <2>1 DEF ServerInv, RunsOK
  <2>3. runs[i].heard[n] \in Records /\ \A m \in 1..(n - 1) : m \in DOMAIN runs[i].heard
    BY <1>2, <2>2, LenProperties, ElementOfSeq
  <2>4. origin[runs[i].heard[n][1]] # NoOffset
    BY <1>2, <2>1 DEF ServerInv, HeardOnceAssigned, Heard, ToSet
  <2> QED
    BY <2>1, <2>3, <2>4
<1>3. ASSUME NEW i \in DOMAIN runs', NEW n \in DOMAIN runs'[i].heard,
             n \notin DOMAIN runs[i].heard
      PROVE  /\ i \in DOMAIN runs /\ DOMAIN runs[i].heard = 1..(n - 1)
             /\ runs'[i].heard[n] = <<part, cursor[part]>> /\ runs[i].id \in IdsOf(InHand)
             /\ pc = "deliver" /\ part \in Partitions /\ origin[part] # NoOffset
             /\ AccountedBelow(part, cursor[part])
  <2>1. /\ i \in DOMAIN runs /\ DOMAIN runs[i].heard = 1..(n - 1)
        /\ runs'[i].heard[n] = InHand /\ runs[i].id \in IdsOf(InHand) /\ pc = "deliver"
    BY <1>1, <1>3 DEF Hears
  <2> QED
    BY <2>1 DEF InHand, IInv, TypeOK, Ordered, CursorAccounted
<1>4. HeardOnceAssigned'
  <2> SUFFICES ASSUME NEW i \in DOMAIN runs', NEW n \in DOMAIN runs'[i].heard
               PROVE  origin'[runs'[i].heard[n][1]] # NoOffset
    BY DEF HeardOnceAssigned, Heard, ToSet
  <2>1. CASE n \in DOMAIN runs[i].heard
    BY <1>1, <1>2, <2>1 DEF Records
  <2>2. CASE n \notin DOMAIN runs[i].heard
    BY <1>1, <1>3, <2>2
  <2> QED
    BY <2>1, <2>2
<1>5. SignalsInOrder'
  <2> SUFFICES ASSUME NEW i \in DOMAIN runs', NEW n \in DOMAIN runs'[i].heard,
                      NEW r, r = runs'[i].heard[n],
                      NEW o \in origin'[r[1]]..(r[2] - 1)
               PROVE  \/ \E m \in 1..(n - 1) : runs'[i].heard[m] = <<r[1], o>>
                      \/ <<r[1], o>> \in dlqd' \cup lost'
                      \/ \A ce \in Prepared(Input(<<r[1], o>>))' :
                            ResolveWorkflowID(ce)' # runs'[i].id
    BY DEF SignalsInOrder
  <2>1. CASE n \in DOMAIN runs[i].heard
    <3>1. /\ r = runs[i].heard[n] /\ i \in DOMAIN runs /\ o \in origin[r[1]]..(r[2] - 1)
          /\ \A m \in 1..(n - 1) : runs'[i].heard[m] = runs[i].heard[m]
          /\ runs'[i].id = runs[i].id
      BY <1>1, <1>2, <2>1 DEF Records, RunsGrow
    <3>2. \/ \E m \in 1..(n - 1) : runs[i].heard[m] = <<r[1], o>>
          \/ <<r[1], o>> \in dlqd \cup lost
          \/ \A ce \in Prepared(Input(<<r[1], o>>)) : ResolveWorkflowID(ce) # runs[i].id
      BY <2>1, <3>1 DEF ServerInv, SignalsInOrder
    <3> QED
      BY <1>1, <3>1, <3>2, DefinitionStays
  <2>2. CASE n \notin DOMAIN runs[i].heard
    <3>1. /\ i \in DOMAIN runs /\ r = <<part, cursor[part]>>
          /\ o \in origin[part]..(cursor[part] - 1)
          /\ \A m \in DOMAIN runs[i].heard : runs'[i].heard[m] = runs[i].heard[m]
          /\ runs'[i].id = runs[i].id /\ DOMAIN runs[i].heard = 1..(n - 1)
      BY <1>1, <1>3, <2>2 DEF RunsGrow
    <3>2. <<r[1], o>> \in acked \cup dlqd \cup lost
      <4>1. AccountedBelow(part, cursor[part])
        BY <1>3, <2>2
      <4>2. <<part, o>> \in settled \cup lost
        BY <3>1, <4>1 DEF AccountedBelow
      <4>3. <<r[1], o>> = <<part, o>>
        BY <3>1
      <4> QED
        BY <4>2, <4>3 DEF settled
    <3>3. CASE <<r[1], o>> \in dlqd \cup lost
      BY <1>1, <3>3
    <3>4. CASE <<r[1], o>> \in acked /\ runs[i].id \in IdsOf(<<r[1], o>>)
      <4>1. flow.mode = "signal"
        BY <3>1, <2>2, <1>3, TemporalStep DEF ServerStep, RunsOfMode
      <4>2. PICK j \in DOMAIN runs : <<r[1], o>> \in Heard(j) /\ runs[j].id \in IdsOf(<<r[1], o>>)
        BY <3>4, <4>1 DEF ServerInv, AckedReached
      <4>3. runs[j].id = runs[i].id
        BY <3>4, <4>2, OneId
      <4>4. j = i
        BY <3>1, <4>1, <4>3 DEF ServerInv, IdsUnique
      <4> QED
        BY <3>1, <4>2, <4>4 DEF Heard, ToSet
    <3>5. CASE runs[i].id \notin IdsOf(<<r[1], o>>)
      BY <1>1, <3>1, <3>5, DefinitionStays DEF IdsOf
    <3> QED
      BY <3>2, <3>3, <3>4, <3>5
  <2> QED
    BY <2>1, <2>2
<1> QED
  BY <1>4, <1>5

\* The invariants of the flow and the server hold of every behaviour.
THEOREM TemporalInvariant == TemporalSpec => [](IInv /\ ServerInv)
<1>1. TemporalInit => IInv /\ ServerInv
  BY InitInv, TemporalInitInv DEF TemporalInit
<1>2. IInv /\ ServerInv /\ [TemporalNext]_<<vars, temporalVars>> => IInv' /\ ServerInv'
  <2> SUFFICES ASSUME IInv, ServerInv, [TemporalNext]_<<vars, temporalVars>>
               PROVE  IInv' /\ ServerInv'
    OBVIOUS
  <2>1. IInv'
    BY FlowStep, NextInv
  <2>2. ServerInv'
    BY TemporalStep, AckedStep, SignalsStep DEF ServerInv, ServerStep
  <2> QED
    BY <2>1, <2>2
<1> QED
  BY <1>1, <1>2, PTL DEF TemporalSpec

\* Nothing is committed that neither the server nor the dead letters have, unless
\* the loop is known to abandon it.
THEOREM TemporalCommitsReached == TemporalSpec => []CommittedReached
<1>1. IInv /\ ServerInv => CommittedReached
  BY DEF IInv, ServerInv, CommittedAccounted, AccountedBelow, AckedReached, settled,
         CommittedReached
<1> QED
  BY <1>1, TemporalInvariant, PTL

\* A workflow hears of a partition's records in order.
THEOREM TemporalSignalsInOrder == TemporalSpec => []SignalsInOrder
BY TemporalInvariant, PTL DEF ServerInv

-----------------------------------------------------------------------------
(* The key of an event and the id it is worked on under.                       *)

\* The fields of one name.
Select(found, name) == {w.fields[name] : w \in {u \in found : IsObject(u) /\ name \in DOMAIN u.fields}}

\* What is below a path of one name.
LEMMA LookupOne ==
    ASSUME NEW v, NEW path, Len(path) = 1 PROVE Lookup(v, path) = Select({v}, path[1])
<1> DEFINE At == CHOOSE At : At = [n \in 0..Len(path) |-> IF n = 0 THEN {v} ELSE Select(At[n - 1], path[n])]
           One == [n \in 0..Len(path) |-> IF n = 0 THEN {v} ELSE Select({v}, path[n])]
<1>1. Lookup(v, path) = At[Len(path)]
  BY DEF Lookup, Select
<1>2. One = [n \in 0..Len(path) |-> IF n = 0 THEN {v} ELSE Select(One[n - 1], path[n])]
  OBVIOUS
<1>3. At = [n \in 0..Len(path) |-> IF n = 0 THEN {v} ELSE Select(At[n - 1], path[n])]
  <2> HIDE DEF One
  <2> QED
    BY <1>2
<1> HIDE DEF At, One
<1> QED
  BY <1>1, <1>3

\* The id of a template of one piece.
LEMMA IdOfOne ==
    ASSUME NEW ce, NEW path, flow.workflowId = <<Path(path)>>
    PROVE  LET text == ResolveNestedField(ce, path)
           IN  ResolveWorkflowID(ce) = IF text = "" THEN <<>> ELSE <<text>>
<1> DEFINE Text(piece) == IF piece.compiles THEN ResolveNestedField(ce, piece.path) ELSE piece.text
           Texts == [i \in DOMAIN flow.workflowId |-> Text(flow.workflowId[i])]
           Id == CHOOSE Id : Id = [n \in 0..Len(flow.workflowId) |->
                   IF n = 0 THEN <<>> ELSE IF Texts[n] = "" THEN Id[n - 1] ELSE Append(Id[n - 1], Texts[n])]
           One == [n \in 0..Len(flow.workflowId) |->
                   IF n = 0 THEN <<>> ELSE IF Texts[n] = "" THEN <<>> ELSE Append(<<>>, Texts[n])]
<1>1. ResolveWorkflowID(ce) = Id[Len(flow.workflowId)]
  BY DEF ResolveWorkflowID
<1>2. Len(flow.workflowId) = 1 /\ DOMAIN flow.workflowId = {1} /\ flow.workflowId[1] = Path(path)
  <2>1. ASSUME NEW p PROVE Len(<<p>>) = 1 /\ DOMAIN <<p>> = 1..1 /\ <<p>>[1] = p
    OBVIOUS
  <2>2. 1..1 = {1}
    OBVIOUS
  <2> QED
    BY <2>1, <2>2
<1>3. Texts[1] = ResolveNestedField(ce, path)
  <2>1. Path(path).compiles = TRUE /\ Path(path).path = path
    BY DEF Path
  <2>2. Texts[1] = Text(flow.workflowId[1])
    BY <1>2
  <2> QED
    BY <1>2, <2>1, <2>2
<1> HIDE DEF Texts
<1>4. One = [n \in 0..Len(flow.workflowId) |->
               IF n = 0 THEN <<>> ELSE IF Texts[n] = "" THEN One[n - 1] ELSE Append(One[n - 1], Texts[n])]
  BY <1>2
<1>5. Id = [n \in 0..Len(flow.workflowId) |->
               IF n = 0 THEN <<>> ELSE IF Texts[n] = "" THEN Id[n - 1] ELSE Append(Id[n - 1], Texts[n])]
  <2> HIDE DEF One
  <2> QED
    BY <1>4
<1> HIDE DEF Id, One
<1>6. ASSUME NEW text PROVE Append(<<>>, text) = <<text>>
  <2>1. /\ <<>> \in Seq({text}) /\ <<text>> \in Seq({text})
        /\ Len(<<>>) = 0 /\ Len(<<text>>) = 1 /\ <<text>>[1] = text
    OBVIOUS
  <2>2. /\ Append(<<>>, text) \in Seq({text}) /\ Len(Append(<<>>, text)) = 1
        /\ Append(<<>>, text)[1] = text
    BY <2>1, AppendProperties
  <2> QED
    BY <2>1, <2>2, SeqEqual
<1>7. Id[0] = <<>> /\ Id[1] = IF Texts[1] = "" THEN <<>> ELSE <<Texts[1]>>
  <2>1. \A n \in 0..1 :
          Id[n] = IF n = 0 THEN <<>> ELSE IF Texts[n] = "" THEN Id[n - 1] ELSE Append(Id[n - 1], Texts[n])
    BY <1>2, <1>5
  <2>2. 0 \in 0..1 /\ 1 \in 0..1 /\ 1 # 0 /\ 1 - 1 = 0
    OBVIOUS
  <2>3. Id[0] = <<>>
    BY <2>1, <2>2, Zenon
  <2>4. Id[1] = IF Texts[1] = "" THEN Id[0] ELSE Append(Id[0], Texts[1])
    BY <2>1, <2>2, Zenon
  <2> QED
    BY <1>6, <2>3, <2>4
<1> QED
  BY <1>1, <1>2, <1>3, <1>7

\* The id of a CloudEvent is its id field when that is a text.
LEMMA IdField ==
    ASSUME NEW ce, IsObject(ce), "id" \in DOMAIN ce.fields, ce.fields["id"].kind = "text"
    PROVE  ResolveNestedField(ce, <<"id">>) = ce.fields["id"].text
<1>1. Lookup(ce, <<"id">>) = {ce.fields["id"]}
  <2>1. Len(<<"id">>) = 1 /\ <<"id">>[1] = "id"
    OBVIOUS
  <2>2. Lookup(ce, <<"id">>) = Select({ce}, "id")
    BY <2>1, LookupOne
  <2> QED
    BY <2>2 DEF Select
<1>2. ce.fields["id"] # Null
  BY DEF Null
<1> QED
  BY <1>1, <1>2 DEF ResolveNestedField, Rendered

\* What an override sees of an event when it is wrapped or merged.
Seen(input) ==
    LET Data == {d \in Lookup(input, <<"data">>) : IsObject(d)}
    IN  IF IsCloudEvent(input) /\ Data # {} THEN CHOOSE d \in Data : TRUE
        ELSE IF IsObject(input) THEN input ELSE Null

\* An override sees the business data, when there is any.
LEMMA SeesBusiness ==
    ASSUME NEW input, IsCloudEvent(input) => IsObject(input)
    PROVE  Business(input) = IF IsObject(input) THEN {Seen(input)} ELSE {}
<1> DEFINE Data == {d \in Lookup(input, <<"data">>) : IsObject(d)}
<1>1. Lookup(input, <<"data">>) = Select({input}, "data")
  <2>1. Len(<<"data">>) = 1 /\ <<"data">>[1] = "data"
    OBVIOUS
  <2> QED
    BY <2>1, LookupOne
<1>2. \A a, b \in Lookup(input, <<"data">>) : a = b
  BY <1>1 DEF Select
<1>3. CASE IsCloudEvent(input) /\ Data # {}
  <2>1. PICK d \in Lookup(input, <<"data">>) : IsObject(d)
    BY <1>3
  <2>2. Data = {d}
    BY <1>2, <2>1
  <2>3. Business(input) = {d}
    BY <1>2, <1>3, <2>1 DEF Business
  <2>4. Seen(input) = d
    BY <1>3, <2>2 DEF Seen
  <2> QED
    BY <1>3, <2>3, <2>4
<1>4. CASE ~(IsCloudEvent(input) /\ Data # {})
  BY <1>4 DEF Business, Seen
<1> QED
  BY <1>3, <1>4

\* An event that has a key is worked on under it.
LEMMA KeyIsId ==
    ASSUME NEW r, NEW ce \in Prepared(Input(r)), NEW k \in Key(r)
    PROVE  ResolveWorkflowID(ce) = <<k>>
<1> DEFINE input == Input(r)
           overrides == flow.overrides
           Overridden == "id" \in DOMAIN overrides
           Selected == IF Overridden
                       THEN UNION {EvaluateCELValue(overrides["id"], b) : b \in Business(input)}
                       ELSE {}
           Own == {v \in Lookup(input, <<"id">>) : IsCloudEvent(input)}
           seen == Seen(input)
<1>1. PICK v \in IF Selected # {} THEN {CHOOSE w \in Selected : TRUE} ELSE Own :
        /\ v.kind = "text" /\ v.text # "" /\ k = v.text
        /\ flow.workflowId = <<Path(<<"id">>)>>
        /\ Overridden => overrides["id"].compiles
        /\ DOMAIN flow.fields # {} =>
             \A e \in {input} \cup Transformed(flow.fields, input) : ~IsCloudEvent(e)
  BY DEF Key
<1>2. PICK p \in Transformed(flow.fields, input) :
        ce = IF IsCloudEvent(p) THEN PassOrMergeCloudEvent(overrides, p, input)
             ELSE WrapCloudEvent(overrides, p, input)
  BY DEF Prepared
<1>3. IsCloudEvent(input) => IsObject(input)
  BY DEF IsCloudEvent
<1>4. Selected = IF Overridden /\ IsObject(input) THEN EvaluateCELValue(overrides["id"], seen) ELSE {}
  BY <1>3, SeesBusiness
<1>5. Overridden /\ Selected # {} => EvaluateCELExpression(overrides["id"], seen) = k
  <2> SUFFICES ASSUME Overridden, Selected # {} PROVE EvaluateCELExpression(overrides["id"], seen) = k
    OBVIOUS
  <2>1. Selected = EvaluateCELValue(overrides["id"], seen) /\ v = CHOOSE w \in Selected : TRUE
    BY <1>1, <1>4
  <2> HIDE DEF Selected
  <2>2. EvaluateCELExpression(overrides["id"], seen) = Rendered(v)
    BY <2>1 DEF EvaluateCELExpression
  <2> QED
    BY <1>1, <2>2 DEF Rendered
<1>6. IsCloudEvent(p) <=> IsCloudEvent(input)
  BY <1>1, <1>2 DEF Transformed
<1>7. CASE ~IsCloudEvent(input)
  <2>1. Selected # {} /\ Overridden
    BY <1>1, <1>7
  <2>2. seen = IF IsObject(input) THEN input ELSE Null
    BY <1>7 DEF Seen
  <2> HIDE DEF seen
  <2>3. EvaluateCELExpression(overrides["id"], IF IsObject(input) THEN input ELSE Null) = k
    BY <1>5, <2>1, <2>2
  <2>4. ce = Wrapped(overrides, p, IF IsObject(input) THEN input ELSE Null)
    BY <1>2, <1>6, <1>7 DEF WrapCloudEvent
  <2>5. IsObject(ce) /\ "id" \in DOMAIN ce.fields /\ ce.fields["id"] = String(k)
    BY <2>1, <2>3, <2>4 DEF Wrapped, Object, IsObject
  <2>6. ResolveNestedField(ce, <<"id">>) = k
    BY <2>5, IdField DEF String
  <2> QED
    BY <1>1, <2>6, IdOfOne
<1>8. CASE IsCloudEvent(input)
  <2>1. p = input /\ IsObject(input)
    BY <1>1, <1>2, <1>8 DEF Transformed, IsCloudEvent
  <2>2. ce = PassOrMergeCloudEvent(overrides, input, input)
    BY <1>2, <1>8, <2>1
  <2> DEFINE New(name) == IF name = "data" THEN DataOverride(overrides[name], seen)
                          ELSE String(EvaluateCELExpression(overrides[name], seen))
             Unset(name) == IF name = "data" THEN Null ELSE String("")
             Given == {name \in DOMAIN overrides : New(name) # Unset(name)}
  <2>3. ce = Object([name \in DOMAIN input.fields \cup Given |->
                       IF name \in Given THEN New(name) ELSE input.fields[name]])
    BY <1>8, <2>2 DEF PassOrMergeCloudEvent, Seen
  <2>4. IsObject(ce) /\ DOMAIN ce.fields = DOMAIN input.fields \cup Given
    BY <2>3 DEF Object, IsObject
  <2>5. CASE Overridden /\ Selected # {}
    <3>1. New("id") = String(k)
      BY <1>5, <2>5
    <3>2. String(k) # Unset("id")
      BY <1>1 DEF String
    <3>3. "id" \in Given
      BY <2>5, <3>1, <3>2
    <3>4. ce.fields["id"] = String(k)
      BY <2>3, <3>1, <3>3 DEF Object
    <3>5. IsObject(ce) /\ "id" \in DOMAIN ce.fields
      BY <2>4, <3>3
    <3>6. ce.fields["id"].kind = "text" /\ ce.fields["id"].text = k
      BY <3>4 DEF String
    <3>7. ResolveNestedField(ce, <<"id">>) = k
      BY <3>5, <3>6, IdField
    <3> QED
      BY <1>1, <3>7, IdOfOne
  <2>6. CASE ~(Overridden /\ Selected # {})
    <3>1. v \in Lookup(input, <<"id">>)
      BY <1>1, <2>6
    <3>2. "id" \in DOMAIN input.fields /\ v = input.fields["id"]
      <4>1. Len(<<"id">>) = 1 /\ <<"id">>[1] = "id"
        OBVIOUS
      <4>2. Lookup(input, <<"id">>) = Select({input}, "id")
        BY <4>1, LookupOne
      <4> QED
        BY <3>1, <4>2 DEF Select
    <3>3. Overridden => New("id") = String("")
      <4> SUFFICES ASSUME Overridden PROVE EvaluateCELExpression(overrides["id"], seen) = ""
        OBVIOUS
      <4>1. EvaluateCELValue(overrides["id"], seen) = {}
        BY <1>4, <2>1, <2>6
      <4> QED
        BY <4>1 DEF EvaluateCELExpression
    <3>4. "id" \notin Given
      BY <3>3
    <3>5. ce.fields["id"] = v
      BY <2>3, <3>2, <3>4 DEF Object
    <3> QED
      BY <1>1, <2>4, <3>2, <3>5, IdField, IdOfOne
  <2> QED
    BY <2>5, <2>6
<1> QED
  BY <1>7, <1>8

\* Events of one key have one id, and it is no other key's: the server keeps them
\* apart or together.
THEOREM TemporalOneRunPerKey == TemporalSpec => []OneOpenRunPerKey
<1>1. ASSUME ServerInv PROVE OneOpenRunPerKey
  <2> SUFFICES ASSUME NEW i \in DOMAIN runs, NEW j \in DOMAIN runs, i # j,
                      runs[i].event # <<>>, runs[j].event # <<>>,
                      Key(runs[i].event) # {}, Key(runs[j].event) # {}
               PROVE  /\ Key(runs[i].event) = Key(runs[j].event) => ~(runs[i].open /\ runs[j].open)
                      /\ Key(runs[i].event) # Key(runs[j].event) => runs[i].id # runs[j].id
    BY DEF OneOpenRunPerKey
  <2>1. /\ \A k \in Key(runs[i].event) : runs[i].id = <<k>>
        /\ \A k \in Key(runs[j].event) : runs[j].id = <<k>>
    BY <1>1, KeyIsId DEF ServerInv, IdsOfEvents, IdsOf
  <2>2. \A a, b : <<a>> = <<b>> => a = b
    OBVIOUS
  <2>3. CASE Key(runs[i].event) = Key(runs[j].event)
    <3>1. PICK k : runs[i].id = <<k>> /\ runs[j].id = <<k>>
      BY <2>1, <2>3
    <3>2. <<k>> # <<>>
      OBVIOUS
    <3> QED
      BY <1>1, <2>3, <3>1, <3>2 DEF ServerInv, IdsUnique
  <2>4. CASE runs[i].id = runs[j].id
    <3>1. \A a \in Key(runs[i].event), b \in Key(runs[j].event) : a = b
      BY <2>1, <2>2, <2>4
    <3>2. Key(runs[i].event) = Key(runs[j].event)
      BY <3>1
    <3> QED
      BY <2>3, <3>2
  <2> QED
    BY <2>3, <2>4
<1> QED
  BY <1>1, TemporalInvariant, PTL
=============================================================================
