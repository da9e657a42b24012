-------------------------- MODULE KafkaTxFlow_proofs --------------------------
(***************************************************************************)
(* The transactional flow for every set of partitions and every topic      *)
(* size, under the source's RequireStableFetchOffset: its output is seen   *)
(* once, the output and the committed offsets agree, and it implements     *)
(* ExactlyOnce.                                                            *)
(*                                                                         *)
(* A step of the output is safe when the transaction's records lie at or   *)
(* above the committed offsets.  The invariant keeps that for the          *)
(* transaction of the running loop (InTransaction) and for one nobody but  *)
(* the broker knows the outcome of (Undecided), which exists only while no *)
(* loop runs: a starting consumer waits for it.                            *)
(***************************************************************************)
EXTENDS KafkaTxFlow, TLAPS

\* s is a set of records from the offsets a up to (not including) b.
Within(s, a, b) ==
    \A r \in s : \E p \in Partitions, o \in Nat : r = <<p, o>> /\ a[p] <= o /\ o < b[p]

\* Every record from a up to (not including) b is in s.
Covers(s, a, b) ==
    \A p \in Partitions, o \in Nat : a[p] <= o /\ o < b[p] => <<p, o>> \in s

Live == pc \notin {"down", "returned"}

\* The running loop's offsets: committed, then handled, then polled.
OffsetsOrdered ==
    Live =>
        /\ base = committed
        /\ \A p \in Partitions : committed[p] <= cursor[p] /\ cursor[p] <= position[p]
        /\ pc \in {"poll", "commit"} => cursor = position
        /\ pc = "handle" => cursor[part] < position[part]

\* Before a transaction begins, what the client is past was dropped.
BetweenTransactions == pc \in {"poll", "begin"} => Covers(dropped, committed, cursor)

\* An open transaction has the output of what was handled since the last commit.
InTransaction ==
    pc \in {"next", "handle", "commit"} /\ tx = "open" =>
        /\ Within(txOut, committed, cursor)
        /\ Covers(txOut \cup dropped, committed, cursor)

\* An undecided transaction has the output of what its offsets move over.
Undecided ==
    tx = "undecided" =>
        /\ ~Live
        /\ \A p \in Partitions : committed[p] <= txOffsets[p]
        /\ Within(txOut, committed, txOffsets)
        /\ Covers(txOut \cup dropped, committed, txOffsets)

\* What is seen is what was consumed, but for the dropped records.
Settled ==
    /\ Within(output, Zero, committed)
    /\ Covers(output \cup dropped, Zero, committed)

\* The inductive invariant.
IInv ==
    /\ TypeOK
    /\ OffsetsOrdered
    /\ BetweenTransactions
    /\ InTransaction
    /\ Undecided
    /\ Settled
    /\ NoOutputTwice

Offsets == [Partitions -> Nat]

-----------------------------------------------------------------------------
\* A span of records, element by element.
LEMMA SpanElements ==
    ASSUME NEW a \in Offsets, NEW b \in Offsets, NEW r
    PROVE  r \in UNION {Span(p, a[p], b[p]) : p \in Partitions}
             <=> \E p \in Partitions, o \in Nat : r = <<p, o>> /\ a[p] <= o /\ o < b[p]
<1>1. ASSUME NEW p \in Partitions
      PROVE  Span(p, a[p], b[p]) = {<<p, o>> : o \in {n \in Nat : a[p] <= n /\ n < b[p]}}
  <2>1. a[p] \in Nat /\ b[p] \in Nat
    BY DEF Offsets
  <2>2. a[p]..(b[p] - 1) = {n \in Nat : a[p] <= n /\ n < b[p]}
    BY <2>1
  <2> QED
    BY <2>2 DEF Span
<1> QED
  BY <1>1

\* The invariant's parts say what the runs' properties say.
LEMMA SettledMatches == ASSUME IInv PROVE OutputMatchesOffsets
<1>1. committed \in Offsets /\ Zero \in Offsets
  BY DEF IInv, TypeOK, Offsets, Zero
<1>2. ASSUME NEW p \in Partitions PROVE Span(p, 0, committed[p]) = Span(p, Zero[p], committed[p])
  BY DEF Zero
<1>3. ASSUME NEW r
      PROVE  r \in Consumed <=>
               \E p \in Partitions, o \in Nat : r = <<p, o>> /\ Zero[p] <= o /\ o < committed[p]
  BY <1>1, <1>2, SpanElements DEF Consumed
<1>4. output \subseteq Consumed
  BY <1>3 DEF IInv, Settled, Within
<1>5. Consumed \subseteq output \cup dropped
  BY <1>3 DEF IInv, Settled, Covers
<1> QED
  BY <1>4, <1>5 DEF OutputMatchesOffsets

-----------------------------------------------------------------------------
\* The initial states satisfy the invariant.
LEMMA InitInv == Init => IInv
<1> SUFFICES ASSUME Init PROVE IInv
  OBVIOUS
<1>1. TypeOK
  BY KafkaTxFlowAssumption DEF KafkaTxFlowAssumption, Init, TypeOK, Zero, Steps, Records
<1>2. OffsetsOrdered /\ BetweenTransactions /\ InTransaction /\ Undecided /\ NoOutputTwice
  BY DEF Init, OffsetsOrdered, BetweenTransactions, InTransaction, Undecided, NoOutputTwice, Live
<1>3. Settled
  BY DEF Init, Settled, Within, Covers, Zero
<1> QED
  BY <1>1, <1>2, <1>3 DEF IInv

\* Steps that touch neither the broker's transaction nor the client's offsets nor
\* the output, and do not move the loop to a state that promises more.
LEMMA OutsideInv ==
    ASSUME IInv, TypeOK',
           UNCHANGED <<committed, tx, txOut, txOffsets, output, repeated, position, cursor, base,
                       part, dropped>>,
           pc' = pc \/ pc' \in {"down", "returned"}
    PROVE  IInv'
<1>1. OffsetsOrdered'
  BY DEF IInv, OffsetsOrdered, Live
<1>2. BetweenTransactions'
  BY DEF IInv, BetweenTransactions, Covers
<1>3. InTransaction'
  BY DEF IInv, InTransaction, Within, Covers
<1>4. Undecided'
  BY DEF IInv, Undecided, Within, Covers, Live
<1>5. Settled' /\ NoOutputTwice'
  BY DEF IInv, Settled, NoOutputTwice, Within, Covers, Zero
<1> QED
  BY <1>1, <1>2, <1>3, <1>4, <1>5 DEF IInv

\* An aborted transaction promises nothing.
LEMMA DiscardInv ==
    ASSUME IInv, TypeOK', Discard,
           UNCHANGED <<committed, output, repeated, position, cursor, base, part, dropped>>,
           pc' = pc \/ pc' \in {"down", "returned"}
    PROVE  IInv'
<1>1. OffsetsOrdered'
  BY DEF IInv, OffsetsOrdered, Live
<1>2. BetweenTransactions'
  BY DEF IInv, BetweenTransactions, Covers
<1>3. InTransaction' /\ Undecided'
  BY DEF InTransaction, Undecided, Discard
<1>4. Settled' /\ NoOutputTwice'
  BY DEF IInv, Settled, NoOutputTwice, Within, Covers, Zero
<1> QED
  BY <1>1, <1>2, <1>3, <1>4 DEF IInv

\* A transaction above the committed offsets takes effect once: what it shows was
\* not shown before.
LEMMA EffectSettles ==
    ASSUME IInv, NEW to \in Offsets, TakeEffect(to), UNCHANGED dropped,
           \A p \in Partitions : committed[p] <= to[p],
           Within(txOut, committed, to),
           Covers(txOut \cup dropped, committed, to)
    PROVE  Settled' /\ NoOutputTwice'
<1>1. committed \in Offsets /\ committed' = to /\ output' = output \cup txOut
  BY DEF IInv, TypeOK, Offsets, TakeEffect
<1>2. Within(output', Zero, to)
  <2>1. ASSUME NEW r \in output
        PROVE  \E p \in Partitions, o \in Nat : r = <<p, o>> /\ Zero[p] <= o /\ o < to[p]
    <3>1. PICK p \in Partitions, o \in Nat : r = <<p, o>> /\ Zero[p] <= o /\ o < committed[p]
      BY DEF IInv, Settled, Within
    <3>2. o < to[p]
      BY <3>1, <1>1 DEF Offsets
    <3> QED
      BY <3>1, <3>2
  <2>2. ASSUME NEW r \in txOut
        PROVE  \E p \in Partitions, o \in Nat : r = <<p, o>> /\ Zero[p] <= o /\ o < to[p]
    BY DEF Within, Zero
  <2> QED
    BY <2>1, <2>2, <1>1 DEF Within
<1>3. Covers(output' \cup dropped, Zero, to)
  <2> SUFFICES ASSUME NEW p \in Partitions, NEW o \in Nat, Zero[p] <= o, o < to[p]
               PROVE  <<p, o>> \in output' \cup dropped
    BY DEF Covers
  <2>1. CASE o < committed[p]
    BY <2>1, <1>1 DEF IInv, Settled, Covers
  <2>2. CASE committed[p] <= o
    BY <2>2, <1>1 DEF Covers
  <2> QED
    BY <2>1, <2>2, <1>1 DEF Offsets
<1>4. output \cap txOut = {}
  <2> SUFFICES ASSUME NEW r, r \in output, r \in txOut PROVE FALSE
    OBVIOUS
  <2>1. PICK p \in Partitions, o \in Nat : r = <<p, o>> /\ o < committed[p]
    BY DEF IInv, Settled, Within
  <2>2. PICK q \in Partitions, n \in Nat : r = <<q, n>> /\ committed[q] <= n
    BY DEF Within
  <2> QED
    BY <2>1, <2>2, <1>1 DEF Offsets
<1>5. Settled'
  BY <1>1, <1>2, <1>3 DEF Settled, Within, Covers, Zero
<1> QED
  BY <1>4, <1>5 DEF IInv, NoOutputTwice, TakeEffect

-----------------------------------------------------------------------------
\* What a fetch can return.
LEMMA FetchTypes ==
    ASSUME TypeOK, NEW f \in Fetches
    PROVE  f \in Offsets /\ \A p \in Partitions : position[p] <= f[p]
<1>1. ASSUME NEW p \in Partitions PROVE f[p] \in Nat /\ position[p] <= f[p]
  BY DEF TypeOK, Fetches
<1>2. f = [p \in Partitions |-> f[p]]
  BY DEF Fetches
<1> QED
  BY <1>1, <1>2 DEF Offsets

\* The record in hand is a record.
LEMMA InHandRecord == ASSUME TypeOK PROVE InHand \in Records /\ cursor[part] \in Nat
BY DEF TypeOK, InHand, Records

\* The types are preserved.
LEMMA NextType == ASSUME TypeOK, Next PROVE TypeOK'
<1> USE DEF TypeOK, outVars, txVars, clientVars
<1>1. ASSUME NEW p \in Partitions, Produce(p) PROVE TypeOK'
  BY <1>1 DEF Produce
<1>2. CASE BrokerAborts
  BY <1>2 DEF BrokerAborts, Discard, Zero
<1>3. CASE BrokerCommits
  BY <1>3 DEF BrokerCommits, TakeEffect, Discard, Zero
<1>4. CASE Start
  BY <1>4 DEF Start, Steps
<1>5. CASE Cancel
  BY <1>5 DEF Cancel, Steps
<1>18. CASE ProcessEnds
  BY <1>18 DEF ProcessEnds, Zero, Steps
<1>6. CASE Poll
  <2>1. PICK f \in Fetches : position' = f
    BY <1>6 DEF Poll
  <2>2. position' \in [Partitions -> Nat]
    BY <2>1, FetchTypes DEF Offsets
  <2> QED
    BY <1>6, <2>2 DEF Poll, Steps
<1>7. CASE PollError
  <2>1. PICK f \in Fetches :
          /\ position' = f
          /\ cursor' = f
          /\ dropped' = dropped \cup UNION {Span(p, position[p], f[p]) : p \in Partitions}
    BY <1>7 DEF PollError
  <2>2. f \in Offsets
    BY FetchTypes
  <2>3. UNION {Span(p, position[p], f[p]) : p \in Partitions} \subseteq Records
    BY <2>2, SpanElements DEF Offsets, Records
  <2> QED
    BY <1>7, <2>1, <2>2, <2>3 DEF PollError, Onward, Steps, Offsets
<1>8. CASE PollEmpty
  BY <1>8 DEF PollEmpty, Onward, Steps
<1>9. CASE Begin
  BY <1>9 DEF Begin, Steps
<1>10. ASSUME NEW p \in Partitions, NextRecord(p) PROVE TypeOK'
  BY <1>10 DEF NextRecord, Steps
<1>11. CASE HandleOk
  BY <1>11, InHandRecord DEF HandleOk, Steps
<1>12. CASE HandleError
  BY <1>12, InHandRecord DEF HandleError, Steps
<1>13. CASE Abort
  BY <1>13 DEF Abort, Discard, Zero, Steps
<1>14. CASE EndOfBatch
  BY <1>14 DEF EndOfBatch, Steps
<1>15. CASE CommitOk
  BY <1>15 DEF CommitOk, TakeEffect, Discard, Zero, Onward, Steps
<1>16. CASE CommitAborted
  BY <1>16 DEF CommitAborted, Discard, Zero, Steps
<1>17. CASE CommitError
  BY <1>17 DEF CommitError, Steps
<1> QED
  BY <1>1, <1>2, <1>3, <1>4, <1>5, <1>6, <1>7, <1>8, <1>9, <1>10, <1>11, <1>12, <1>13, <1>14,
     <1>15, <1>16, <1>17, <1>18 DEF Next, Loop

-----------------------------------------------------------------------------
\* An undecided transaction takes effect while no loop runs.
LEMMA BrokerCommitsInv == ASSUME IInv, TypeOK', BrokerCommits PROVE IInv'
<1>1. /\ TakeEffect(txOffsets) /\ ~Live /\ tx' = "none"
      /\ UNCHANGED <<dropped, pc>>
  BY DEF BrokerCommits, IInv, Undecided, TakeEffect, Discard
<1>2. txOffsets \in Offsets /\ tx = "undecided"
  BY DEF IInv, TypeOK, Offsets, BrokerCommits
<1>3. Settled' /\ NoOutputTwice'
  BY <1>1, <1>2, EffectSettles DEF IInv, Undecided
<1>4. OffsetsOrdered' /\ BetweenTransactions' /\ InTransaction' /\ Undecided'
  BY <1>1 DEF OffsetsOrdered, BetweenTransactions, InTransaction, Undecided, Live
<1> QED
  BY <1>3, <1>4 DEF IInv

\* A starting consumer begins where the offsets are, and no transaction is
\* undecided then.
LEMMA StartInv ==
    ASSUME IInv, TypeOK', Start, RequireStableFetchOffset PROVE IInv'
<1>1. /\ tx' # "undecided" /\ tx' = tx /\ pc' = "poll"
      /\ base' = committed' /\ cursor' = committed' /\ position' = committed'
      /\ UNCHANGED <<committed, output, repeated, dropped>>
  BY DEF Start, outVars, txVars
<1>2. \A p \in Partitions : committed'[p] \in Nat
  BY DEF TypeOK
<1>3. OffsetsOrdered'
  BY <1>1, <1>2 DEF OffsetsOrdered
<1>4. BetweenTransactions'
  BY <1>1, <1>2 DEF BetweenTransactions, Covers
<1>5. InTransaction' /\ Undecided'
  BY <1>1 DEF InTransaction, Undecided
<1>6. Settled' /\ NoOutputTwice'
  BY <1>1 DEF IInv, Settled, NoOutputTwice, Within, Covers, Zero
<1> QED
  BY <1>3, <1>4, <1>5, <1>6 DEF IInv

\* Without a running loop the client's offsets do not matter.
LEMMA ProcessEndsInv == ASSUME IInv, TypeOK', ProcessEnds PROVE IInv'
<1>1. /\ pc' = "down"
      /\ UNCHANGED <<committed, output, repeated, tx, txOut, txOffsets, dropped>>
  BY DEF ProcessEnds, outVars, txVars
<1>2. OffsetsOrdered' /\ BetweenTransactions' /\ InTransaction'
  BY <1>1 DEF OffsetsOrdered, BetweenTransactions, InTransaction, Live
<1>3. Undecided'
  BY <1>1 DEF IInv, Undecided, Live, Within, Covers
<1>4. Settled' /\ NoOutputTwice'
  BY <1>1 DEF IInv, Settled, NoOutputTwice, Within, Covers, Zero
<1> QED
  BY <1>2, <1>3, <1>4 DEF IInv

\* A poll moves the fetch position on.
LEMMA PollInv == ASSUME IInv, TypeOK', Poll PROVE IInv'
<1>1. PICK f \in Fetches : position' = f
  BY DEF Poll
<1>2. \A p \in Partitions : position[p] <= position'[p]
  BY <1>1, FetchTypes DEF IInv
<1>3. /\ pc = "poll" /\ pc' = "begin"
      /\ UNCHANGED <<committed, output, repeated, tx, txOut, txOffsets, cursor, base, dropped>>
  BY DEF Poll, outVars, txVars
<1>4. tx # "undecided"
  BY <1>3 DEF IInv, Undecided, Live
<1>5. OffsetsOrdered'
  <2>1. /\ base' = committed'
        /\ \A p \in Partitions : committed[p] <= cursor[p] /\ cursor[p] <= position[p]
    BY <1>3 DEF IInv, OffsetsOrdered, Live
  <2>2. \A p \in Partitions : cursor'[p] <= position'[p]
    BY <1>2, <1>3, <2>1 DEF IInv, TypeOK
  <2> QED
    BY <1>3, <2>1, <2>2 DEF OffsetsOrdered
<1>6. BetweenTransactions'
  BY <1>3 DEF IInv, BetweenTransactions, Covers
<1>7. InTransaction' /\ Undecided'
  BY <1>3, <1>4 DEF InTransaction, Undecided
<1>8. Settled' /\ NoOutputTwice'
  BY <1>3 DEF IInv, Settled, NoOutputTwice, Within, Covers, Zero
<1> QED
  BY <1>5, <1>6, <1>7, <1>8 DEF IInv

\* A failed poll drops what it moves past.
LEMMA PollErrorInv == ASSUME IInv, TypeOK', PollError PROVE IInv'
<1>1. PICK f \in Fetches :
        /\ position' = f
        /\ cursor' = f
        /\ dropped' = dropped \cup UNION {Span(p, position[p], f[p]) : p \in Partitions}
  BY DEF PollError
<1>2. f \in Offsets /\ (\A p \in Partitions : position[p] <= f[p]) /\ position \in Offsets
  BY FetchTypes DEF IInv, TypeOK, Offsets
<1>3. /\ pc = "poll" /\ pc' \in {"poll", "returned"}
      /\ UNCHANGED <<committed, output, repeated, tx, txOut, txOffsets, base>>
  BY DEF PollError, Onward, outVars, txVars
<1>4. /\ tx # "undecided" /\ base = committed /\ cursor = position
      /\ \A p \in Partitions : committed[p] <= position[p]
      /\ Covers(dropped, committed, position)
      /\ committed \in Offsets
  BY <1>3 DEF IInv, Undecided, OffsetsOrdered, BetweenTransactions, Live, TypeOK, Offsets
<1>5. OffsetsOrdered'
  BY <1>1, <1>2, <1>3, <1>4 DEF OffsetsOrdered, Offsets
<1>6. Covers(dropped', committed, f)
  <2> SUFFICES ASSUME NEW p \in Partitions, NEW o \in Nat, committed[p] <= o, o < f[p]
               PROVE  <<p, o>> \in dropped'
    BY DEF Covers
  <2>1. CASE o < position[p]
    BY <2>1, <1>1, <1>4 DEF Covers
  <2>2. CASE position[p] <= o
    <3>1. <<p, o>> \in UNION {Span(q, position[q], f[q]) : q \in Partitions}
      BY <2>2, <1>2, SpanElements
    <3> QED
      BY <3>1, <1>1
  <2> QED
    BY <2>1, <2>2, <1>2 DEF Offsets
<1>7. BetweenTransactions'
  BY <1>1, <1>3, <1>6 DEF BetweenTransactions, Covers
<1>8. InTransaction' /\ Undecided'
  BY <1>3, <1>4 DEF InTransaction, Undecided
<1>9. Settled' /\ NoOutputTwice'
  BY <1>1, <1>3 DEF IInv, Settled, NoOutputTwice, Within, Covers, Zero
<1> QED
  BY <1>5, <1>7, <1>8, <1>9 DEF IInv
-----------------------------------------------------------------------------
\* The new transaction is empty, and what the client is past was dropped.
LEMMA BeginInv == ASSUME IInv, TypeOK', Begin PROVE IInv'
<1>1. /\ pc = "begin" /\ Live /\ tx # "undecided"
      /\ UNCHANGED <<committed, output, repeated, position, cursor, base, part, dropped>>
  BY DEF Begin, IInv, Undecided, Live, outVars, clientVars
<1>2. CASE pc' = "returned" /\ UNCHANGED <<tx, txOut, txOffsets>>
  BY <1>1, <1>2, OutsideInv
<1>3. CASE /\ pc' = "next" /\ tx' = "open" /\ txOut' = {}
  <2>1. OffsetsOrdered'
    BY <1>1, <1>3 DEF IInv, OffsetsOrdered, Live
  <2>2. BetweenTransactions' /\ Undecided'
    BY <1>3 DEF BetweenTransactions, Undecided
  <2>3. Covers(dropped, committed, cursor)
    BY <1>1 DEF IInv, BetweenTransactions
  <2>4. InTransaction'
    BY <1>1, <1>3, <2>3 DEF InTransaction, Within, Covers
  <2>5. Settled' /\ NoOutputTwice'
    BY <1>1 DEF IInv, Settled, NoOutputTwice, Within, Covers, Zero
  <2> QED
    BY <2>1, <2>2, <2>4, <2>5 DEF IInv
<1> QED
  BY <1>2, <1>3 DEF Begin, txVars

\* Taking the next record of the batch.
LEMMA NextRecordInv ==
    ASSUME IInv, TypeOK', NEW p \in Partitions, NextRecord(p) PROVE IInv'
<1>1. /\ pc = "next" /\ pc' = "handle" /\ Live /\ part' = p /\ cursor[p] < position[p]
      /\ tx # "undecided"
      /\ UNCHANGED <<committed, output, repeated, tx, txOut, txOffsets, position, cursor, base,
                     dropped>>
  BY DEF NextRecord, IInv, Undecided, Live, outVars, txVars, clientVars
<1>2. OffsetsOrdered'
  BY <1>1 DEF IInv, OffsetsOrdered
<1>3. BetweenTransactions' /\ Undecided'
  BY <1>1 DEF BetweenTransactions, Undecided
<1>4. InTransaction'
  BY <1>1 DEF IInv, InTransaction, Within, Covers
<1>5. Settled' /\ NoOutputTwice'
  BY <1>1 DEF IInv, Settled, NoOutputTwice, Within, Covers, Zero
<1> QED
  BY <1>2, <1>3, <1>4, <1>5 DEF IInv

\* A handled record joins the transaction, and the cursor moves past it.
LEMMA HandleOkInv == ASSUME IInv, TypeOK', HandleOk PROVE IInv'
<1>1. /\ pc = "handle" /\ pc' = "next" /\ tx = "open" /\ tx' = "open"
      /\ txOut' = txOut \cup {<<part, cursor[part]>>}
      /\ cursor' = [cursor EXCEPT ![part] = @ + 1]
      /\ UNCHANGED <<committed, output, repeated, position, base, part, dropped>>
  BY DEF HandleOk, InHand, outVars
<1>2. /\ base = committed
      /\ \A p \in Partitions : committed[p] <= cursor[p] /\ cursor[p] <= position[p]
      /\ cursor[part] < position[part]
      /\ Within(txOut, committed, cursor)
      /\ Covers(txOut \cup dropped, committed, cursor)
  BY <1>1 DEF IInv, OffsetsOrdered, InTransaction, Live
<1>3. /\ part \in Partitions
      /\ \A p \in Partitions : committed[p] \in Nat /\ cursor[p] \in Nat /\ position[p] \in Nat
      /\ cursor'[part] = cursor[part] + 1
      /\ \A p \in Partitions : p # part => cursor'[p] = cursor[p]
      /\ \A p \in Partitions : cursor'[p] \in Nat
  BY <1>1 DEF IInv, TypeOK
<1>4. OffsetsOrdered'
  <2>1. ASSUME NEW p \in Partitions
        PROVE  committed[p] <= cursor'[p] /\ cursor'[p] <= position[p]
    <3>1. CASE p = part
      BY <3>1, <1>2, <1>3
    <3>2. CASE p # part
      BY <3>2, <1>2, <1>3
    <3> QED
      BY <3>1, <3>2
  <2> QED
    BY <1>1, <1>2, <2>1 DEF OffsetsOrdered
<1>5. BetweenTransactions' /\ Undecided'
  BY <1>1 DEF BetweenTransactions, Undecided
<1>6. Within(txOut', committed, cursor')
  <2>1. ASSUME NEW r \in txOut
        PROVE  \E p \in Partitions, o \in Nat : r = <<p, o>> /\ committed[p] <= o /\ o < cursor'[p]
    <3>1. PICK p \in Partitions, o \in Nat : r = <<p, o>> /\ committed[p] <= o /\ o < cursor[p]
      BY <1>2 DEF Within
    <3>2. o < cursor'[p]
      BY <3>1, <1>3
    <3> QED
      BY <3>1, <3>2
  <2>2. committed[part] <= cursor[part] /\ cursor[part] < cursor'[part]
    BY <1>2, <1>3
  <2> QED
    BY <1>1, <1>3, <2>1, <2>2 DEF Within
<1>7. Covers(txOut' \cup dropped, committed, cursor')
  <2> SUFFICES ASSUME NEW p \in Partitions, NEW o \in Nat, committed[p] <= o, o < cursor'[p]
               PROVE  <<p, o>> \in txOut' \cup dropped
    BY DEF Covers
  <2>1. CASE o < cursor[p]
    BY <2>1, <1>1, <1>2 DEF Covers
  <2>2. CASE ~(o < cursor[p])
    <3>1. p = part /\ o = cursor[part]
      BY <2>2, <1>3
    <3> QED
      BY <3>1, <1>1
  <2> QED
    BY <2>1, <2>2
<1>8. InTransaction'
  BY <1>1, <1>6, <1>7 DEF InTransaction, Within, Covers
<1>9. Settled' /\ NoOutputTwice'
  BY <1>1 DEF IInv, Settled, NoOutputTwice, Within, Covers, Zero
<1> QED
  BY <1>4, <1>5, <1>8, <1>9 DEF IInv

\* A failed record leaves a transaction that will be aborted.
LEMMA HandleErrorInv == ASSUME IInv, TypeOK', HandleError PROVE IInv'
<1>1. /\ pc = "handle" /\ pc' = "abort" /\ Live /\ tx # "undecided"
      /\ UNCHANGED <<committed, output, repeated, tx, position, cursor, base, part, dropped>>
  BY DEF HandleError, IInv, Undecided, Live, outVars, clientVars
<1>2. OffsetsOrdered'
  BY <1>1 DEF IInv, OffsetsOrdered
<1>3. BetweenTransactions' /\ InTransaction' /\ Undecided'
  BY <1>1 DEF BetweenTransactions, InTransaction, Undecided
<1>4. Settled' /\ NoOutputTwice'
  BY <1>1 DEF IInv, Settled, NoOutputTwice, Within, Covers, Zero
<1> QED
  BY <1>2, <1>3, <1>4 DEF IInv

\* An abort rewinds the client to the committed offsets.
LEMMA AbortInv == ASSUME IInv, TypeOK', Abort PROVE IInv'
<1>1. /\ pc = "abort" /\ Live /\ tx # "undecided" /\ base = committed
      /\ UNCHANGED <<committed, output, repeated, base, part, dropped>>
  BY DEF Abort, IInv, Undecided, OffsetsOrdered, Live, outVars
<1>2. CASE pc' = "returned" /\ UNCHANGED <<tx, txOut, txOffsets, position, cursor>>
  BY <1>1, <1>2, OutsideInv
<1>3. CASE /\ Discard /\ position' = base /\ cursor' = base /\ pc' \in {"returned", "poll"}
  <2>1. \A p \in Partitions : committed[p] \in Nat
    BY DEF IInv, TypeOK
  <2>2. OffsetsOrdered'
    BY <1>1, <1>3, <2>1 DEF OffsetsOrdered, Live
  <2>3. BetweenTransactions'
    BY <1>1, <1>3, <2>1 DEF BetweenTransactions, Covers
  <2>4. InTransaction' /\ Undecided'
    BY <1>3 DEF InTransaction, Undecided, Discard
  <2>5. Settled' /\ NoOutputTwice'
    BY <1>1 DEF IInv, Settled, NoOutputTwice, Within, Covers, Zero
  <2> QED
    BY <2>2, <2>3, <2>4, <2>5 DEF IInv
<1> QED
  BY <1>2, <1>3 DEF Abort, txVars

\* At the end of the batch the cursor is the fetch position.
LEMMA EndOfBatchInv == ASSUME IInv, TypeOK', EndOfBatch PROVE IInv'
<1>1. /\ pc = "next" /\ pc' = "commit" /\ Live /\ tx # "undecided"
      /\ \A p \in Partitions : cursor[p] = position[p]
      /\ UNCHANGED <<committed, output, repeated, tx, txOut, txOffsets, position, cursor, base,
                     dropped>>
  BY DEF EndOfBatch, BatchDone, IInv, Undecided, Live, outVars, txVars, clientVars
<1>2. cursor = position
  <2>1. cursor \in [Partitions -> Nat] /\ position \in [Partitions -> Nat]
    BY DEF IInv, TypeOK
  <2> QED
    BY <1>1, <2>1
<1>3. OffsetsOrdered'
  BY <1>1, <1>2 DEF IInv, OffsetsOrdered
<1>4. BetweenTransactions' /\ Undecided'
  BY <1>1 DEF BetweenTransactions, Undecided
<1>5. InTransaction'
  BY <1>1 DEF IInv, InTransaction, Within, Covers
<1>6. Settled' /\ NoOutputTwice'
  BY <1>1 DEF IInv, Settled, NoOutputTwice, Within, Covers, Zero
<1> QED
  BY <1>3, <1>4, <1>5, <1>6 DEF IInv

\* What a commit of the running loop takes effect with.
LEMMA CommitFacts ==
    ASSUME IInv, pc = "commit", tx = "open"
    PROVE  /\ position \in Offsets /\ cursor = position /\ base = committed
           /\ \A p \in Partitions : committed[p] <= position[p]
           /\ Within(txOut, committed, position)
           /\ Covers(txOut \cup dropped, committed, position)
BY DEF IInv, TypeOK, Offsets, OffsetsOrdered, InTransaction, Live

\* A commit moves the committed offsets to the end of the batch.
LEMMA CommitOkInv == ASSUME IInv, TypeOK', CommitOk PROVE IInv'
<1>1. /\ pc = "commit" /\ tx = "open" /\ TakeEffect(position) /\ base' = position
      /\ committed' = position /\ tx' = "none" /\ pc' \in {"poll", "returned"}
      /\ UNCHANGED <<position, cursor, dropped>>
  BY DEF CommitOk, TakeEffect, Discard, Onward
<1>2. /\ position \in Offsets /\ cursor = position
      /\ \A p \in Partitions : position[p] \in Nat
  BY <1>1, CommitFacts DEF Offsets
<1>3. Settled' /\ NoOutputTwice'
  BY <1>1, CommitFacts, EffectSettles
<1>4. OffsetsOrdered'
  BY <1>1, <1>2 DEF OffsetsOrdered
<1>5. BetweenTransactions'
  BY <1>1, <1>2 DEF BetweenTransactions, Covers
<1>6. InTransaction' /\ Undecided'
  BY <1>1 DEF InTransaction, Undecided
<1> QED
  BY <1>3, <1>4, <1>5, <1>6 DEF IInv

\* A commit whose outcome is unknown ends the loop.
LEMMA CommitErrorInv == ASSUME IInv, TypeOK', CommitError PROVE IInv'
<1>1. /\ pc = "commit" /\ pc' = "returned"
      /\ UNCHANGED <<committed, output, repeated, position, cursor, base, part, dropped>>
  BY DEF CommitError, outVars, clientVars
<1>2. CASE UNCHANGED <<tx, txOut, txOffsets>>
  BY <1>1, <1>2, OutsideInv
<1>3. CASE tx = "open" /\ tx' = "undecided" /\ txOffsets' = position /\ txOut' = txOut
  <2>1. OffsetsOrdered' /\ BetweenTransactions' /\ InTransaction'
    BY <1>1 DEF OffsetsOrdered, BetweenTransactions, InTransaction, Live
  <2>2. Undecided'
    BY <1>1, <1>3, CommitFacts DEF Undecided, Live, Within, Covers
  <2>3. Settled' /\ NoOutputTwice'
    BY <1>1 DEF IInv, Settled, NoOutputTwice, Within, Covers, Zero
  <2> QED
    BY <2>1, <2>2, <2>3 DEF IInv
<1> QED
  BY <1>2, <1>3 DEF CommitError, txVars

-----------------------------------------------------------------------------
\* Every step preserves the invariant when a starting consumer waits for an
\* undecided transaction.
LEMMA NextInv == ASSUME RequireStableFetchOffset, IInv, Next PROVE IInv'
<1>1. TypeOK'
  BY NextType DEF IInv
<1>2. ASSUME NEW p \in Partitions, Produce(p) PROVE IInv'
  BY <1>1, <1>2, OutsideInv DEF Produce, outVars, txVars, clientVars
<1>3. CASE BrokerAborts
  BY <1>1, <1>3, DiscardInv DEF BrokerAborts, outVars, clientVars
<1>4. CASE BrokerCommits
  BY <1>1, <1>4, BrokerCommitsInv
<1>5. CASE Start
  BY <1>1, <1>5, StartInv
<1>6. CASE Cancel
  BY <1>1, <1>6, OutsideInv DEF Cancel, outVars, txVars, clientVars
<1>7. CASE ProcessEnds
  BY <1>1, <1>7, ProcessEndsInv
<1>8. CASE Poll
  BY <1>1, <1>8, PollInv
<1>9. CASE PollError
  BY <1>1, <1>9, PollErrorInv
<1>10. CASE PollEmpty
  BY <1>1, <1>10, OutsideInv DEF PollEmpty, Onward, outVars, txVars, clientVars
<1>11. CASE Begin
  BY <1>1, <1>11, BeginInv
<1>12. ASSUME NEW p \in Partitions, NextRecord(p) PROVE IInv'
  BY <1>1, <1>12, NextRecordInv
<1>13. CASE HandleOk
  BY <1>1, <1>13, HandleOkInv
<1>14. CASE HandleError
  BY <1>1, <1>14, HandleErrorInv
<1>15. CASE Abort
  BY <1>1, <1>15, AbortInv
<1>16. CASE EndOfBatch
  BY <1>1, <1>16, EndOfBatchInv
<1>17. CASE CommitOk
  BY <1>1, <1>17, CommitOkInv
<1>18. CASE CommitAborted
  BY <1>1, <1>18, DiscardInv DEF CommitAborted, outVars, clientVars
<1>19. CASE CommitError
  BY <1>1, <1>19, CommitErrorInv
<1> QED
  BY <1>2, <1>3, <1>4, <1>5, <1>6, <1>7, <1>8, <1>9, <1>10, <1>11, <1>12, <1>13, <1>14, <1>15,
     <1>16, <1>17, <1>18, <1>19 DEF Next, Loop

\* The invariant does not depend on anything but the variables.
LEMMA StutterInv == ASSUME IInv, UNCHANGED vars PROVE IInv'
BY DEF vars, outVars, txVars, clientVars, IInv, TypeOK, OffsetsOrdered, BetweenTransactions,
       InTransaction, Undecided, Settled, NoOutputTwice, Live, Within, Covers, Zero, Records, Steps

-----------------------------------------------------------------------------
\* The invariant holds whenever the source fetches stable offsets only, as
\* NewSource asks for a transactional source to do.
THEOREM TxInvariant == RequireStableFetchOffset => (Spec => []IInv)
<1> SUFFICES ASSUME RequireStableFetchOffset PROVE Spec => []IInv
  OBVIOUS
<1>1. IInv /\ [Next]_vars => IInv'
  BY NextInv, StutterInv
<1> QED
  BY <1>1, InitInv, PTL DEF Spec

\* The types of the broker's, the client's and the history's state, with or
\* without RequireStableFetchOffset.
THEOREM TxTypeCorrect == Spec => []TypeOK
<1>1. Init => TypeOK
  BY InitInv DEF IInv
<1>2. TypeOK /\ [Next]_vars => TypeOK'
  <2>1. ASSUME TypeOK, UNCHANGED vars PROVE TypeOK'
    BY <2>1 DEF vars, outVars, txVars, clientVars, TypeOK, Records, Steps
  <2> QED
    BY <2>1, NextType
<1> QED
  BY <1>1, <1>2, PTL DEF Spec

\* No output is seen twice, whichever of Begin, End, the process and the broker
\* fails at whichever point.
THEOREM TxNoOutputTwice == RequireStableFetchOffset => (Spec => []NoOutputTwice)
<1> SUFFICES ASSUME RequireStableFetchOffset PROVE Spec => []NoOutputTwice
  OBVIOUS
<1>1. IInv => NoOutputTwice
  BY DEF IInv
<1> QED
  BY <1>1, TxInvariant, PTL

\* A record has an output that is seen exactly when it lies below the committed
\* offset of its partition, but for the dropped ones.
THEOREM TxOutputMatchesOffsets == RequireStableFetchOffset => (Spec => []OutputMatchesOffsets)
<1> SUFFICES ASSUME RequireStableFetchOffset PROVE Spec => []OutputMatchesOffsets
  OBVIOUS
<1>1. IInv => OutputMatchesOffsets
  BY SettledMatches
<1> QED
  BY <1>1, TxInvariant, PTL
-----------------------------------------------------------------------------
\* A transaction that takes effect is one Advance of the promise.
LEMMA EffectAdvances ==
    ASSUME IInv, IInv', NEW to \in Offsets, TakeEffect(to), UNCHANGED dropped,
           \A p \in Partitions : committed[p] <= to[p],
           Within(txOut, committed, to),
           Covers(txOut \cup dropped, committed, to)
    PROVE  Promise!Advance
<1>1. /\ committed \in Offsets /\ committed' = to /\ output' = output \cup txOut
      /\ repeated' = repeated /\ dropped' = dropped
      /\ committed' \in [Partitions -> Nat]
  BY DEF IInv, TypeOK, Offsets, TakeEffect, NoOutputTwice
<1>2. \A p \in Partitions : committed'[p] >= committed[p]
  BY <1>1 DEF Offsets
<1>3. ASSUME NEW r
      PROVE  r \in Promise!Batch(to) <=>
               \E p \in Partitions, o \in Nat : r = <<p, o>> /\ committed[p] <= o /\ o < to[p]
  <2>1. \A p \in Partitions : Promise!Span(p, committed[p], to[p]) = Span(p, committed[p], to[p])
    BY DEF Promise!Span, Span
  <2> QED
    BY <1>1, <2>1, SpanElements DEF Promise!Batch
<1>4. txOut \subseteq Promise!Batch(to)
  BY <1>3 DEF Within
<1>5. Promise!Batch(to) \subseteq txOut \cup dropped
  BY <1>3 DEF Covers
<1>6. output \cap txOut = {}
  BY DEF IInv, NoOutputTwice, TakeEffect
<1>7. output' \ output = txOut
  BY <1>1, <1>6
<1>8. Promise!Batch(committed') = Promise!Batch(to)
  BY <1>1 DEF Promise!Batch
<1> QED
  BY <1>1, <1>2, <1>4, <1>5, <1>7, <1>8 DEF Promise!Advance

\* Every step is an Advance, a Drop or no step of the promise.
LEMMA StepKeepsPromise ==
    ASSUME RequireStableFetchOffset, IInv, IInv', [Next]_vars
    PROVE  [Promise!Next]_(Promise!vars)
<1>1. ASSUME UNCHANGED <<committed, output, repeated, dropped>>
      PROVE  UNCHANGED Promise!vars
  BY <1>1 DEF Promise!vars
<1>2. ASSUME NEW p \in Partitions, Produce(p) PROVE UNCHANGED Promise!vars
  BY <1>1, <1>2 DEF Produce, outVars
<1>3. CASE BrokerAborts \/ Start \/ Cancel \/ ProcessEnds
  BY <1>1, <1>3 DEF BrokerAborts, Start, Cancel, ProcessEnds, outVars
<1>4. CASE BrokerCommits
  <2>1. TakeEffect(txOffsets) /\ tx = "undecided" /\ UNCHANGED dropped
    BY <1>4 DEF BrokerCommits
  <2>2. txOffsets \in Offsets
    BY DEF IInv, TypeOK, Offsets
  <2> QED
    BY <2>1, <2>2, EffectAdvances DEF IInv, Undecided, Promise!Next
<1>5. CASE Poll \/ PollEmpty \/ Begin
  BY <1>1, <1>5 DEF Poll, PollEmpty, Begin, outVars
<1>6. CASE PollError
  <2>1. Promise!Drop
    BY <1>6 DEF PollError, Promise!Drop, outVars
  <2> QED
    BY <2>1 DEF Promise!Next
<1>7. ASSUME NEW p \in Partitions, NextRecord(p) PROVE UNCHANGED Promise!vars
  BY <1>1, <1>7 DEF NextRecord, outVars
<1>8. CASE HandleOk \/ HandleError \/ Abort \/ EndOfBatch
  BY <1>1, <1>8 DEF HandleOk, HandleError, Abort, EndOfBatch, outVars
<1>9. CASE CommitOk
  <2>1. TakeEffect(position) /\ pc = "commit" /\ tx = "open" /\ UNCHANGED dropped
    BY <1>9 DEF CommitOk
  <2> QED
    BY <2>1, CommitFacts, EffectAdvances DEF Promise!Next
<1>10. CASE CommitAborted \/ CommitError
  BY <1>1, <1>10 DEF CommitAborted, CommitError, outVars
<1>11. CASE UNCHANGED vars
  BY <1>1, <1>11 DEF vars, outVars
<1> QED
  BY <1>2, <1>3, <1>4, <1>5, <1>6, <1>7, <1>8, <1>9, <1>10, <1>11 DEF Next, Loop

\* Every step moves offsets and output together, once.
THEOREM TxImplementsExactlyOnce == RequireStableFetchOffset => (Spec => ImplementsExactlyOnce)
<1> SUFFICES ASSUME RequireStableFetchOffset PROVE Spec => ImplementsExactlyOnce
  OBVIOUS
<1>1. IInv /\ IInv' /\ [Next]_vars => [Promise!Next]_(Promise!vars)
  BY StepKeepsPromise
<1>2. Init => Promise!Init
  BY DEF Init, Promise!Init, Zero
<1> QED
  BY <1>1, <1>2, TxInvariant, PTL DEF Spec, Promise!Spec, ImplementsExactlyOnce
=============================================================================
