------------------------------ MODULE TemporalFlow ------------------------------
(***************************************************************************)
(* A Kafka flow whose sink is Temporal: KafkaFlow's steps, with what the   *)
(* pipeline makes of a record's payload on the way (transform, CloudEvent  *)
(* wrapping or merging, internal/pipeline and internal/transform/unified), *)
(* the workflow id and the arguments the sink takes from the CloudEvent,   *)
(* and the call to the Temporal server (internal/sink/temporal Deliver).   *)
(* The sink has no retry loop.                                             *)
(*                                                                         *)
(* The server is modelled from how the sink calls it: a start under the id *)
(* of an open workflow returns that workflow without an error, a start     *)
(* without an id gets a new one, a signal needs an open workflow, and a    *)
(* call that fails, or has no answer in ten seconds, may have been served. *)
(*                                                                         *)
(* JSON values are records with their kind.  A CEL expression is the path  *)
(* it selects, or does not compile and is a text.  A workflow id is the    *)
(* sequence of the texts its template is made of, without the empty ones.  *)
(***************************************************************************)
EXTENDS KafkaFlow, SequencesExt

CONSTANTS
    Flows,      \* flow definitions, with the events of their topic and the
                \* workflows that are open when the flow starts
    MaxRuns,    \* workflow runs the server makes (model bound)
    MaxSignals  \* signals a workflow gets (model bound)

\* An id names at most one open workflow of the server.
ASSUME TemporalFlowAssumption ==
    /\ MaxRuns \in Nat
    /\ MaxSignals \in Nat
    /\ \A f \in Flows :
          /\ f.mode \in {"start", "signal"}
          /\ f.open \in Seq(Seq(STRING))
          /\ \A i, j \in DOMAIN f.open : f.open[i] = f.open[j] => i = j

VARIABLES
    flow,   \* the definition
    runs    \* the server's workflow runs: [id, event, args, open, heard]

temporalVars == <<flow, runs>>

-----------------------------------------------------------------------------
(* JSON and expressions.                                                   *)

Object(fields) == [kind |-> "object", fields |-> fields]
String(s) == [kind |-> "text", text |-> s]
Null == [kind |-> "null"]
Garbage == [kind |-> "garbage"]     \* bytes that are no JSON

IsObject(v) == v.kind = "object"

\* What is at a path below v: the empty set when a key is missing.
Lookup(v, path) ==
    LET Field(found, name) ==
          {w.fields[name] : w \in {u \in found : IsObject(u) /\ name \in DOMAIN u.fields}}
        At[n \in 0..Len(path)] == IF n = 0 THEN {v} ELSE Field(At[n - 1], path[n])
    IN  At[Len(path)]

\* fmt's %v, told apart as far as it is empty or not.
Rendered(v) == IF v.kind = "text" THEN v.text ELSE v.kind

Path(path) == [compiles |-> TRUE, path |-> path, text |-> ""]
Literal(s) == [compiles |-> FALSE, path |-> <<>>, text |-> s]

\* Only data is bound (and time): another variable compiles and never evaluates.
EvaluateCELValue(e, input) ==
    IF e.compiles THEN Lookup(Object([data |-> input]), e.path) ELSE {String(e.text)}

\* The empty text when the evaluation fails.
EvaluateCELExpression(e, input) ==
    LET found == EvaluateCELValue(e, input)
    IN  IF found = {} THEN "" ELSE Rendered(CHOOSE v \in found : TRUE)

-----------------------------------------------------------------------------
(* The pipeline: transform, then wrap or merge.                            *)

Variables == {"data", "time", "source", "type", "id", "subject"}

\* The fields' expressions see the input's own fields; a variable it lacks is null.
Transformed(fields, input) ==
    LET Activation == Object([v \in DOMAIN input.fields \cup Variables |->
                                 IF v \in DOMAIN input.fields THEN input.fields[v] ELSE Null])
        Values == [n \in DOMAIN fields |-> Lookup(Activation, fields[n])]
    IN  IF DOMAIN fields = {} THEN {input}
        ELSE IF IsObject(input) /\ \A n \in DOMAIN fields : Values[n] # {}
        THEN {Object([n \in DOMAIN fields |-> CHOOSE v \in Values[n] : TRUE])}
        ELSE {}

IsCloudEvent(v) ==
    /\ IsObject(v)
    /\ \A name \in {"specversion", "type", "source"} :
         \E w \in Lookup(v, <<name>>) : w.kind = "text" /\ w.text # ""

\* The data of an override; null when it does not evaluate.
DataOverride(e, input) ==
    LET found == EvaluateCELValue(e, input) IN IF found = {} THEN Null ELSE CHOOSE v \in found : TRUE

\* wrapCloudEvent.  An override is resolved against seen and takes the default's
\* place even when it does not evaluate; without one there is no id.  Subject,
\* content type and schema are left out.
Wrapped(overrides, payload, seen) ==
    LET Attribute(name, default) ==
          IF name \in DOMAIN overrides THEN EvaluateCELExpression(overrides[name], seen) ELSE default
    IN  Object([specversion |-> String("1.0"),
                id |-> String(Attribute("id", "")),
                source |-> String(Attribute("source", "fiso-flow")),
                type |-> String(Attribute("type", "fiso.event")),
                data |-> IF "data" \in DOMAIN overrides THEN DataOverride(overrides["data"], seen) ELSE payload])

\* Mutant: the overrides see the transformed payload.
WrapCloudEvent_Transformed(overrides, payload, input) ==
    Wrapped(overrides, payload, IF IsObject(payload) THEN payload ELSE Null)

\* The overrides see the input, not the transformed payload.
WrapCloudEvent(overrides, payload, input) ==
    Wrapped(overrides, payload, IF IsObject(input) THEN input ELSE Null)

\* passOrMergeCloudEvent.  The overrides see the CloudEvent's data when it is an
\* object.  One that does not evaluate leaves the CloudEvent's own value, and so
\* does one that evaluates to the empty text, except for the data.
PassOrMergeCloudEvent(overrides, ce, input) ==
    LET Data == {d \in Lookup(ce, <<"data">>) : IsObject(d)}
        seen == IF Data # {} THEN CHOOSE d \in Data : TRUE ELSE IF IsObject(input) THEN input ELSE Null
        New(name) == IF name = "data" THEN DataOverride(overrides[name], seen)
                     ELSE String(EvaluateCELExpression(overrides[name], seen))
        Unset(name) == IF name = "data" THEN Null ELSE String("")
        Given == {name \in DOMAIN overrides : New(name) # Unset(name)}
    IN  Object([name \in DOMAIN ce.fields \cup Given |-> IF name \in Given THEN New(name) ELSE ce.fields[name]])

\* What reaches the sink, or nothing: data that is no JSON cannot be wrapped.
Prepared(input) ==
    {ce \in {IF IsCloudEvent(p) THEN PassOrMergeCloudEvent(flow.overrides, p, input)
             ELSE WrapCloudEvent(flow.overrides, p, input) : p \in Transformed(flow.fields, input)} :
       Garbage \notin Lookup(ce, <<"data">>)}

-----------------------------------------------------------------------------
(* The sink: workflow id and arguments.                                    *)

\* resolveNestedField.
ResolveNestedField(ce, path) ==
    LET found == Lookup(ce, path) \ {Null} IN IF found = {} THEN "" ELSE Rendered(CHOOSE v \in found : TRUE)

\* resolveWorkflowID.  Without a template the id is the time, as good as none.
ResolveWorkflowID(ce) ==
    LET Texts == [i \in DOMAIN flow.workflowId |->
                    LET piece == flow.workflowId[i]
                    IN  IF piece.compiles THEN ResolveNestedField(ce, piece.path) ELSE piece.text]
        Id[n \in 0..Len(flow.workflowId)] ==
            IF n = 0 THEN <<>>
            ELSE IF Texts[n] = "" THEN Id[n - 1] ELSE Append(Id[n - 1], Texts[n])
    IN  Id[Len(flow.workflowId)]

\* The arguments: the whole CloudEvent, or the parameters, which see it as data.
Arguments(ce) ==
    LET Values == [i \in DOMAIN flow.params |-> Lookup(Object([data |-> ce]), flow.params[i])]
    IN  IF flow.params = <<>> THEN {<<ce>>}
        ELSE IF \E i \in DOMAIN Values : Values[i] = {} THEN {}
        ELSE {[i \in DOMAIN Values |-> CHOOSE v \in Values[i] : TRUE]}

-----------------------------------------------------------------------------
(* The Temporal server.                                                    *)

OpenRuns(id) == {i \in DOMAIN runs : runs[i].open /\ id # <<>> /\ runs[i].id = id}

ExecuteWorkflow(id, args) ==
    \/ OpenRuns(id) # {} /\ UNCHANGED runs
    \/ /\ OpenRuns(id) = {}
       /\ Len(runs) < MaxRuns
       /\ runs' = Append(runs, [id |-> id, event |-> InHand, args |-> args, open |-> TRUE, heard |-> <<>>])

SignalWorkflow(id) ==
    \E i \in OpenRuns(id) :
        /\ Len(runs[i].heard) < MaxSignals
        /\ runs' = [runs EXCEPT ![i].heard = Append(@, InHand)]

Input(r) == flow.events[r[1]][r[2] + 1]

\* The server serves the sink's call for the record in hand.
Served ==
    \E ce \in Prepared(Input(InHand)) : \E args \in Arguments(ce) :
        IF flow.mode = "start" THEN ExecuteWorkflow(ResolveWorkflowID(ce), args)
        ELSE SignalWorkflow(ResolveWorkflowID(ce))

\* A workflow ends.
WorkflowEnds(i) ==
    /\ runs[i].open
    /\ runs' = [runs EXCEPT ![i].open = FALSE]
    /\ UNCHANGED <<vars, flow>>

-----------------------------------------------------------------------------
(* The flow.                                                               *)

TemporalInit ==
    /\ Init
    /\ flow \in Flows
    /\ runs = [i \in DOMAIN flow.open |->
                 [id |-> flow.open[i], event |-> <<>>, args |-> <<>>, open |-> TRUE, heard |-> <<>>]]

Prepare ==
    /\ Transform
    /\ pc' = "deliver" => Prepared(Input(InHand)) # {}
    /\ UNCHANGED temporalVars

Deliver ==
    /\ DeliverOk
    /\ Served
    /\ UNCHANGED flow

\* Mutant: the error of a signal is not returned.
DeliverFails_SignalLost ==
    /\ IF flow.mode = "signal" THEN DeliverOk ELSE DeliverError /\ pc' # "backoff"
    /\ Served \/ UNCHANGED runs
    /\ UNCHANGED flow

\* An error is returned, and the call was served or not.
DeliverFails ==
    /\ DeliverError /\ pc' # "backoff"
    /\ Served \/ UNCHANGED runs
    /\ UNCHANGED flow

TemporalNext ==
    \/ /\ \/ \E p \in Partitions : Produce(p)
          \/ Start \/ Cancel \/ Exit \/ Crash \/ Loop \/ SendToDLQ
       /\ UNCHANGED temporalVars
    \/ Prepare \/ Deliver \/ DeliverFails
    \/ \E i \in DOMAIN runs : WorkflowEnds(i)

TemporalSpec == TemporalInit /\ [][TemporalNext]_<<vars, temporalVars>>

-----------------------------------------------------------------------------
(* Correctness.                                                            *)

\* The business data of an event, as the documentation's expressions see it: the
\* data of a CloudEvent, else the event itself.
Business(input) ==
    LET Data == {d \in Lookup(input, <<"data">>) : IsCloudEvent(input) /\ IsObject(d)}
    IN  IF Data = {} THEN {v \in {input} : IsObject(v)} ELSE Data

\* The key of an event in a flow that names its workflows by the CloudEvent's id:
\* the text the id override selects in the business data, else the CloudEvent's id.
\* There is none when it is empty or no text, when the override is one text for
\* every event, or when a transform makes or takes a CloudEvent.
Key(r) ==
    LET input == Input(r)
        Overridden == "id" \in DOMAIN flow.overrides
        Selected == IF Overridden
                    THEN UNION {EvaluateCELValue(flow.overrides["id"], b) : b \in Business(input)}
                    ELSE {}
        Own == {v \in Lookup(input, <<"id">>) : IsCloudEvent(input)}
        Found == IF Selected # {} THEN {CHOOSE v \in Selected : TRUE} ELSE Own
    IN  {v.text : v \in {w \in Found :
           /\ w.kind = "text" /\ w.text # ""
           /\ flow.workflowId = <<Path(<<"id">>)>>
           /\ Overridden => flow.overrides["id"].compiles
           /\ DOMAIN flow.fields # {} =>
                \A e \in {input} \cup Transformed(flow.fields, input) : ~IsCloudEvent(e)}}

\* Redelivered after a crash, a lost answer or a failed commit, an event that has
\* a key is not worked on by two workflows at a time, and neither are two events
\* of one key; two events of different keys never share one (wrapCloudEvent,
\* passOrMergeCloudEvent, resolveWorkflowID).
OneOpenRunPerKey ==
    \A i, j \in DOMAIN runs : i # j /\ runs[i].event # <<>> /\ runs[j].event # <<>> =>
        LET a == Key(runs[i].event)
            b == Key(runs[j].event)
        IN  a # {} /\ b # {} => /\ a = b => ~(runs[i].open /\ runs[j].open)
                                /\ a # b => runs[i].id # runs[j].id

\* The server has what became of record r: a run that was started for it or for
\* another event under the same id, or a workflow that heard it.
Reached(r) ==
    \E ce \in Prepared(Input(r)), i \in DOMAIN runs :
        IF flow.mode = "signal" THEN r \in ToSet(runs[i].heard)
        ELSE \/ runs[i].event = r /\ runs[i].args \in Arguments(ce)
             \/ ResolveWorkflowID(ce) # <<>> /\ runs[i].id = ResolveWorkflowID(ce)

\* Below the committed offset, every record reached the server or the dead
\* letter topic, or is one the loop is known to abandon: no lost answer, failed
\* publish, failed commit or crash commits a record nobody has.
CommittedReached ==
    \A p \in Partitions : committed[p] # NoOffset =>
        \A o \in origin[p]..(committed[p] - 1) :
            Reached(<<p, o>>) \/ <<p, o>> \in dlqd \cup lost

\* A workflow first hears of a record after it has heard of every earlier record
\* of the partition that is addressed to it, unless that one went to the dead
\* letters or is one the loop is known to abandon.
SignalsInOrder ==
    \A i \in DOMAIN runs : \A n \in DOMAIN runs[i].heard :
        LET r == runs[i].heard[n]
        IN  \A o \in origin[r[1]]..(r[2] - 1) :
              \/ \E m \in 1..(n - 1) : runs[i].heard[m] = <<r[1], o>>
              \/ <<r[1], o>> \in dlqd \cup lost
              \/ \A ce \in Prepared(Input(<<r[1], o>>)) : ResolveWorkflowID(ce) # runs[i].id
=============================================================================
