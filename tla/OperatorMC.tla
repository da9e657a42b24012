------------------------------ MODULE OperatorMC ------------------------------
(***************************************************************************)
(* One resource of each kind, with specs that are valid, that are not, and *)
(* that do not decode, two replicas, and pods that ask for a sidecar or do *)
(* not, have one already, and have no containers or annotations.           *)
(***************************************************************************)
EXTENDS Operator

CONSTANTS r1, r2

Names == {"orders", "crm"}
Kind == [n \in Names |-> IF n = "orders" THEN "FlowDefinition" ELSE "LinkTarget"]

Flow(source) == [source |-> source, sink |-> "http", decodes |-> TRUE]
\* The CRD lets a config have values of any kind, the Go type only texts.
Odd == [Flow("kafka") EXCEPT !.decodes = FALSE]
Link(host) == [host |-> host, protocol |-> "https", decodes |-> TRUE]

\* The CRD's enumerations leave an empty host to the operator.
SomeSpecs ==
    [FlowDefinition |-> {Flow("kafka"), Odd},
     LinkTarget |-> {Link("crm.test"), Link("")}]

For(orders, crm) == [n \in Names |-> IF n = "orders" THEN orders ELSE crm]

Pod == [annotations |-> {[inject |-> "true"]}, containers |-> <<"app">>, decodes |-> TRUE]
Pods ==
    {Pod, [Pod EXCEPT !.containers = <<>>], [Pod EXCEPT !.annotations = {}],
     [Pod EXCEPT !.annotations = {[inject |-> "true", status |-> "injected"]}, !.containers = <<"app", "fiso-link">>],
     [Pod EXCEPT !.annotations = {[inject |-> "false"]}], [Pod EXCEPT !.decodes = FALSE]}

SomeInputs ==
    {[stored |-> For({}, {Link("crm.test")}), edits |-> For(0, 2), crashes |-> 0, pods |-> {}],
     [stored |-> For({}, {Link("")}), edits |-> For(0, 1), crashes |-> 1, pods |-> {}],
     [stored |-> For({Odd}, {Link("")}), edits |-> For(1, 0), crashes |-> 0, pods |-> {}]}
        \cup {[stored |-> For({}, {}), edits |-> For(0, 0), crashes |-> 0, pods |-> {p}] : p \in Pods}
=============================================================================
