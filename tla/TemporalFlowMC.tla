---------------------------- MODULE TemporalFlowMC ----------------------------
(***************************************************************************)
(* Flows of one partition with two records each: plain payloads and        *)
(* CloudEvents, with and without a transform, overrides that evaluate and  *)
(* some that do not, keys that are shared, templates that resolve to       *)
(* nothing, workflows to signal that are there or not, and bytes that are  *)
(* no JSON.                                                                *)
(***************************************************************************)
EXTENDS TemporalFlow

CONSTANT p1

Log == [p \in Partitions |-> 2]
NoFields == [n \in {} |-> <<>>]
Id == <<Path(<<"id">>)>>
OrderOfData == <<Literal("order-"), Path(<<"data", "orderId">>)>>

Order(o) == Object([orderId |-> String(o), amount |-> String("10")])
Nested(o) == Object([orderId |-> String(o), data |-> Object([amount |-> String("10")])])
CloudEvent(id, data) ==
    Object([specversion |-> String("1.0"), id |-> String(id), source |-> String("shop"),
            type |-> String("order"), data |-> data])

ByOrder == [id |-> Path(<<"data", "orderId">>)]

Plain ==
    [fields |-> NoFields, overrides |-> ByOrder, workflowId |-> Id, params |-> <<>>, mode |-> "start",
     events |-> (p1 :> <<Order("o1"), Order("o2")>>), open |-> <<>>]
Events(a, b) == p1 :> <<a, b>>

SomeFlows ==
    {Plain,
     [Plain EXCEPT !.events = Events(Order("o1"), Order("o1"))],
     \* the transform drops the field the override needs, and needs one the second
     \* event lacks
     [Plain EXCEPT !.fields = [amount |-> <<"data", "amount">>], !.events = Events(Nested("o1"), Order("o2"))],
     \* CloudEvents: merged, one of them with data that is no object
     [Plain EXCEPT !.events = Events(CloudEvent("e1", Order("o1")), CloudEvent("o1", String("x")))],
     \* a CloudEvent a transform turns into something else, wrapped again
     [Plain EXCEPT !.fields = [amount |-> <<"data", "amount">>],
                   !.events = Events(CloudEvent("e1", Order("o1")), Garbage)],
     \* overrides that never evaluate: the id of a CloudEvent stays, a wrapped one has none
     [Plain EXCEPT !.overrides = [id |-> Path(<<"id">>), type |-> Literal("created")],
                   !.events = Events(CloudEvent("e1", Order("o1")), Order("o2"))],
     \* data that is replaced, and a template that finds nothing in it
     [Plain EXCEPT !.overrides = [data |-> Path(<<"data", "amount">>)], !.workflowId = OrderOfData,
                   !.events = Events(Garbage, Order("o2"))],
     \* data that is replaced by the empty text, and data that stays
     [Plain EXCEPT !.overrides = [data |-> Path(<<"data", "amount">>)],
                   !.events = Events(CloudEvent("e1", Object([amount |-> String("")])), CloudEvent("e2", Null))],
     \* parameters, of which the second event lacks one
     [Plain EXCEPT !.workflowId = OrderOfData, !.params = <<<<"data", "data", "amount">>>>,
                   !.events = Events(Order("o1"), Object([orderId |-> String("o1")]))],
     \* no template, and an event that cannot be wrapped
     [Plain EXCEPT !.workflowId = <<>>, !.events = Events(Order("o1"), Garbage)],
     \* signals
     [Plain EXCEPT !.workflowId = OrderOfData, !.mode = "signal", !.open = <<<<"order-", "o1">>>>,
                   !.events = Events(Order("o1"), Order("o1"))],
     [Plain EXCEPT !.workflowId = OrderOfData, !.mode = "signal", !.open = <<<<"order-", "o1">>>>,
                   !.events = Events(Order("o2"), Order("o1"))]}
=============================================================================
