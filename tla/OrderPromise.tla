---------------------------- MODULE OrderPromise ----------------------------
(***************************************************************************)
(* What the order state machine (src/ap/order_state_machine.py) promises   *)
(* to its callers about an order, with no workers and no statements: each  *)
(* step here is what a caller may see happen to an order at once.  The     *)
(* order is sent at most once; it gets its broker identity after that and  *)
(* for good; a status that says the broker has it comes with the identity; *)
(* it moves along the table, and when it has ended it never changes again. *)
(* OrderLifecycle implements it.                                           *)
(***************************************************************************)
EXTENDS OrderStateMachine

CONSTANT Orders

VARIABLE view   \* what is to be seen of each order, in its row and at the broker

AtBroker == Status \ (PreTrade \cup Failures \cup {"EXIT_REQUESTED"})

Fresh(status) ==
    [status |-> status, broker |-> NoBroker, sent |-> 0, executed |-> 0, filled |-> 0]

Init == view \in [Orders -> {Fresh("CREATED"), Fresh("EXIT_REQUESTED")}]

Becomes(o, seen) == view' = [view EXCEPT ![o] = seen]

Send(o) ==
    /\ view[o].sent = 0
    /\ Becomes(o, [view[o] EXCEPT !.sent = 1])

Execute(o) ==
    /\ view[o].sent > 0 /\ view[o].executed < Qty
    /\ Becomes(o, [view[o] EXCEPT !.executed = @ + 1])

\* A row that stays partly filled may lose contracts to a slower report; one that
\* changes its status may not.
Move(o) ==
    LET old == view[o] IN
    /\ old.status \notin Terminal
    /\ \E s \in Status, b \in BrokerIds \cup {NoBroker}, f \in 0 .. Qty :
          /\ s = old.status \/ s \in Transitions[old.status]
          /\ old.broker # NoBroker => b = old.broker
          /\ b # NoBroker => old.sent > 0
          /\ s \in AtBroker => b # NoBroker
          /\ f =< old.executed
          /\ s # old.status => f >= old.filled
          /\ Becomes(o, [old EXCEPT !.status = s, !.broker = b, !.filled = f])

Next == \E o \in Orders : Send(o) \/ Execute(o) \/ Move(o)

Spec == Init /\ [][Next]_view

=============================================================================
