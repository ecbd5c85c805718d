--------------------------- MODULE FillAccounting ---------------------------
(***************************************************************************)
(* What becomes of the contracts of one position, as its owner may count   *)
(* on it: no threads, no hooks, no copies in memory.  A contract that an   *)
(* EXIT order sells is executed by the broker, then durable in the orders  *)
(* row, then applied to the position, in this order and never back.  No    *)
(* order is sent before the row of the one before it is over, a row that   *)
(* is over is not written any more, and the position is closed, for good,  *)
(* by the application of its last contract.                                *)
(* ExitFill implements it.                                                 *)
(***************************************************************************)
EXTENDS Integers

CONSTANTS ExitOrders, PositionQty, Asked

VARIABLES
    held,      \* contracts the broker's account holds
    account,   \* the contracts of each order, by how far they have come
    closed     \* the position is closed

Unsent ==
    [sent |-> FALSE, executed |-> 0, durable |-> 0, applied |-> 0,
     over |-> FALSE]

Init ==
    /\ held = PositionQty
    /\ account = [o \in ExitOrders |-> Unsent]
    /\ closed = FALSE

Send(o) ==
    /\ ~account[o].sent
    /\ \A p \in ExitOrders : account[p].sent => account[p].over
    /\ account' = [account EXCEPT ![o].sent = TRUE]
    /\ UNCHANGED <<held, closed>>

Execute(o) ==
    /\ account[o].sent
    /\ account[o].executed < Asked[o]
    /\ held > 0
    /\ held' = held - 1
    /\ account' = [account EXCEPT ![o].executed = @ + 1]
    /\ UNCHANGED closed

\* A report of the order's fill, of its end, or of both.
Report(o) ==
    /\ account[o].sent /\ ~account[o].over
    /\ \E n \in account[o].durable .. account[o].executed, end \in BOOLEAN :
          account' = [account EXCEPT ![o].durable = n, ![o].over = end]
    /\ UNCHANGED <<held, closed>>

Apply(o) ==
    /\ ~closed
    /\ account[o].applied < account[o].durable
    /\ account' = [account EXCEPT ![o].applied = account[o].durable]
    /\ closed' = (account[o].durable = PositionQty)
    /\ UNCHANGED held

Next ==
    \E o \in ExitOrders : Send(o) \/ Execute(o) \/ Report(o) \/ Apply(o)

Spec == Init /\ [][Next]_<<held, account, closed>>

=============================================================================
