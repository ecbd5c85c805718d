---------------------------- MODULE MCExitFill ----------------------------
(***************************************************************************)
(* Small instances of ExitFill for TLC: what each of the orders asks for.  *)
(***************************************************************************)
EXTENDS ExitFill, TLC

CONSTANTS x1, x2

AskAll == [o \in ExitOrders |-> PositionQty]
ScaleOut == [o \in ExitOrders |-> PositionQty - 1]

\* Orders that ask for the same are interchangeable: the order of a thread or
\* a submission that is idle, which is chosen, is never looked at.
Interchangeable == Permutations(ExitOrders)

=============================================================================
