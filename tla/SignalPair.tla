----------------------------- MODULE SignalPair -----------------------------
(***************************************************************************)
(* A 1-1 (inside bar) setup: the scanner sends a CALL and a PUT for one    *)
(* ticker and day, both are dispatched and watched, and when the entry of  *)
(* one of them fills, the other is to be canceled.  The pair lives in the  *)
(* memory of the process (src/ap/signal_pair_manager.py); the queue        *)
(* registers its sides, the fill monitor reports the fill and cancels.     *)
(***************************************************************************)
CONSTANT None      \* no identity, no side

Side == {"CALL", "PUT"}

Other(s) == CHOOSE t \in Side : t # s

\* create_entry_order() makes an identity of its own for the row, so that the
\* signals and the orders of the two sides are four different identities.
SignalId(s) == <<"signal", s>>
OrderId(s) == <<"order", s>>

VARIABLES
    pair,     \* what the pair manager knows of the ticker and the day
    orders,   \* the ENTRY row of each side
    broker,   \* the order of each side at the broker
    pc,       \* how far the fill monitor is with the fill of a row
    job       \* its local variables: the filled side and the identity to cancel

vars == <<pair, orders, broker, pc, job>>

\* The statuses of a row that still may buy; "none" is a row not yet made.
Live == {"PENDING_TRIGGER", "SUBMITTED"}

Unknown == [sides |-> [s \in Side |-> None], filled |-> None]
NoJob == [filled |-> None, cancel |-> None]

Init ==
    /\ pair = Unknown
    /\ orders = [s \in Side |-> "none"]
    /\ broker = [s \in Side |-> "none"]
    /\ pc = "poll"
    /\ job = NoJob

-----------------------------------------------------------------------------
(* The queue and the watcher. *)

\* _dispatch() registers the side under the identity of its signal ...
Register(s) ==
    /\ orders[s] = "none" /\ pair.sides[s] = None
    /\ pair' = [pair EXCEPT !.sides[s] = SignalId(s)]
    /\ UNCHANGED <<orders, broker, pc, job>>

\* ... and creates and arms its order some stages later.  Registration never
\* keeps a signal from being dispatched.
Create(s) ==
    /\ orders[s] = "none" /\ pair.sides[s] # None
    /\ orders' = [orders EXCEPT ![s] = "PENDING_TRIGGER"]
    /\ UNCHANGED <<pair, broker, pc, job>>

\* The watcher reports the breach and the order is sent.
Breach(s) ==
    /\ orders[s] = "PENDING_TRIGGER"
    /\ orders' = [orders EXCEPT ![s] = "SUBMITTED"]
    /\ broker' = [broker EXCEPT ![s] = "working"]
    /\ UNCHANGED <<pair, pc, job>>

Execute(s) ==
    /\ broker[s] = "working"
    /\ broker' = [broker EXCEPT ![s] = "filled"]
    /\ UNCHANGED <<pair, orders, pc, job>>

-----------------------------------------------------------------------------
(* The fill monitor. *)

\* process_pending_order() writes the fill before it looks at the pair.
Poll(s) ==
    /\ pc = "poll"
    /\ orders[s] = "SUBMITTED" /\ broker[s] = "filled"
    /\ orders' = [orders EXCEPT ![s] = "FILLED"]
    /\ pc' = "pair"
    /\ job' = [filled |-> s, cancel |-> None]
    /\ UNCHANGED <<pair, broker>>

\* on_fill(): under the manager's lock, for the first fill of the pair only.
OnFill ==
    /\ pc = "pair"
    /\ \/ /\ pair.filled = None
          /\ pair # Unknown
          /\ pair' = [pair EXCEPT !.filled = job.filled]
          /\ job' = [job EXCEPT !.cancel = pair.sides[Other(job.filled)]]
       \/ /\ pair = Unknown \/ pair.filled # None
          /\ UNCHANGED <<pair, job>>
    /\ pc' = IF job'.cancel = None THEN "open" ELSE "lookup"
    /\ UNCHANGED <<orders, broker>>

\* The rows a local order id finds.
RowsOf(id) == {s \in Side : orders[s] # "none" /\ OrderId(s) = id}

\* Without a row, or without a broker identity in it, the cancel is skipped.
Lookup ==
    /\ pc = "lookup"
    /\ pc' = IF \E s \in RowsOf(job.cancel) : broker[s] # "none"
             THEN "cancel" ELSE "open"
    /\ UNCHANGED <<pair, orders, broker, job>>

\* The broker cancels the order if it still works; a cancel that raises leaves
\* the row alone.
CancelAtBroker ==
    /\ pc = "cancel"
    /\ \E s \in RowsOf(job.cancel) :
          \/ /\ broker' = [broker EXCEPT ![s] = IF @ = "working" THEN "canceled" ELSE @]
             /\ pc' = "row"
          \/ /\ UNCHANGED broker
             /\ pc' = "open"
    /\ UNCHANGED <<pair, orders, job>>

CancelRow ==
    /\ pc = "row"
    /\ \E s \in RowsOf(job.cancel) :
          orders' = [orders EXCEPT ![s] = IF @ \in Live THEN "CANCELED" ELSE @]
    /\ pc' = "open"
    /\ UNCHANGED <<pair, broker, job>>

\* The position of the fill is opened, and the next row is looked at.
OpenPosition ==
    /\ pc = "open"
    /\ pc' = "poll"
    /\ job' = NoJob
    /\ UNCHANGED <<pair, orders, broker>>

\* The process restarts: the pair is forgotten.
Restart ==
    /\ pair' = Unknown
    /\ pc' = "poll"
    /\ job' = NoJob
    /\ UNCHANGED <<orders, broker>>

Next ==
    \/ \E s \in Side :
          Register(s) \/ Create(s) \/ Breach(s) \/ Execute(s) \/ Poll(s)
    \/ OnFill \/ Lookup \/ CancelAtBroker \/ CancelRow \/ OpenPosition
    \/ Restart

Spec == Init /\ [][Next]_vars

-----------------------------------------------------------------------------
\* "When one side fills, the other is immediately invalidated": when the fill
\* monitor is done with a pair whose other side it was told to cancel, that
\* side's order neither waits for its trigger nor works at the broker.
OtherSideInvalidated ==
    [][(pc # "open" /\ pc' = "open" /\ job'.cancel # None)
          => orders'[Other(job'.filled)] \notin Live]_vars

=============================================================================
