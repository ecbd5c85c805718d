------------------------------ MODULE ExitFill ------------------------------
(***************************************************************************)
(* How the contracts an EXIT order sells reach the position: the broker,   *)
(* the fill monitor, the reconciler, the exit engine's in-memory position  *)
(* and the exit engine's broker precheck, for one position of one client.  *)
(*                                                                         *)
(* A fill travels in steps of their own, each a transaction or a section   *)
(* under the engine's lock, with the other threads in between:             *)
(*   commit     transition() makes the fill durable in the orders row      *)
(*   converge   converge_position_from_durable_exit_order() moves the part *)
(*              not yet applied to the position, and with it the           *)
(*              watermark of the order                                     *)
(*   note       the exit engine's copy of the position is lowered          *)
(*   persist    ... and written back to the position after a scale-out     *)
(* An order is sent in steps of its own as well: decided under the lock,   *)
(* sent by a callback outside it, and only then marked in the engine, which*)
(* forgets what it has counted.  Meanwhile the precheck copies what the    *)
(* broker holds over both copies.                                          *)
(*                                                                         *)
(* transition() is one step here; what can happen between its statements   *)
(* is the subject of OrderLifecycle.                                       *)
(***************************************************************************)
EXTENDS Integers

CONSTANTS
    ExitOrders,       \* EXIT orders that may be sent for the position
    NoOrder,          \* an empty order id
    PositionQty,      \* contracts of the position (positions.qty)
    Asked,            \* contracts each order asks to sell
    PositionSource    \* the broker object can list positions

ASSUME ExitOrdersAssumption == ExitOrders # {} /\ NoOrder \notin ExitOrders
ASSUME PositionQtyAssumption == PositionQty \in Nat \ {0}
ASSUME AskedAssumption == Asked \in [ExitOrders -> 1..PositionQty]
ASSUME PositionSourceAssumption == PositionSource \in BOOLEAN

\* The broker's identity of an order is the order itself.
INSTANCE OrderStateMachine
    WITH BrokerIds <- ExitOrders, NoBroker <- NoOrder, Qty <- PositionQty

VARIABLES
    holdings,   \* contracts the broker's account holds
    broker,     \* each order at the broker: contracts executed, and state
    rows,       \* the orders table
    mark,       \* each row's watermark, applied_cumulative_qty (0: absent)
    position,   \* the positions row
    engine,     \* the exit engine's ManagedPosition
    submit,     \* its call of _submit_exit_decision(); one at a time
    pc, job,    \* the fill monitor and the reconciler
    sight       \* the precheck of the exit engine's cycle

vars == <<holdings, broker, rows, mark, position, engine, submit, pc, job,
          sight>>

Threads == {"monitor", "reconciler"}
Quantity == 0..PositionQty

\* What remains to be done after transition(): nothing, the reconciler's
\* second transition(), the terminal status, or reopening the position.
Job == [order : ExitOrders, req : Request,
        then : {"nothing", "filled", "end", "reopen"},
        result : {"none", "partial", "full"}, count : Quantity]

NoJob == [order |-> CHOOSE o \in ExitOrders : TRUE,
          req |-> MoveTo("EXIT_REQUESTED"), then |-> "nothing",
          result |-> "none", count |-> 0]

NoSight == [pc |-> "idle", qty |-> 0]

AtBroker == [executed : Quantity, state : {"unsent", "working", "ended"}]

Position == [status : {"OPEN", "PARTIAL", "CLOSING", "CLOSED"},
             remaining : Quantity, owner : ExitOrders \cup {NoOrder}]

ManagedPosition ==
    [remaining : Quantity, closed : BOOLEAN,
     inFlight : BOOLEAN, pending : ExitOrders \cup {NoOrder},
     qty : Quantity, filled : Nat, scale : BOOLEAN,
     noted : [ExitOrders -> Quantity], generation : Nat]

\* How far the call is, for which order and whether to scale out, and the
\* generation it found when it began.
Submission ==
    [pc : {"idle", "decided", "posted", "submitted", "told", "returned"},
     order : ExitOrders, scale : BOOLEAN, generation : Nat]

NoSubmission == [pc |-> "idle", order |-> CHOOSE o \in ExitOrders : TRUE,
                 scale |-> FALSE, generation |-> 0]

Statements == {"idle", "commit", "converge", "note", "persist", "again",
               "clear", "reopen"}

TypeOK ==
    /\ holdings \in Quantity
    /\ broker \in [ExitOrders -> AtBroker]
    /\ rows \in [ExitOrders -> Row]
    /\ mark \in [ExitOrders -> Quantity]
    /\ position \in Position
    /\ engine \in ManagedPosition
    /\ submit \in Submission
    /\ pc \in [Threads -> Statements]
    /\ job \in [Threads -> Job]
    /\ sight \in [pc : {"idle", "observed", "synced"}, qty : Quantity]

Init ==
    /\ holdings = PositionQty
    /\ broker = [o \in ExitOrders |-> [executed |-> 0, state |-> "unsent"]]
    /\ rows = [o \in ExitOrders |-> NewRow("EXIT")]
    /\ mark = [o \in ExitOrders |-> 0]
    /\ position = [status |-> "OPEN", remaining |-> PositionQty,
                   owner |-> NoOrder]
    /\ engine = [remaining |-> PositionQty, closed |-> FALSE,
                 inFlight |-> FALSE, pending |-> NoOrder, qty |-> 0,
                 filled |-> 0, scale |-> FALSE,
                 noted |-> [o \in ExitOrders |-> 0], generation |-> 0]
    /\ submit = NoSubmission
    /\ pc = [t \in Threads |-> "idle"]
    /\ job = [t \in Threads |-> NoJob]
    /\ sight = NoSight

Working == ExitActive \ {"EXIT_REQUESTED"}

-----------------------------------------------------------------------------
(* The exit engine sends an order: _submit_exit_decision() in its guard,   *)
(* which lets one call at a time through and refuses it while an EXIT row  *)
(* of the position is active.                                              *)

NoExitActive == \A p \in ExitOrders : rows[p].status \notin Working

\* The order's EXIT_REQUESTED row is created and the engine's position
\* points to it, which a scale-out needs and which is left out when the
\* database fails on a PAPER account; then _can_submit_exit(), and the
\* snapshot.  A call that sends nothing may keep the reservation.
Decide(o) ==
    /\ submit.pc = "idle" \/ (submit.pc = "decided" /\ submit.order = o)
    /\ broker[o].state = "unsent"
    /\ ~engine.closed /\ ~engine.inFlight
    /\ engine.pending \in {NoOrder, o}
    /\ Asked[o] =< engine.remaining
    /\ NoExitActive
    /\ \E reserved \in {o, engine.pending} :
          /\ Asked[o] < engine.remaining => reserved = o
          /\ engine' = [engine EXCEPT !.pending = reserved]
    /\ submit' = [pc |-> "decided", order |-> o,
                  scale |-> Asked[o] < engine.remaining,
                  generation |-> engine.generation]
    /\ UNCHANGED <<holdings, broker, rows, mark, position, pc, job, sight>>

\* The engine's position e waits for no order.
Released(e) ==
    [e EXCEPT !.inFlight = FALSE, !.pending = NoOrder, !.qty = 0,
              !.filled = 0, !.scale = FALSE]

\* The broker or a check refuses: the reservation is retired.
GiveUp ==
    /\ submit.pc = "decided"
    /\ submit' = NoSubmission
    /\ engine' = IF /\ ~engine.closed
                    /\ engine.pending \in {NoOrder, submit.order}
                 THEN Released(engine) ELSE engine
    /\ UNCHANGED <<holdings, broker, rows, mark, position, pc, job, sight>>

\* The callback, outside the lock.  on_exit() compares the quantity with
\* what the position has left by now; the broker must hold enough.
Post ==
    /\ submit.pc = "decided"
    /\ ~submit.scale => /\ Asked[submit.order] = engine.remaining
                        /\ engine.pending \in {NoOrder, submit.order}
    /\ Asked[submit.order] =< holdings
    /\ broker' = [broker EXCEPT ![submit.order].state = "working"]
    /\ submit' = [submit EXCEPT !.pc = "posted"]
    /\ UNCHANGED <<holdings, rows, mark, position, engine, pc, job, sight>>

\* submit_exit() after the answer: transition() to EXIT_SUBMITTED.
Submitted ==
    /\ submit.pc = "posted"
    /\ rows' = [rows EXCEPT ![submit.order].status = "EXIT_SUBMITTED",
                            ![submit.order].broker = submit.order,
                            ![submit.order].submitted = TRUE,
                            ![submit.order].intent = TRUE]
    /\ submit' = [submit EXCEPT !.pc = "submitted"]
    /\ UNCHANGED <<holdings, broker, mark, position, engine, pc, job, sight>>

Flown(o) == [engine EXCEPT !.inFlight = TRUE, !.pending = o]

\* Its hook, set_pending_exit_order(): without a registered engine, or when
\* it fails, the engine is not told.
Tell ==
    /\ submit.pc = "submitted"
    /\ submit' = [submit EXCEPT !.pc = "told"]
    /\ \/ /\ ~engine.closed /\ engine.remaining > 0
          /\ engine' = [Flown(submit.order) EXCEPT !.qty = Asked[submit.order]]
       \/ UNCHANGED engine
    /\ UNCHANGED <<holdings, broker, rows, mark, position, pc, job, sight>>

\* _mark_exit_submitted(): a new order generation.  Only on_scale() tells
\* the engine which order it sent.
Marked ==
    [engine EXCEPT !.inFlight = TRUE,
                   !.pending = IF submit.scale THEN submit.order ELSE @,
                   !.qty = Asked[submit.order], !.filled = 0,
                   !.scale = submit.scale,
                   !.noted = [p \in ExitOrders |-> 0],
                   !.generation = @ + 1]

\* Back under the lock: nothing is marked if the position was closed, the
\* generation moved or an order is in flight.
MarkSubmitted ==
    /\ submit.pc = "told"
    /\ submit' = [submit EXCEPT !.pc = "returned"]
    /\ engine' = IF /\ ~engine.closed /\ engine.remaining > 0
                    /\ engine.generation = submit.generation
                    /\ ~engine.inFlight
                 THEN Marked ELSE engine
    /\ UNCHANGED <<holdings, broker, rows, mark, position, pc, job, sight>>

\* The guard may then write the active row it has read into the position it
\* began with, _mark_active_exit_owned(), although the order may be over.
Own ==
    /\ submit.pc = "returned"
    /\ submit' = NoSubmission
    /\ \/ ~engine.closed /\ engine' = Flown(submit.order)
       \/ UNCHANGED engine
    /\ UNCHANGED <<holdings, broker, rows, mark, position, pc, job, sight>>

-----------------------------------------------------------------------------
(* The broker executes an order or ends it. *)

Execute(o) ==
    /\ broker[o].state = "working"
    /\ broker[o].executed < Asked[o]
    /\ holdings > 0
    /\ holdings' = holdings - 1
    /\ broker' = [broker EXCEPT ![o].executed = @ + 1]
    /\ UNCHANGED <<rows, mark, position, engine, submit, pc, job, sight>>

\* Canceled, rejected or expired with the rest of it unexecuted.
EndAtBroker(o) ==
    /\ broker[o].state = "working"
    /\ broker[o].executed < Asked[o]
    /\ broker' = [broker EXCEPT ![o].state = "ended"]
    /\ UNCHANGED <<holdings, rows, mark, position, engine, submit, pc, job,
                   sight>>

FilledAtBroker(o) == broker[o].executed = Asked[o]
PartialAtBroker(o) ==
    /\ broker[o].state = "working"
    /\ broker[o].executed \in 1 .. Asked[o] - 1
EndedAtBroker(o) == broker[o].state = "ended"

-----------------------------------------------------------------------------
(* Threads. *)

Begin(t, o, req, then) ==
    /\ pc[t] = "idle"
    /\ pc' = [pc EXCEPT ![t] = "commit"]
    /\ job' = [job EXCEPT ![t] = [order |-> o, req |-> req, then |-> then,
                                  result |-> "none", count |-> 0]]
    /\ UNCHANGED <<holdings, broker, rows, mark, position, engine, submit,
                   sight>>

\* Mutant of FillReport: a filled order is taken to have executed all of it.
FillReportComplete(o, status, cumulative) ==
    [MoveTo(status) EXCEPT !.bid = o, !.timed = TRUE,
        !.fill = IF status = "EXIT_FILLED" THEN Asked[o] ELSE cumulative]

FillReport(o, status, cumulative) ==
    [MoveTo(status) EXCEPT !.bid = o, !.fill = cumulative, !.timed = TRUE]

Ended(bid) ==
    [MoveTo("CANCELED") EXCEPT !.bid = bid, !.why = TRUE]

\* process_pending_order() for an EXIT row of the poll.  An answer without
\* the broker's execution time changes nothing and is left out.
Poll(o) ==
    /\ rows[o].status \in Working
    /\ LET cumulative == broker[o].executed IN
       \/ /\ FilledAtBroker(o)
          /\ Begin("monitor", o, FillReport(o, "EXIT_FILLED", cumulative),
                   "nothing")
       \/ /\ PartialAtBroker(o)
          /\ Begin("monitor", o,
                   FillReport(o, "EXIT_PARTIAL_FILL", cumulative), "nothing")
       \/ /\ EndedAtBroker(o)
          /\ cumulative > rows[o].filled
          /\ Begin("monitor", o,
                   FillReport(o, "EXIT_PARTIAL_FILL", cumulative), "end")
       \/ /\ EndedAtBroker(o)
          /\ cumulative = rows[o].filled
          /\ Begin("monitor", o, Ended(o), "nothing")
       \/ /\ broker[o].state = "working" /\ cumulative = 0
          /\ rows[o].status # "EXIT_ACKNOWLEDGED"
          /\ Begin("monitor", o,
                   [MoveTo("EXIT_ACKNOWLEDGED") EXCEPT !.bid = o], "nothing")

\* _reconcile_orders(): _advance_order_to_broker_fill() repeats the fill the
\* row already holds before it reports a complete one, and reports a partial
\* one only for a row that is partial already; _advance_order_to_terminal()
\* looks at no quantity and then reopens the position.
Reconcile(o) ==
    /\ rows[o].status \in Working
    /\ LET cumulative == broker[o].executed
           held == rows[o].filled
       IN
       \/ /\ FilledAtBroker(o)
          /\ held = 0 \/ held = Asked[o]
          /\ Begin("reconciler", o, FillReport(o, "EXIT_FILLED", cumulative),
                   "nothing")
       \/ /\ FilledAtBroker(o)
          /\ held \in 1 .. Asked[o] - 1
          /\ rows[o].status = "EXIT_PARTIAL_FILL"
          /\ Begin("reconciler", o, FillReport(o, "EXIT_PARTIAL_FILL", held),
                   "filled")
       \/ /\ PartialAtBroker(o)
          /\ rows[o].status = "EXIT_PARTIAL_FILL"
          /\ Begin("reconciler", o,
                   FillReport(o, "EXIT_PARTIAL_FILL", cumulative), "nothing")
       \/ /\ EndedAtBroker(o)
          /\ Begin("reconciler", o, Ended(NoOrder), "reopen")

\* _handle_stale_acknowledged_exits(), later in the same pass.  BROKER_FILLED
\* contains partially_filled, and either becomes EXIT_FILLED.
StaleAcknowledged(o) ==
    /\ rows[o].status \in {"EXIT_SUBMITTED", "EXIT_ACKNOWLEDGED"}
    /\ rows[o].filled = 0
    /\ \/ /\ FilledAtBroker(o) \/ PartialAtBroker(o)
          /\ Begin("reconciler", o,
                   FillReport(o, "EXIT_FILLED", broker[o].executed), "nothing")
       \/ /\ EndedAtBroker(o)
          /\ Begin("reconciler", o, Ended(o), "nothing")

-----------------------------------------------------------------------------
(* converge_position_from_durable_exit_order(): one transaction on the     *)
(* order's row and the position's.  A watermark is only ever written       *)
(* together with a positive quantity, so 0 stands for its absence, and the *)
(* checks for a row with and without one agree on what must remain.        *)

RemainderProven(o) == position.remaining = PositionQty - mark[o]

\* Mutant of OwnerAgrees: an order's own claim on the position is in its way.
OwnerIsNobody(o) == position.owner = NoOrder

OwnerAgrees(o) == position.owner \in {NoOrder, o}

\* Mutant of Converges: what the position has left is not compared.
ConvergesUnproven(o) ==
    /\ rows[o].status \in ExitFillStatuses
    /\ rows[o].filled \in 1 .. Asked[o]
    /\ mark[o] =< rows[o].filled
    /\ rows[o].filled - mark[o] =< position.remaining
    /\ OwnerAgrees(o)

Converges(o) ==
    /\ rows[o].status \in ExitFillStatuses
    /\ rows[o].filled > 0
    /\ rows[o].filled =< Asked[o]
    /\ mark[o] =< rows[o].filled
    /\ OwnerAgrees(o)
    /\ (position.status = "CLOSED") <=> (position.remaining = 0)
    /\ RemainderProven(o)

\* Mutant of Delta: the cumulative fill instead of what is new of it.
DeltaCumulative(o) ==
    IF rows[o].filled = mark[o] THEN 0 ELSE rows[o].filled

Delta(o) == rows[o].filled - mark[o]

Projected(o) ==
    [status |-> IF Delta(o) = position.remaining THEN "CLOSED" ELSE "CLOSING",
     remaining |-> position.remaining - Delta(o),
     owner |-> IF /\ rows[o].status = "EXIT_PARTIAL_FILL"
                  /\ rows[o].filled < Asked[o]
               THEN o ELSE NoOrder]

\* The part of the transaction that writes; nothing for ALREADY_APPLIED.
Project(o) ==
    IF Delta(o) = 0 THEN UNCHANGED <<position, mark>>
    ELSE /\ position' = Projected(o)
         /\ mark' = [mark EXCEPT ![o] = rows[o].filled]

\* What the hook does with the disposition: nothing, note_partial_exit_fill()
\* or mark_position_closed().
Result(o) ==
    IF Delta(o) = 0
        THEN IF rows[o].status = "EXIT_FILLED" /\ position.status = "CLOSED"
             THEN "full" ELSE "none"
        ELSE IF Delta(o) = position.remaining THEN "full" ELSE "partial"

\* _heal_exit_filled_positions_from_orders(): the same transaction for every
\* durable fill of a position that has contracts left; the engine is not told.
Heal(o) ==
    /\ rows[o].status \in ExitFillStatuses
    /\ position.remaining > 0
    /\ Converges(o)
    /\ Project(o)
    /\ UNCHANGED <<holdings, broker, rows, engine, submit, pc, job, sight>>

-----------------------------------------------------------------------------
(* The steps of a fill. *)

Leave(t) ==
    /\ pc' = [pc EXCEPT ![t] = "idle"]
    /\ job' = [job EXCEPT ![t] = NoJob]

\* The reconciler ignores how its first call of transition() ended.
Second(t) ==
    /\ pc' = [pc EXCEPT ![t] = "commit"]
    /\ job' = [job EXCEPT
          ![t].req = FillReport(job[t].order, "EXIT_FILLED",
                                Asked[job[t].order]),
          ![t].then = "nothing"]

Failed(t) == IF job[t].then = "filled" THEN Second(t) ELSE Leave(t)

Succeeded(t) ==
    \/ job[t].then = "filled" /\ Second(t)
    \/ job[t].then = "end"
       /\ pc' = [pc EXCEPT ![t] = "again"] /\ UNCHANGED job
    \/ job[t].then \notin {"filled", "end"} /\ Leave(t)

\* transition(), for a row that nobody writes in between.
Commit(t) ==
    /\ pc[t] = "commit"
    /\ LET o == job[t].order
           row == rows[o]
           req == job[t].req
       IN
       \/ /\ ~Refused(row, req) /\ ~AlreadyThere(row, req) /\ Legal(row, req)
          /\ rows' = [rows EXCEPT ![o] = Updated(row, req)]
          /\ \/ /\ req.new \in ExitFillStatuses
                /\ pc' = [pc EXCEPT ![t] = "converge"] /\ UNCHANGED job
             \/ /\ req.new \in Failures
                /\ pc' = [pc EXCEPT ![t] = "clear"] /\ UNCHANGED job
             \/ req.new \notin ExitFillStatuses \cup Failures /\ Leave(t)
       \/ /\ ~Refused(row, req) /\ AlreadyThere(row, req)
          /\ IF job[t].then = "reopen"
                THEN pc' = [pc EXCEPT ![t] = "reopen"] /\ UNCHANGED job
                ELSE Succeeded(t)
          /\ UNCHANGED rows
       \/ /\ Refused(row, req)
          /\ Failed(t)
          /\ UNCHANGED rows
       \/ /\ ~Refused(row, req) /\ ~AlreadyThere(row, req) /\ ~Legal(row, req)
          /\ rows' = [rows EXCEPT ![o] = ErrorRecorded(row)]
          /\ Failed(t)
    /\ UNCHANGED <<holdings, broker, mark, position, engine, submit, sight>>

\* The hook of transition(): a hold, and any error of the database, makes
\* transition() return False with the fill already durable.
Converge(t) ==
    /\ pc[t] = "converge"
    /\ LET o == job[t].order IN
       \/ /\ Converges(o)
          /\ Project(o)
          /\ \/ /\ Result(o) # "none"
                /\ pc' = [pc EXCEPT ![t] = "note"]
                /\ job' = [job EXCEPT ![t].result = Result(o),
                                      ![t].count = rows[o].filled]
             \/ /\ Result(o) = "none"
                /\ Succeeded(t)
       \/ /\ Failed(t)
          /\ UNCHANGED <<position, mark>>
    /\ UNCHANGED <<holdings, broker, rows, engine, submit, sight>>

\* Either hook only acts on a position it knows and an order it expects.
Known(o) == ~engine.closed /\ engine.pending \in {NoOrder, o}

Floor(n) == IF n > 0 THEN n ELSE 0

\* Mutant of Counted: what is left may fall below zero.
CountedWithoutFloor(o, cumulative) ==
    [engine EXCEPT !.remaining = @ - (cumulative - engine.noted[o]),
                   !.filled = @ + cumulative - engine.noted[o],
                   !.noted[o] = cumulative]

\* Mutant of Counted: what was already counted of the order is counted again.
CountedAgain(o, cumulative) ==
    [engine EXCEPT !.remaining = Floor(@ - cumulative),
                   !.filled = @ + cumulative,
                   !.noted[o] = cumulative]

\* note_partial_exit_fill(): the engine subtracts what it has not yet counted
\* of the order's cumulative fill from whatever it holds now.
Counted(o, cumulative) ==
    [engine EXCEPT !.remaining = Floor(@ - (cumulative - engine.noted[o])),
                   !.filled = @ + cumulative - engine.noted[o],
                   !.noted[o] = cumulative]

\* The engine closes its position, whatever it was waiting for.
Over(e) ==
    [Released(e) EXCEPT !.closed = TRUE, !.generation = @ + 1]

\* ... and stops waiting for an order once it has all of it.
Noted(o, cumulative) ==
    LET e == Counted(o, cumulative) IN
    IF e.remaining =< 0 THEN Over(e)
    ELSE IF e.qty > 0 /\ e.filled >= e.qty
         THEN Released(e)
         ELSE e

\* The outcome of a completed scale-out is written back.
ScaleDone(o, cumulative) ==
    LET e == Counted(o, cumulative) IN
    e.scale /\ e.qty > 0 /\ e.filled >= e.qty /\ e.remaining > 0

Note(t) ==
    /\ pc[t] = "note"
    /\ LET o == job[t].order
           count == job[t].count
           partial == job[t].result = "partial"
       IN
       \/ /\ Known(o) /\ ~partial
          /\ engine' = Over([engine EXCEPT !.remaining = 0])
          /\ Succeeded(t)
       \/ /\ Known(o) /\ partial /\ count > engine.noted[o]
          /\ engine' = Noted(o, count)
          /\ \/ /\ ScaleDone(o, count)
                /\ pc' = [pc EXCEPT ![t] = "persist"]
                /\ job' = [job EXCEPT ![t].count = Noted(o, count).remaining]
             \/ /\ ~ScaleDone(o, count)
                /\ Succeeded(t)
       \/ /\ ~Known(o) \/ (partial /\ count =< engine.noted[o])
          /\ Succeeded(t)
          /\ UNCHANGED engine
    /\ UNCHANGED <<holdings, broker, rows, mark, position, submit, sight>>

Persist(t) ==
    /\ pc[t] = "persist"
    /\ position' = [position EXCEPT !.remaining = job[t].count]
    /\ Succeeded(t)
    /\ UNCHANGED <<holdings, broker, rows, mark, engine, submit, sight>>

\* The fill monitor's own convergence, before it ends an order that has
\* executed contracts.
Again(t) ==
    /\ pc[t] = "again"
    /\ LET o == job[t].order IN
       \/ /\ Converges(o)
          /\ Project(o)
          /\ pc' = [pc EXCEPT ![t] = "commit"]
          /\ job' = [job EXCEPT ![t].req = Ended(o), ![t].then = "nothing"]
       \/ /\ Leave(t)
          /\ UNCHANGED <<position, mark>>
    /\ UNCHANGED <<holdings, broker, rows, engine, submit, sight>>

\* on_exit_failure(), the hook of a terminal status.
Clear(t) ==
    /\ pc[t] = "clear"
    /\ engine' = IF Known(job[t].order) THEN Released(engine) ELSE engine
    /\ IF job[t].then = "reopen"
          THEN pc' = [pc EXCEPT ![t] = "reopen"] /\ UNCHANGED job
          ELSE Leave(t)
    /\ UNCHANGED <<holdings, broker, rows, mark, position, submit, sight>>

\* _revert_position_to_open(), unless another EXIT order is active.
Reopen(t) ==
    /\ pc[t] = "reopen"
    /\ IF /\ position.status = "CLOSING"
          /\ \A p \in ExitOrders \ {job[t].order} :
                rows[p].status \notin Working
          THEN /\ position' = [position EXCEPT !.status = "OPEN"]
               /\ engine' = IF engine.closed THEN engine ELSE Released(engine)
          ELSE UNCHANGED <<position, engine>>
    /\ Leave(t)
    /\ UNCHANGED <<holdings, broker, rows, mark, submit, sight>>

-----------------------------------------------------------------------------
(* _broker_position_precheck(), at the start of every exit cycle: what the *)
(* broker holds replaces what the engine and the positions row hold.       *)

Observe ==
    /\ PositionSource
    /\ sight.pc = "idle"
    /\ holdings > 0
    /\ sight' = [pc |-> "observed", qty |-> holdings]
    /\ UNCHANGED <<holdings, broker, rows, mark, position, engine, submit, pc,
                   job>>

Tracked == ~engine.closed /\ engine.remaining > 0

\* _reconcile_existing_broker_position_row(): only a row that is still open
\* under the lock is written; CLOSING outlives the repair.
Synced(qty) ==
    [position EXCEPT !.remaining = qty,
                     !.status = IF @ = "CLOSING" THEN @
                                ELSE IF qty = PositionQty THEN "OPEN"
                                ELSE "PARTIAL"]

\* Mutant of RowOpen: the row is not looked at again under the lock.
RowTakenForOpen == TRUE

RowOpen == position.status # "CLOSED"

SyncRow ==
    /\ sight.pc = "observed"
    /\ IF /\ Tracked => sight.qty # engine.remaining
          /\ RowOpen
          THEN /\ position' = Synced(sight.qty)
               /\ sight' = [sight EXCEPT !.pc = "synced"]
          ELSE /\ sight' = NoSight
               /\ UNCHANGED position
    /\ UNCHANGED <<holdings, broker, rows, mark, engine, submit, pc, job>>

\* The row of an order that is being sent is EXIT_REQUESTED.
Requested(o) == submit.pc \in {"decided", "posted"} /\ submit.order = o

\* A position the engine does not track is installed anew, with the exit
\* order that is still active and the fill of that order's row.
Installed(qty, p) ==
    [remaining |-> qty, closed |-> FALSE,
     inFlight |-> p # NoOrder, pending |-> p,
     qty |-> IF p = NoOrder THEN 0 ELSE Asked[p],
     filled |-> IF p = NoOrder THEN 0 ELSE rows[p].filled,
     scale |-> FALSE,
     noted |-> [q \in ExitOrders |-> IF q = p THEN rows[q].filled ELSE 0],
     generation |-> 0]

SyncEngine ==
    /\ sight.pc = "synced"
    /\ sight' = NoSight
    /\ \/ /\ Tracked
          /\ engine' = [engine EXCEPT !.remaining = sight.qty]
       \/ /\ ~Tracked
          /\ \E p \in ExitOrders \cup {NoOrder} :
               /\ p # NoOrder => rows[p].status \in Working \/ Requested(p)
               /\ p = NoOrder => NoExitActive
               /\ engine' = Installed(sight.qty, p)
    /\ UNCHANGED <<holdings, broker, rows, mark, position, submit, pc, job>>

-----------------------------------------------------------------------------
Continue(t) ==
    \/ Commit(t) \/ Converge(t) \/ Note(t) \/ Persist(t) \/ Again(t)
    \/ Clear(t) \/ Reopen(t)

Next ==
    \/ \E o \in ExitOrders :
          \/ Decide(o) \/ Execute(o) \/ EndAtBroker(o)
          \/ Poll(o) \/ Reconcile(o) \/ StaleAcknowledged(o) \/ Heal(o)
    \/ GiveUp \/ Post \/ Submitted \/ Tell \/ MarkSubmitted \/ Own
    \/ \E t \in Threads : Continue(t)
    \/ Observe \/ SyncRow \/ SyncEngine

Spec == Init /\ [][Next]_vars

\* Every call that was begun runs to its end.  The reconciler's loop comes
\* back to every row the heal selects, and the database does not fail for
\* ever.
Fairness ==
    /\ \A t \in Threads : WF_vars(Continue(t))
    /\ \A o \in ExitOrders : SF_vars(Heal(o))

FairSpec == Spec /\ Fairness

-----------------------------------------------------------------------------
(* Properties. *)

\* The watermark follows the durable fill and the durable fill follows the
\* broker: no thread, however late its answer, applies a contract that was
\* not executed, and no order lowers a watermark.
AppliedWereExecuted ==
    \A o \in ExitOrders :
        /\ mark[o] =< rows[o].filled
        /\ rows[o].filled =< broker[o].executed

\* A position is only CLOSED when the broker holds none of it, whatever the
\* order in which fills, heals, scale-out writes and prechecks arrive.
ClosedOnlyWhenFlat == position.status = "CLOSED" => holdings = 0

\* A position that was closed stays closed: neither a precheck that saw the
\* broker before the last fill nor a reopening after a canceled order
\* brings it back.
ClosedIsFinal ==
    [][position.status = "CLOSED" => position' = position]_vars

\* Convergences, heals and prechecks, however late they are, never take the
\* positions row below what the broker holds: what is left keeps its
\* protection.  The write after a scale-out is the exception, because it
\* copies what the engine has counted.
OnlyScaleOutUnderstates ==
    [][position.remaining >= holdings
       /\ (\A t \in Threads : pc[t] # "persist")
       => (position.remaining >= holdings)']_vars

\* No submission of the engine's present position came back to find nothing
\* in flight: only its closing has moved the generation.
NoneMarked == engine.generation = IF engine.closed THEN 1 ELSE 0

\* Without the precheck, and until a submission is marked after its order
\* was counted, the engine takes no contract off twice, though the fill
\* monitor and the reconciler report the same fill, late and out of order:
\* it never believes it holds less than the broker does.
CountedOnceUnlessMarked == NoneMarked => engine.remaining >= holdings

\* A fill whose order is over reaches the position, although the hook may
\* fail after the fill was made durable and the fill monitor never looks at
\* the row again: the heal does.
FillReachesPosition ==
    \A o \in ExitOrders :
        rows[o].status = "EXIT_FILLED" ~> mark[o] = rows[o].filled

-----------------------------------------------------------------------------
(* What the position's owner sees of it. *)

Account ==
    [o \in ExitOrders |->
        [sent |-> broker[o].state # "unsent", executed |-> broker[o].executed,
         durable |-> rows[o].filled, applied |-> mark[o],
         over |-> rows[o].status \in Terminal]]

Accounting == INSTANCE FillAccounting
    WITH held <- holdings, account <- Account,
         closed <- (position.status = "CLOSED")

\* The fill monitor, the reconciler, the heal, the engine and its precheck
\* together do to the contracts of the position what FillAccounting allows,
\* one order at a time, whatever they overwrite of each other.
KeepsAccounts == Accounting!Spec

-----------------------------------------------------------------------------
(* What comments in the code claim and the code does not keep. *)

\* "Convergence failure is NOT non-fatal here ... HOLD until convergence is
\* proven": the fill monitor ends an order only when the position has every
\* contract the order executed.
EndedAfterConvergence ==
    [][\A o \in ExitOrders :
          (/\ pc["monitor"] = "commit"
           /\ job["monitor"].order = o
           /\ rows[o].status \notin Terminal
           /\ pc["monitor"]' = "clear")
          => mark[o] = broker[o].executed]_vars

\* "Do not overwrite a confirmed fill ... with a stale submitted marker",
\* "preventing double-counts from the fill monitor + reconciler dual-path":
\* of one order that was sent, the engine counts every contract once.
CountedOnce == engine.remaining >= holdings

=============================================================================
