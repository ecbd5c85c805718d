----------------------------- MODULE EntryFill ------------------------------
(***************************************************************************)
(* The fill of one ENTRY order and the row of the positions table it       *)
(* becomes.  Three threads write that row: the fill monitor                *)
(* (src/ap/fill_monitor.py), the loop of the reconciler with its order     *)
(* pass and its import of broker positions, and the repair the reconciler  *)
(* runs once at start (src/ap_reconciler.py).  All of them insert through  *)
(* open_position() (src/ap/position_manager.py), which looks for a row and *)
(* inserts one in a transaction under an advisory lock; the import and the *)
(* repair have INSERTs of their own for when that fails.                   *)
(*                                                                         *)
(* The broker executes the order contract by contract and may cancel the   *)
(* rest.  Every database call may fail, every listing of the account may   *)
(* come back empty, and the process may die between any two steps.  How an *)
(* exit is applied to the position is the subject of ExitFill: here the    *)
(* sale and the report of it are one step.                                 *)
(***************************************************************************)
EXTENDS Naturals, FiniteSets

CONSTANTS
    Ids,           \* ids of positions rows (bound on the rows ever inserted)
    NoRow,
    Qty,           \* contracts the order asks for
    MaxRestarts    \* bound on the restarts of the process

ASSUME FillAssumption ==
    /\ NoRow \notin Ids
    /\ Qty \in Nat \ {0}
    /\ MaxRestarts \in Nat

VARIABLES
    lineage,    \* what recover_lineage() makes of the order's signal: "same", or
                \* "other" when it is a REEVAL id that stands for another signal
    broker,     \* the order and the holding at the broker
    order,      \* status and position_id of the ENTRY row
    rows,       \* the positions rows of the contract
    thread,     \* what each thread is about to do
    restarts,   \* restarts so far (bound)
    reopened    \* the repair wrote its status on a row that had changed since
                \* it was found (history)

vars == <<lineage, broker, order, rows, thread, restarts, reopened>>

-----------------------------------------------------------------------------
Threads == {"monitor", "reconciler", "startup"}
Quantities == 0 .. Qty

\* plan_id: the order's own, or the fingerprint import_identity() makes of the
\* quantity, the cost basis (the repair passes none) and the lineage found.
Plan == [of : {"none", "order", "import", "repair"}, qty : Quantities, known : BOOLEAN]
NoPlan == [of |-> "none", qty |-> 0, known |-> FALSE]
OrderPlan == [of |-> "order", qty |-> 0, known |-> FALSE]

\* made: which INSERT made the row.  "fill" is open_position() with the order's
\* ids, "guess" is open_position() for an import whose entry is unproven, and
\* "direct" an INSERT outside open_position().
Row == [made : {"none", "fill", "guess", "direct"},
        status : {"none", "OPEN", "CLOSED", "CLOSED_REPAIR"}, ids : BOOLEAN,
        signal : {"none", "order", "other"}, plan : Plan,
        left : Quantities]
Unused == [made |-> "none", status |-> "none", ids |-> FALSE, signal |-> "none",
           plan |-> NoPlan, left |-> 0]

Steps == {"idle", "advance", "select", "insert", "link", "bind", "import", "name",
          "fallback", "fetch", "direct", "patch"}
\* count: contracts the account was seen to hold.
Thread == [at : Steps, job : {"none", "fill", "import", "repair"}, count : Quantities,
           known : BOOLEAN, proven : BOOLEAN, row : Ids \cup {NoRow}]
Idle == [at |-> "idle", job |-> "none", count |-> 0,
         known |-> FALSE, proven |-> FALSE, row |-> NoRow]

Init ==
    /\ lineage \in {"same", "other"}
    /\ broker = [executed |-> 0, canceled |-> FALSE, sold |-> 0]
    /\ order = [status |-> "open", pos |-> NoRow]
    /\ rows = [r \in Ids |-> Unused]
    /\ thread = [t \in Threads |-> Idle]
    /\ restarts = 0
    /\ reopened = FALSE

At(t, step) == thread[t].at = step
Goes(t, new) == thread' = [thread EXCEPT ![t] = new]
GoesTo(t, step) == Goes(t, [thread[t] EXCEPT !.at = step])
With(t, step, r) == [thread[t] EXCEPT !.at = step, !.row = r]

Filled == broker.executed = Qty
Over == Filled \/ broker.canceled
Held == broker.executed - broker.sold
Used == {r \in Ids : rows[r].status # "none"}
Active == {r \in Ids : rows[r].status = "OPEN"}

-----------------------------------------------------------------------------
(* The broker, and the exits of the positions.                             *)

Execute ==
    /\ ~Over
    /\ broker' = [broker EXCEPT !.executed = @ + 1]
    /\ UNCHANGED <<lineage, order, rows, thread, restarts, reopened>>

Cancel ==
    /\ ~Over
    /\ broker' = [broker EXCEPT !.canceled = TRUE]
    /\ UNCHANGED <<lineage, order, rows, thread, restarts, reopened>>

\* Mutant of Exit: more is sold than the account holds.
ExitUnclamped(r) ==
    /\ r \in Active /\ rows[r].left > 0
    /\ broker' = [broker EXCEPT !.sold = @ + rows[r].left]
    /\ rows' = [rows EXCEPT ![r].left = 0, ![r].status = "CLOSED"]
    /\ UNCHANGED <<lineage, order, thread, restarts, reopened>>

\* A position is sold as far as the account goes, and the sale is reported: what
\* happens in between is the subject of ExitFill.
Exit(r) ==
    LET k == IF rows[r].left <= Held THEN rows[r].left ELSE Held IN
    /\ r \in Active /\ k > 0
    /\ broker' = [broker EXCEPT !.sold = @ + k]
    /\ rows' = [rows EXCEPT
          ![r].left = @ - k,
          ![r].status = IF rows[r].left = k THEN "CLOSED" ELSE "OPEN"]
    /\ UNCHANGED <<lineage, order, thread, restarts, reopened>>

-----------------------------------------------------------------------------
(* open_position().                                                        *)

Named(t) == thread[t].job = "fill" \/ thread[t].proven
PlanOf(t) ==
    IF thread[t].job = "fill" THEN OrderPlan
    ELSE [of |-> thread[t].job,
          qty |-> IF thread[t].job = "import" THEN thread[t].count ELSE Qty,
          known |-> thread[t].known]
\* The signal of an import is the one of the lineage; without one it is made up.
SignalOf(t) ==
    IF thread[t].job = "fill" \/ (thread[t].known /\ lineage = "same")
    THEN "order" ELSE "other"
NewRow(t, made) ==
    [made |-> made, status |-> "OPEN", ids |-> Named(t), signal |-> SignalOf(t),
     plan |-> PlanOf(t),
     left |-> IF thread[t].job = "import" THEN thread[t].count ELSE Qty]

\* _position_idempotency_key(): the order's ids, else the plan.
SameKey(t, u) ==
    IF Named(t) \/ Named(u) THEN Named(t) /\ Named(u) ELSE PlanOf(t) = PlanOf(u)
Unlocked(t) == \A u \in Threads \ {t} : At(u, "insert") => ~SameKey(t, u)

\* Mutant of ByIds: the row of a fill is found while it is open.
ByActiveIds(t) == {r \in Active : Named(t) /\ rows[r].ids}

\* _select_existing_locked(): rows with the ids, whatever their status, then the
\* plan, then the signal; the caller of a fill sees active rows only in the last
\* two, an import sees plans of any status and no signals.
ByIds(t) == {r \in Used : Named(t) /\ rows[r].ids}
ByPlan(t) == {r \in Used : rows[r].plan = PlanOf(t) /\ (thread[t].job = "fill" => r \in Active)}
BySignal(t) == {r \in Active : thread[t].job = "fill" /\ rows[r].signal = "order"}
Existing(t) ==
    IF ByIds(t) # {} THEN ByIds(t)
    ELSE IF ByPlan(t) # {} THEN ByPlan(t) ELSE BySignal(t)

\* Where a caller goes with the id open_position() returned.
Then(t) ==
    IF t = "monitor" THEN "bind" ELSE IF thread[t].job = "fill" THEN "link" ELSE "name"
\* Where it goes when open_position() raises.
Else(t) ==
    IF thread[t].job = "fill" THEN Idle ELSE [thread[t] EXCEPT !.at = "fallback"]

\* Under the lock a row is looked for; the transaction, and with it the lock,
\* ends here if there is one.
Select(t) ==
    /\ At(t, "select")
    /\ Unlocked(t)
    /\ IF Existing(t) = {} THEN GoesTo(t, "insert")
       ELSE \E r \in Existing(t) : Goes(t, With(t, Then(t), r))
    /\ UNCHANGED <<lineage, broker, order, rows, restarts, reopened>>

Fresh(r) == Used # Ids /\ r = CHOOSE q \in Ids \ Used : TRUE

\* The INSERT commits, which ends the lock; the caller may not be told of it.
Insert(t) ==
    /\ At(t, "insert")
    /\ \E r \in Ids :
          /\ Fresh(r)
          /\ rows' = [rows EXCEPT ![r] = NewRow(t, IF Named(t) THEN "fill" ELSE "guess")]
          /\ \/ Goes(t, With(t, Then(t), r))
             \/ Goes(t, Else(t))
    /\ UNCHANGED <<lineage, broker, order, restarts, reopened>>

OpenFails(t) ==
    /\ thread[t].at \in {"select", "insert"}
    /\ Goes(t, Else(t))
    /\ UNCHANGED <<lineage, broker, order, rows, restarts, reopened>>

-----------------------------------------------------------------------------
(* The order: process_pending_order() of the fill monitor, which starts    *)
(* when the repair is done, and _reconcile_orders().                       *)

Running(t) == t = "monitor" => At("startup", "idle")

\* Mutant of Load: a partial fill is taken for the fill.
LoadEarly(t) ==
    /\ Running(t) /\ At(t, "idle")
    /\ order.status = "open" /\ broker.executed > 0
    /\ Goes(t, [Idle EXCEPT !.at = "advance", !.job = "fill"])
    /\ UNCHANGED <<lineage, broker, order, rows, restarts, reopened>>

Load(t) ==
    /\ Running(t) /\ At(t, "idle")
    /\ order.status = "open" /\ Filled
    /\ Goes(t, [Idle EXCEPT !.at = "advance", !.job = "fill"])
    /\ UNCHANGED <<lineage, broker, order, rows, restarts, reopened>>

\* transition() to FILLED.  When the other thread was first it answers True if
\* it had read the row before, False if after.  The reconciler then takes any
\* active row of the contract (_ensure_position_for_filled_entry()), and goes on
\* to open_position() when there is none or it cannot be read.
Advance(t) ==
    /\ At(t, "advance")
    /\ order' = [order EXCEPT !.status = "FILLED"]
    /\ \/ GoesTo(t, "select")
       \/ t = "reconciler" /\ \E r \in Active : Goes(t, With(t, "link", r))
       \/ order.status = "FILLED" /\ Goes(t, Idle)
    /\ UNCHANGED <<lineage, broker, rows, restarts, reopened>>

\* A canceled order is ended whatever it executed, and no position is opened.
End(t) ==
    /\ Running(t) /\ At(t, "idle")
    /\ order.status = "open" /\ broker.canceled
    /\ order' = [order EXCEPT !.status = "ended"]
    /\ UNCHANGED <<lineage, broker, rows, thread, restarts, reopened>>

Link(t) ==
    /\ At(t, "link")
    /\ order' = [order EXCEPT !.pos = IF @ = NoRow THEN thread[t].row ELSE @]
    /\ Goes(t, Idle)
    /\ UNCHANGED <<lineage, broker, rows, restarts, reopened>>

\* _bind_filled_entry_durable_identity(): an active row of the order's signal,
\* or of none, that no other link contradicts.
Bindable(r) ==
    /\ order.status = "FILLED"
    /\ order.pos \in {NoRow, r}
    /\ r \in Active
    /\ rows[r].signal # "other"
Bind ==
    LET r == thread["monitor"].row IN
    /\ At("monitor", "bind")
    /\ IF Bindable(r)
       THEN /\ rows' = [rows EXCEPT ![r].ids = TRUE]
            /\ order' = [order EXCEPT !.pos = r]
       ELSE UNCHANGED <<rows, order>>
    /\ Goes("monitor", Idle)
    /\ UNCHANGED <<lineage, broker, restarts, reopened>>

-----------------------------------------------------------------------------
(* The import: _reconcile_positions() and                                  *)
(* _import_broker_positions_missing_from_db().                             *)

\* Mutant of List: the contracts of an ended order are nobody's.
ListUnended ==
    /\ At("reconciler", "idle") /\ Held > 0 /\ order.status # "ended"
    /\ Goes("reconciler", [Idle EXCEPT !.at = "import", !.job = "import", !.count = Held])
    /\ UNCHANGED <<lineage, broker, order, rows, restarts, reopened>>

\* A listing that fails is empty, and nothing is imported from it.
List ==
    /\ At("reconciler", "idle") /\ Held > 0
    /\ Goes("reconciler", [Idle EXCEPT !.at = "import", !.job = "import", !.count = Held])
    /\ UNCHANGED <<lineage, broker, order, rows, restarts, reopened>>

\* import_identity(): the lineage may not be found, and a found one proves the
\* entry only if the order is FILLED; its quantity must cover the account's, and
\* its price explain the cost.
Identity == {k \in [known : BOOLEAN, proven : BOOLEAN] :
                k.proven => k.known /\ order.status = "FILLED"}
Identified(t, step, k) ==
    [thread[t] EXCEPT !.at = step, !.known = k.known, !.proven = k.proven]

\* The rows are read after the account was listed.  An active row of the contract
\* ends the import.  _find_db_position_by_import_identity(): so does a row of the
\* plan, and when it is active and the entry proven it is given the order's ids.
\* Either read may fail, and several rows of a plan count as none; the import
\* then goes on to open_position().
OfPlan(p) == {r \in Used : rows[r].plan = p}
Import ==
    LET t == "reconciler"
        plan(k) == [of |-> "import", qty |-> thread[t].count, known |-> k.known] IN
    /\ At(t, "import")
    /\ \/ Active # {} /\ Goes(t, Idle)
       \/ \E k \in Identity : Goes(t, Identified(t, "select", k))
       \/ \E k \in Identity, r \in Ids :
             /\ OfPlan(plan(k)) = {r}
             /\ Goes(t, IF r \in Active /\ k.proven
                        THEN [Identified(t, "name", k) EXCEPT !.row = r] ELSE Idle)
    /\ UNCHANGED <<lineage, broker, order, rows, restarts, reopened>>

\* _backfill_position_order_identity() fills blank ids with proven ones.
Name(t) ==
    /\ At(t, "name")
    /\ rows' = [rows EXCEPT ![thread[t].row].ids = @ \/ thread[t].proven]
    /\ IF t = "startup" THEN GoesTo(t, "patch") ELSE Goes(t, Idle)
    /\ UNCHANGED <<lineage, broker, order, restarts, reopened>>

\* The INSERT of _create_imported_position() when open_position() raised: one
\* transaction, under a lock of its own, that looks at the plan only.
Fallback(t) ==
    /\ At(t, "fallback")
    /\ \/ \E r \in Ids :
             /\ OfPlan(PlanOf(t)) = {r}
             /\ Goes(t, With(t, "name", r))
             /\ UNCHANGED rows
       \/ \E r \in Ids :
             /\ OfPlan(PlanOf(t)) = {} /\ Fresh(r)
             /\ rows' = [rows EXCEPT ![r] = NewRow(t, "direct")]
             /\ Goes(t, With(t, "name", r))
    /\ UNCHANGED <<lineage, broker, order, restarts, reopened>>

-----------------------------------------------------------------------------
(* _backfill_missing_position_links(), once, at start.                     *)

\* A FILLED order without position_id is linked to any row of the contract,
\* whatever its status (_find_position_by_contract()).  Without one its position
\* is created, and count is what the row will be given: nothing when the account
\* is empty or could not be listed, which looks the same.  In a paper account
\* the order is left alone then.  One step, as nothing these reads see can
\* change before there is a row.
Orphan ==
    /\ At("startup", "fetch")
    /\ IF order # [status |-> "FILLED", pos |-> NoRow] THEN Goes("startup", Idle)
       ELSE \/ \E r \in Used : Goes("startup", With("startup", "link", r))
            \/ /\ Used = {}
               /\ \E k \in Identity, seen \in {0, Held} :
                     Goes("startup", [Identified("startup", "select", k) EXCEPT
                        !.count = IF seen = 0 THEN 0 ELSE Qty])
            \/ Goes("startup", Idle)
    /\ UNCHANGED <<lineage, broker, order, rows, restarts, reopened>>

\* The INSERT of the repair itself, when the import gave it no row.
Direct ==
    /\ At("startup", "direct")
    /\ \E r \in Ids :
          /\ Fresh(r)
          /\ rows' = [rows EXCEPT ![r] = [Unused EXCEPT
                !.made = "direct", !.status = "OPEN", !.ids = TRUE,
                !.left = thread["startup"].count]]
          /\ Goes("startup", With("startup", "patch", r))
    /\ UNCHANGED <<lineage, broker, order, restarts, reopened>>

\* Whatever the row has become meanwhile: nothing is compared.
AsInserted(r) ==
    /\ rows[r].status = "OPEN"
    /\ rows[r].left \in {Qty, thread["startup"].count}
Patch ==
    LET r == thread["startup"].row IN
    /\ At("startup", "patch")
    /\ \/ /\ rows' = [rows EXCEPT
                ![r].status = IF thread["startup"].count = 0 THEN "CLOSED_REPAIR" ELSE "OPEN",
                ![r].left = thread["startup"].count]
          /\ reopened' = (reopened \/ ~AsInserted(r))
       \/ UNCHANGED <<rows, reopened>>    \* the UPDATE failed
    /\ GoesTo("startup", "link")
    /\ UNCHANGED <<lineage, broker, order, restarts>>

-----------------------------------------------------------------------------
\* An exception ends what the thread was doing.  The repair goes on to its own
\* INSERT when the import failed.
Fail(t) ==
    /\ thread[t].at \in {"advance", "link", "bind", "name", "fallback", "direct"}
    /\ IF t = "startup" /\ thread[t].at \in {"name", "fallback"}
       THEN GoesTo(t, "direct") ELSE Goes(t, Idle)
    /\ UNCHANGED <<lineage, broker, order, rows, restarts, reopened>>

Restart ==
    /\ restarts < MaxRestarts
    /\ restarts' = restarts + 1
    /\ thread' = [t \in Threads |->
          IF t = "startup" THEN [Idle EXCEPT !.at = "fetch", !.job = "repair"] ELSE Idle]
    /\ UNCHANGED <<lineage, broker, order, rows, reopened>>

Next ==
    \/ Execute \/ Cancel \/ Restart
    \/ \E r \in Ids : Exit(r)
    \/ \E t \in {"monitor", "reconciler"} : Load(t) \/ Advance(t) \/ End(t)
    \/ Bind \/ List \/ Import \/ Orphan \/ Direct \/ Patch
    \/ \E t \in {"reconciler", "startup"} : Name(t) \/ Fallback(t) \/ Link(t)
    \/ \E t \in Threads : Select(t) \/ Insert(t) \/ OpenFails(t) \/ Fail(t)

Spec == Init /\ [][Next]_vars

\* The reconciler goes round for ever, a transaction ends, and an import that is
\* tried again and again is not interrupted for ever.
Pass ==
    LET t == "reconciler" IN Import \/ Advance(t) \/ Link(t) \/ Name(t) \/ Fallback(t)
Fairness ==
    /\ WF_vars(Pass)
    /\ \A t \in Threads : WF_vars(Insert(t) \/ OpenFails(t))
    /\ SF_vars(List)
    /\ SF_vars(Select("reconciler")) /\ SF_vars(Insert("reconciler"))

FairSpec == Spec /\ Fairness

-----------------------------------------------------------------------------
TypeOK ==
    /\ lineage \in {"same", "other"}
    /\ broker \in [executed : Quantities, canceled : BOOLEAN, sold : Quantities]
    /\ order \in [status : {"open", "FILLED", "ended"}, pos : Ids \cup {NoRow}]
    /\ rows \in [Ids -> Row]
    /\ thread \in [Threads -> Thread]
    /\ restarts \in 0 .. MaxRestarts
    /\ reopened \in BOOLEAN

\* src/ap/position_manager.py:2904, for the ids of an order: whatever the fill
\* monitor, the order pass, the import and the repair do at once, fail at and
\* repeat after a restart, open_position() inserts one row for a fill.
OneFillRow ==
    \A r, q \in Ids : rows[r].made = "fill" /\ rows[q].made = "fill" => r = q

\* Unless a row was inserted without proof of its entry or outside
\* open_position(), or the repair wrote on a row that had changed, the rows
\* claim no contract the account does not hold.
OnlyFills == \A r \in Used : rows[r].made = "fill"
NeverOverclaims ==
    OnlyFills /\ ~reopened => \A r \in Active : rows[r].left <= Held

\* src/ap_reconciler.py:10: "Broker-open option positions must NEVER be silently
\* ignored if DB is missing them."  Contracts in the account come under an
\* active row, although the order may have ended without a position and the
\* threads fail and die, unless an import took a part of what the order came to
\* execute for the whole or the repair closed a row.
PartImported == \E r \in Used : rows[r].plan.of = "import" /\ rows[r].plan.qty < broker.executed
ClosedByRepair == \E r \in Used : rows[r].status = "CLOSED_REPAIR"
HeldIsTracked ==
    Held > 0 ~> Held = 0 \/ Active # {} \/ PartImported \/ ClosedByRepair
=============================================================================
