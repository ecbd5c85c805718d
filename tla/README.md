# Angel Precision execution bot: verification project

TLA+ models of the part of the bot that decides when an entry is
triggered, whether an order exists and how often, how much of it was executed
and what a position has left, with TLC runs on small
instances and TLAPS proofs for all sizes. Sources are named relative to `src/`.

## The system

The bot trades options for several clients. Signals are queued, an *entry
watcher* waits for their trigger price, a *contract selector* picks the option,
the *order state machine* sends an order to the broker (Tradier) and records its
life in the table `orders`, the *fill monitor* polls the broker and reports fills,
the *position manager* keeps the table `positions`, and the *exit engine* holds
the open positions in memory, decides when to sell and sends EXIT orders. An
*order monitor* times orders out, a *reconciler* compares the database with the
broker, and *recovery* repairs what a dead process left. All are threads of one
process per client runner (two processes for a while during a deployment); they
share the database and, within a process, the exit engine's memory. There is no
lock across threads around a row of `orders`: safety rests on guarded `UPDATE`s.

### Inventory

| Component | State | Operations | Hard behaviour | What makes it correct |
|---|---|---|---|---|
| Order state machine (`ap/order_state_machine.py`) | rows of `orders`: status, broker id, cumulative fill, submit evidence in `meta`, `last_error` | `transition`, `submit_existing_entry`, `submit_exit`, submit intents, flag and resolve split brain, deferred claims | read, decide in Python, guarded UPDATE; lost answers of the POST; crash between intent and identity | transition table followed, identity written once, at most one submission, fills never lost |
| Fill monitor (`ap/fill_monitor.py`) | none of its own | poll, report fills and ends, converge before an end, open and bind the position of an ENTRY | reports what the broker said a while ago; several calls per report, each may fail | every executed contract reaches the position, once |
| Position manager (`ap/position_manager.py`) | `positions`; a watermark inside the EXIT order's row | `open_position`, `converge_position_from_durable_exit_order`, closing | one transaction each, called from four places; an advisory lock on a key that depends on the caller | a fill has one row; applied = executed; CLOSED means flat |
| Exit engine (`ap_exit_engine.py`) | `ManagedPosition` in memory: remaining, pending exit, counted fills | fill hooks, exit submission, broker position precheck | memory and database updated at different times; the precheck overwrites both | never fewer contracts than the account holds |
| Reconciler (`ap_reconciler.py`) | none | advance orders to the broker's state, heal positions, stale acknowledgements, resolve split brain, reopen positions, import broker positions, repair links at start | repeats what the fill monitor does, with other rules; a listing that fails looks empty | idempotent; ends with what the broker has; no contract without a row |
| Order monitor (`ap/order_monitor.py`) | timers | pending-trigger watchdog, cancel and retry, re-peg, forced exits | races the submit path and late fills | never ends a row that has a broker order |
| Recovery (`ap_recovery.py`, `ap/pending_trigger_restart_recovery.py`) | none | retire, rearm, adopt | runs while the old process may still be alive | no second submission |
| Re-peg (`ap/retry_engine.py`) | counters in `meta` | cancel, re-post, write back | unguarded writes, crash in the middle | one live broker order per row |
| Entry watcher (`ap_entry_watcher.py`) | `WatchedSignal`s in memory | poll: late gate, breach streak, stop, stale protection; hand over, retry, quarantine | quotes with a missing side, late attachment, a clock that turns back | fires on proof, never chases, never past a stop |
| Deferred entries (`ap/order_state_machine.py`, `ap_execution_core.py`, `ap_recovery.py`) | `meta` of a row in PENDING_TRIGGER: lifecycle, owner, generation, lease, attempts, submit claim | claim, schedule, rearm, copy back, submit, resume, adopt, retain, end | a worker that goes on after its lease; two processes with one owner name; a landed write whose answer is lost | one owner per generation; a worker that was overtaken writes nothing; one submission |
| Trade queue (`ap/queue.py`) | `trade_queue`, `ap_signals` in another database | enqueue, claim, reclaim, dispatch, defer, mark | stale reclaim of a job still running; two databases; death between create and mark | one live entry per signal; no job stuck; a deferral can be found |
| Overnight re-evaluation (`ap_overnight_reeval.py`, `ap/opportunity_ledger.py`) | `client_signal_opportunities`, its metadata | decide from ledger, active and latest order; create, arm, clean up, reattach, prove | failed reads, monotonic status with merged metadata, a watcher that acts in between, restart | one entry per setup; what is called settled is watched or over |
| Signal pairs (`ap/signal_pair_manager.py`) | pairs in memory | register, fill, cancel the other side | both sides breach at once; restart | at most one side entered |
| Handoff lock (`ap_handoff_run_lock.py`) | `handoff_job_locks` | acquire, reclaim, complete, fail | staleness, failing open | one owner completes |
| Broker error circuit (`ap/safety_circuit.py`) | error window | record, check, clear | window and clear interval | opens and clears as described |
| Client runner (`client_runner.py`) | degraded reasons, threads | supervise, detect and clear split brain | sticky or lost reasons | entries blocked while degraded |
| Master control, gates, selector | mostly none | predicates over quotes and caps | check-then-act on open positions | caps respected |
| App, intelligence, reports | logs and views | read-only | - | - |

`PROJECT.json` lists every component with what is modelled of it and why the
rest is not, and every hazard with the line where it bites.

## Modules

| Module | Models |
|---|---|
| `OrderStateMachine` | operators: the statuses, the transition table, and each guarded UPDATE of `ap/order_state_machine.py` as a pair "row matches" / "row after" |
| `OrderLifecycle` | the rows of `orders` under all their writers, one database statement per action |
| `OrderPromise` | what a caller is promised of an order, with no workers and no statements: the abstract specification of `OrderLifecycle` |
| `ExitFill` | one position, its EXIT orders, the broker, and every path a fill takes to the position and to the engine's memory |
| `FillAccounting` | what the owner of a position may count on of its contracts, with no threads, hooks or copies in memory: the abstract specification of `ExitFill` |
| `WatchedSignal` | one watch of the entry watcher: `check()` at every poll, the late-attachment classifier, what the loop does with a trigger |
| `OvernightReeval` | one shared setup of one client: attempts of the re-evaluation, the ledger row, the setup's ENTRY orders |
| `TradeQueue` | jobs of signals, the processes that dispatch them, the duplicate check, the deferral over two databases, recovery at start |
| `DeferredEntry` | one deferred ENTRY row between the crossing of its trigger and its submission: watcher and recovery of every process, the claims they write under |
| `DeferredTerms` | what the workers of such a row may do to it, as numbered terms, with no rows, names, leases or processes: the abstract specification of `DeferredEntry` |
| `EntryFill` | the fill of one ENTRY order and its row in `positions`: fill monitor, order pass, import and startup repair, all inserting through `open_position()` |
| `SignalPair` | the CALL and the PUT of a 1-1 setup: the pair manager, and the cancel of the other side by the fill monitor |
| `OrderLifecycleProofs`, `OrderPromiseProofs`, `ExitFillProofs`, `WatchedSignalProofs`, `OvernightReevalProofs`, `TradeQueueProofs`, `DeferredEntryProofs`, `EntryFillProofs` | theorems about the state machines |
| `MCExitFill`, `MCWatchedSignal`, `MCTradeQueue`, `MCDeferredEntry` | small instances for TLC |

`OrderLifecycle` extends `OrderStateMachine`; `ExitFill` instantiates it, with an
order's broker identity being the order itself, and takes `transition()` as one
step. So a change of the transition table or of a guard reaches both. The others
stand beside them: `TradeQueue` and `OvernightReeval` are the two callers
that create ENTRY orders and give them to a watcher, `WatchedSignal` is what the
watcher does with one, `DeferredEntry` what its callback and recovery do when the
contract is only chosen at the trigger, `OrderLifecycle` what the submission, the fills and
the cleanup do to the row, `EntryFill` how the filled order becomes a position, and
`ExitFill` what becomes of that. Where one of them needs the others, it has the
outcomes those modules allow as actions of the environment: `WatchEnds`
(the watch fires or gives up), `Executes`, `Report`, `BrokerEnds`.

### OrderStateMachine

A row is reduced to the columns the `WHERE` and `SET` clauses name. `intent`
stands for the keys that `persist_*_submit_intent` writes into `meta`
(`submit_intent_at` and `broker_submit_key` are never cleared); `quarantine` for
`meta.split_brain_quarantine`; `error` for `last_error`, of which only the prefix
`SPLIT_BRAIN:` matters. `Request` holds the arguments of `transition()`.
`Refused`, `AlreadyThere` and `Legal` are its checks in Python, `UpdateMatches`
the guarded UPDATE (status, identity, cleanup fence), `MissAccepted` what a miss
is taken for, `ErrorRecorded` the write of `_record_error()`.

### OrderLifecycle

| State | Code |
|---|---|
| `orders` | table `orders` |
| `executed`, `submissions` | the broker (external): contracts executed, orders received |
| `pc`, `job` | where a worker is in a call, its arguments, and the row as it read it |
| `told` | history: identities for which a call returned True |

| Action | Code |
|---|---|
| `Arm`, `GiveUp`, `Watchdog`, `CheckPending` | `mark_entry_pending_trigger`, `cancel_pending_entry`/`expire_pending_entry` and the read they begin with, the watchdog of the order monitor and its fallback |
| `ExitGuard` | the guards of `submit_exit()` that cancel the row |
| `Intend`, `Prove`, `Post` | the durable submit intent, the last read before the POST, the POST and the classification of its answer |
| `AdoptByTag` | an attempt that finds an earlier submission and looks it up by tag |
| `Monitor`, `Reconciler`, `Retire` | the callers in `fill_monitor`, `ap_reconciler`, `ap_recovery` |
| `Read`, `Update`, `Reread`, `RecordError` | the statements of `transition()` |
| `Flag`, `Resolve` | `_flag_split_brain_order`, `resolve_split_brain_quarantine` |

A worker may stop after any statement as far as safety goes, so a crash and a
second process during a deployment are behaviours of the model: what a dead
thread left in the row is all the next one sees. A POST that ends in a connect
timeout is repeated by the code because no connection existed; the model counts
the attempts that reach the broker.

`OrderPromise` is the abstract specification: `Send`, `Execute` and `Move` are what
may happen to an order as seen from outside. The refinement mapping `View` keeps of
`OrderLifecycle` a row's status, identity and fill and the broker's two counters, and
hides workers, statements, calls and flags. `Move` says in one step what no writer
may break from whatever it read earlier: the order has not ended, the status goes
along the table, the identity stays and comes after the order was sent, a status
of an order at the broker comes with its identity, the fill is no more than was
executed and a change of status does not lower it.

### ExitFill

| State | Code |
|---|---|
| `holdings`, `broker` | the account's contracts and the orders at the broker (external) |
| `rows`, `mark` | the `orders` rows and their watermark `applied_cumulative_qty` |
| `position` | `positions.status`, `quantity_remaining`, `pending_exit_*_order_id` |
| `engine` | `ManagedPosition`: `quantity_remaining`, `closed`, pending exit, whether it scales out, cumulative fills already counted per order, `_submit_generation` |
| `submit` | the one call of `_submit_exit_decision()` its guard lets through: how far it is, for which order, and the generation it found |
| `pc`, `job` | the fill monitor and the reconciler, one call each at a time |
| `sight` | the broker precheck of the exit cycle, between fetching and writing |

The engine sends an order in steps, with every other thread in between:

| Action | Code |
|---|---|
| `Decide` | the guard around the call (`ap/exit_decision_idempotency_guard.py`): its claim and the reserved EXIT row; under the engine's lock `_can_submit_exit()` and the snapshot of the generation (`ap_exit_engine.py:11769-11920`) |
| `GiveUp` | a refusal before the POST: the reservation is retired and the engine's pointer to it cleared |
| `Post` | the callback, outside the lock: the broker has the order (`ap_execution_core.py:10525`) |
| `Submitted` | `submit_exit()` commits EXIT_SUBMITTED with the broker's identity |
| `Tell` | the hook of that transition, `set_pending_exit_order()`, which may fail or find no engine |
| `MarkSubmitted` | back under the lock (`ap_exit_engine.py:12197-12270`): unless the position was closed, the generation moved or an exit is in flight, `_mark_exit_submitted()` begins a new generation and empties what was counted of every order |
| `Own` | the guard may then mark the active row it has read as owned |

So the broker may execute the order, and the fill monitor and the reconciler may
commit, converge and note its fills, before the engine knows of it.

A report is a chain of steps with the other threads in between: `Commit`
(`transition()` up to its UPDATE), `Converge` (the hook's transaction, which may
also fail), `Note` (the engine's memory), `Persist` (the write of
`quantity_remaining` after a scale-out), `Again` (the fill monitor's own
convergence before it ends an order), `Clear` and `Reopen` for orders that ended.
`Heal` is the reconciler's pass over durable fills. `Observe`, `SyncRow`,
`SyncEngine` are `_broker_position_precheck()`.

Abstractions: `transition()` is one step (its interleavings are the subject of
`OrderLifecycle`); answers without the broker's execution time change nothing in
the code and are left out; prices and P&L are left out, so the holds for missing
economics are part of "the convergence may fail"; cancel-replace of stale
acknowledgements is off by default and left out; the engine does not lose its
memory (a restart is not modelled here); a POST has an answer with an identity
(what becomes of a lost one is in `OrderLifecycle`); emergency exits and the
recovery of an exit that is stuck in flight, which pass `_can_submit_exit()` by an
override, are left out; positions that the engine rebuilt from
the broker alone (degraded owners), manual closes and the startup projection of
`ap/exit_fill_truth_guard.py` are left out, and so is
`_sync_exit_price`, which for an EXIT row only refreshes the dashboard's copy of
the price and writes neither the orders row nor the position.

`FillAccounting` is what remains of this for the owner of the position: a contract
is executed, then durable in the orders row, then applied to the position, in
this order and never back; an order is sent when the row of the one before is over;
what is over is not written; the application of the last contract closes the
position for good. The refinement mapping (`Account`) reads it off the detailed
state: sent and executed from `broker`, durable from `rows`, applied from `mark`,
over from the status of the row, closed from `position.status`.

| `ExitFill` | `FillAccounting` |
|---|---|
| `Post`, `Execute` | `Send`, `Execute` |
| `Commit` of a fill or an end | `Report`; a refused or repeated report is invisible |
| `Converge`, `Again`, `Heal` | `Apply`, or invisible when they hold or find nothing new |
| the other steps of a submission, everything in the engine's memory, the scale-out write, the precheck, reopening an exit | invisible |

So threads may overwrite each other's copies of the quantity (and with the precheck
on they do) without an order or an application of the contracts being affected.

### WatchedSignal

| State | Code |
|---|---|
| `setup` | the levels of a signal: side, trigger, stop, target, continuation zone, drift and reset levels |
| `watch` | the fields of `WatchedSignal` that `check()` reads and writes |
| `quote` | the arguments of the last `check()` |
| `past` | history: consecutive breaches, where a late watch first saw its price, resets observed in a row |

`Poll` is one call of `check()`: `Kept` (limits of time), `Gated` (the late-attachment
classifier), `Stale`, `Breached`, `Stopped` and `Withheld` are its parts in the
order of the code. `HandOver`, `Retry`, `Fail` and `Protect` are what `_poll_loop()`
and its callbacks do with a watch that has triggered. Prices are ranks on a ladder of six, with
0 for a side of the quote that is missing: only comparisons with the levels
matter. Age is the time since the last breach observation in polls, and may also
be negative, since the code takes it from the wall clock.

Left out: watches recovered with `__recovered_trigger_ready`, which are
dispatched without `check()`, `rearm_mode`, the revalidation of overnight
setups, the terminal convergence of deferred orders, and the persistence of the
trigger authority.

### OvernightReeval

| State | Code |
|---|---|
| `orders` | the setup's ENTRY orders; "owned" is every status in which the broker has the order or it is filled |
| `watched` | orders the entry watcher of this process holds |
| `ledger` | the `client_signal_opportunities` row: status by its rank, and the metadata keys `mode`, session and reattachment marker |
| `attempt`, `verdict` | where `run_overnight_reeval()` is, and how it counted the setup last |
| `lost`, `suppressed` | history: orders a restart left unwatched, orders marked ambiguous |

One action per read, write or decision: `Begin`, `ReadLedger`, `ReadActive`,
`ReadLatest` decide what became of the setup; `Admit`, `Create`,
`EnsurePending`, `Arm`, `Cleanup`, `NoteFailure` make a new order; `Reattach`,
`ReadFence`, `Rearm`, `Recheck`, `Suppress`, `ReadSuppression` attach a watcher to
an order that exists; `Prove`, `ReadProof`, `Clear`, `ReadCleared` write the proof
that it is armed and read it back. Every read and write may fail. Between any
two, `WatchEnds`, `Executes`, `Report`, `Restart` and `NextSession` may happen.
`Updated` is the ledger's write with its monotonic guard: a lower rank keeps the
status and merges the metadata all the same.

Left out: setups that come from `trade_queue`, the number and times of the
attempts, two runs that overlap, the marking of jobs at the end, and the
quotes and prior levels an admission looks at (`Admit` may decide either way).

### TradeQueue

| State | Code |
|---|---|
| `mode` | LIVE or PAPER, which decides whether the check may go on without a database |
| `queue` | rows of `trade_queue`: status, what the last mark said, whether `started_ts` is older than the limit, whether recovery reset it |
| `signal` | the `ap_signals` rows, with the job a deferral wrote into them |
| `order`, `watched` | ENTRY orders; which process's watcher holds which |
| `worker` | each process: its next statement, job, order, and what it will report |
| `latest`, `restarts`, `doubtful` | the newest job of a signal; a bound; history |

`Enqueue`, `Ages`, `Claim` are `enqueue_signal()`, the clock and the claim with its
reclaim of stale rows. `TurnedAway`, `Evaluate`, `EvaluateBlind`, `PlanRefused`,
`Create`, `LogQueued`, `Arm`, `Watch`, `Submit` are `_dispatch()`; `Marked`,
`MarkFailed`, `LogRejection` its end. `ReadSignal` to `Compensate` are
`_persist_watching_deferral()`. `Restart` kills a process with its watches,
`Reset` and `Rearm` are recovery. `WatchEnds`, `Watchdog`, `BrokerEnds` are what
happens to an order meanwhile.

The code counts on three things it does not enforce, and `OneLiveEntry` and
`DeferredIsFound` are claimed where they hold. `doubtful` records the signals
for which one failed: a dispatch took longer than `PROCESSING_STALE_SECS`
("stall"), the duplicate check went on without a database, which PAPER allows
("blind"), or a statement was committed and the caller was told it failed
("lost"). `Lapses` says which may happen in an instance; the theorems hold for
every choice.

Left out: the bodies of the gates and the choice of contracts (each may refuse),
the cache of recent setups in master control, the readiness transitions of
WATCHING jobs, and releases by an operator.

### DeferredEntry

| State | Code |
|---|---|
| `row` | what the fences of the UPDATEs read of the row: status, `lifecycle_state`, generation, attempt, owner and lease of the materialization, submit intent, `current_owner`, watcher token, `recovery_ownership`, submit claim and its lease, proof retries |
| `th` | per process the watcher's callback and the recovery pass: where it is, the claim or the loaded row it believes in |
| `watching` | processes whose entry watcher holds the order |
| `broker` | the order at the broker (external), and how often it was sent |

`Fire` and `ClaimForTrigger` are `_claim_deferred_materialization_for_trigger()`;
`Retry` and `ClaimForRetry` its counterpart for a due retry. `Schedule`, `Rearm`,
`CopyBack`, `Fail`, `Report`, `Unproven`, `Terminalize`, `Submit`, `Intend`, `Prove`, `Post`,
`Record` are what the callback does under its claim. `Scan` loads a row for
`_recover_deferred_breach_lifecycles()`, and `Overdue` to `Unwatchable` act on what
was loaded, which may be long ago. `Write` is a compare-and-set whose answer may
be lost: `run_with_retry()` repeats a statement that was committed, which then
misses its own write. `Crash` kills both threads of a process.

Abstractions: the three mirrors of the attempt are one number, since every
statement of the module writes or compares them together; the generation of the
watcher token is left out (a pending row without an owner has none); adoption
reads and writes in one step; the age of a row is a choice of each pass;
`retain_rearm_watcher_required_recovery_ownership()` writes what the row already
holds. Left out: the choice of the contract and the risk gates (each may
refuse), the selector's cursor, the hydration result.

`DeferredTerms` is what remains of this for the order: a worker begins a term by
taking the next number; only workers of the present term release the order, make it
ready, doubt it, or decide to submit it; after this decision no term begins, and
who decided sends the order once or not at all. The term is the row's generation,
the stage is read off status, `lifecycle_state` and lease, and a thread works under
the generation it holds as long as it believes in a claim (`Works`).

| `DeferredEntry` | `DeferredTerms` |
|---|---|
| `ClaimForTrigger`, `ClaimForRetry`, `ClaimProof` | `Begin` |
| `LapseLease` | `Lapse` |
| `ClaimSubmit` | `Join` |
| `Schedule`, `Rearm`; `CopyBack` | `Release`; `Offer` |
| `Unproven`, `Defer`; `Intend` | `Doubt`; `Decide` |
| `Post`, `Record`, `Reconcile`, every terminalization | `Send`, `Accept`, `End` |
| `Crash`, a proof of the intent that fails, a write that misses | `Stop`, `Withhold` |
| `Scan` and what recovery does with ownership, adoptions, the watches | invisible, or `Stop` |

A term has no lease, no name and no fence: a stale worker's write that a fence lets
through shows as a step the terms do not allow, unless it ends the order, which they
allow anyone.

### EntryFill

| State | Code |
|---|---|
| `broker` | the order and the holding at the broker (external): executed, canceled, sold |
| `order` | `status` and `position_id` of the ENTRY row |
| `rows` | the `positions` rows of the contract: status, whether they carry the order's ids, signal, plan, contracts left, and by which INSERT they came (history) |
| `thread` | what the fill monitor, the reconciler's loop and its repair at start are about to do |
| `lineage` | whether `recover_lineage()` finds the order's own signal or the one a REEVAL id stands for |
| `reopened` | history: the repair wrote on a row that had changed |

| Action | Code |
|---|---|
| `Select`, `Insert`, `OpenFails` | `open_position()`: the look-up under the advisory lock (`Unlocked`, `SameKey`), the INSERT whose answer may be lost, an exception |
| `Load`, `Advance`, `End`, `Link`, `Bind` | `process_pending_order()` and `_reconcile_orders()` on a filled or canceled order; `_bind_filled_entry_durable_identity()` |
| `List`, `Import`, `Name`, `Fallback` | `_reconcile_positions()`, the import of a position the database lacks, `_backfill_position_order_identity()`, the INSERT used when `open_position()` raised |
| `Orphan`, `Direct`, `Patch` | `_backfill_missing_position_links()`: link or create, its own INSERT, its UPDATE of the new row |
| `Fail`, `Restart` | an exception at any statement; the death of the process, after which the repair runs first (`Running`) |
| `Execute`, `Cancel`, `Exit` | the broker; a sale with its report, which `ExitFill` takes apart |

Abstractions: one order and one contract; a sale and its report are one step.
Left out: sales by hand, the exit engine's own memory of the row, the status an
ENTRY row has while it is partly filled (no position is opened for it), the
quarantine of expired contracts. A row missing at the broker is only reported by
the code.

### SignalPair

`pair` is the entry of `SignalPairManager._pairs` for one ticker and day, `orders`
and `broker` the ENTRY rows of the sides and their orders, `pc` and `job` the fill
monitor between `on_fill()` and `open_position()`. `Register` and `Create` are two
stages of `_dispatch()`, `OnFill` to `CancelRow` the statements of
`_cancel_pair_opposite()`. Identities are tagged with what made them, since signals
and rows get theirs independently. `is_canceled()` and `cleanup_old_pairs()` have
no caller; days do not change.

## What is checked

| Run | Instance | Shows |
|---|---|---|
| `OrderLifecycle` | 1 row, ENTRY or EXIT, 2 workers, 2 identities, 3 contracts, fairness (1,324,006 states) | `TypeOK`, `ToldIdentityDurable`, `SubmittedOnce`, `FollowsTable`, `IdentityWriteOnce`, `FenceHolds`, `StatusChangeKeepsFill`, `KeepsPromise`, `FlaggedUntilResolvedOrEnded` |
| `ExitFill_whole` | 2 orders, each for all of 3 contracts, precheck on (3,006,986, with symmetry) | `TypeOK`, `AppliedWereExecuted`, `ClosedOnlyWhenFlat`, `ClosedIsFinal`, `OnlyScaleOutUnderstates`, `KeepsAccounts` |
| `ExitFill_scale_out` | 1 order for 3 of 4 contracts, fairness (33,280) | `CountedOnceUnlessMarked`, `FillReachesPosition` |
| `WatchedSignal` | a call, a long put, a put without stop; 6 prices (93,026) | `TypeOK`, `FiresOnProof`, `LateMoveNotChased`, `CrossingIsConfirmed`, `StopIsLive` |
| `OvernightReeval` | 2 orders (24,128) | `TypeOK`, `OneEntryEver`, `SettledIsCovered`, `DoneIsCovered` |
| `TradeQueue` | 2 processes, 1 signal with 2 jobs, 2 orders, 1 restart, no lapse (672,037) | `TypeOK`, `OneLiveEntry`, `DeferredIsFound` |
| `DeferredEntry` | 2 processes, 2 attempts, 2 proof retries, generations up to 3 (2,930,568, with symmetry) | `TypeOK`, `OneSubmission`, `GenerationHasOneOwner`, `NoDualAuthority`, `StaleWorkersWriteNothing`, `IntentIsFinal` |
| `TradeQueue_fair` | 2 processes, 1 job, 1 order, every lapse, fairness (283,590) | `JobsAreDispatched` |
| `EntryFill` | an order for 2 contracts, 2 rows, 1 restart, fairness (649,922) | `TypeOK`, `OneFillRow`, `NeverOverclaims`, `HeldIsTracked` |
| `ExitFill_counted_twice`, `ExitFill_dropped_delta`, `SignalPair` | expected to fail | `CountedOnce`; `EndedAfterConvergence`; `OtherSideInvalidated` (see below) |

Bounds. Rows never influence one another in `OrderLifecycle`, so one row is
enough; two workers give every race between a read and a write, and the proofs
cover any number. Two identities are what a race of identities needs. Three
contracts allow two different partial fills and a full one. In `ExitFill` an
order for several contracts allows partial fills, a second order allows an order
after a canceled or a completed one (where both ask for everything they are
interchangeable, and the run uses it); one order is enough for what the engine counts
of it between the POST and the mark, and three of four contracts for a scale-out
with two different partial fills before it is complete; the precheck is off (`PositionSource =
FALSE`, a broker object that cannot list positions) where it is already known to
break the property, see below. Six prices put a rank on, before and between the
levels of a setup. Two orders let `OvernightReeval` try to create a second one.
Two processes, two jobs and two orders are what a second live entry of a signal
needs, and one restart a death between any two statements. In `DeferredEntry` two
processes give two watchers and two recoveries with one owner name, and three
generations a claim, its successor and one more while the first worker is
still at work. In `EntryFill` two contracts give a partial fill and a
partial sale, two rows a second row for one fill, and one restart
the repair next to what the dead process left. Apart from `MaxRestarts`, `MaxGen` and `Ids` no action carries a bound of its own: contracts, orders and the
single submission per row make the state space finite.

Deadlock is not checked: when all rows have ended and nothing is flagged, all
orders are over, the watch has ended or all jobs are marked, there is nothing
left to do.

Fairness. A call that was begun runs to its end (`WF` of `Continue`: threads are
daemons that the runner restarts, and every call has a timeout). The reconciler
and the heal are loops that select every open flagged row, respectively every
durable fill of a position with contracts left, in every pass, so a row that is
selectable again and again is eventually handled (`SF`). Strong fairness is
needed because in the model the thread that would do it may be busy with
something else each time; in the code the reconciler has its own thread. Nothing
is assumed of the broker or of the other callers. In `TradeQueue` time passes
(`WF` of `Ages`), a process goes on with what it is about to do (`WF` of `Work`:
`worker_loop()` has no way out), and a statement that ends a job, asked again
and again, succeeds in the end (`SF` of `Ends`: every reclaim dispatches the job
again, and `run_with_retry()` stands behind each mark). The database may fail
any finite number of times. In `EntryFill` the reconciler's thread goes round
(`WF` of `Pass`), a transaction ends one way or the other (`WF` of `Insert` or
`OpenFails`), and, since every pass tries again, a listing, a look-up and an INSERT
of the reconciler that are possible again and again succeed in the end (`SF`).

### Where the code and its comments disagree

Three runs are expected to fail. Each states what a comment of the repository says and
shows a shortest way it is not kept; `PROJECT.json` quotes the lines.

- `ExitFill_counted_twice` (`CountedOnce`): one order is sent, and
  `set_pending_exit_order()` does not reach the engine. A partial fill is noted
  before the callback returns: `note_partial_exit_fill()` accepts it, because no
  exit is pending, and leaves the generation alone, because nothing is closed.
  `_mark_exit_submitted()` then forgets it (`ap_exit_engine.py:6112`), and the next
  cumulative report subtracts the same contracts again. The engine believes it
  holds less than the account does, and when the scale-out completes the write after
  it puts that into `positions.quantity_remaining`. The hook narrows the window
  without closing it: it marks the order in flight, which makes `MarkSubmitted` do
  nothing, but it runs only after the order is at the broker, its failure is
  swallowed, and an end or a completed fill that is noted before the callback
  returns takes the mark away again.
- `ExitFill_dropped_delta` (`EndedAfterConvergence`): after a hold, the next poll
  ends the order without converging it.
- `SignalPair` (`OtherSideInvalidated`): the queue registers the sides of a 1-1
  setup under the identity of the signal, and the fill monitor looks for a row with
  that local order id. There is none, so the other side is never canceled. Were the
  row found, the cancel would still be skipped while the side waits for its trigger.
  The actions behind the look-up are in the module and cannot be reached.

This, and more consequences of the code that have no run of their own, limit the
passing runs, and the limits are part of what is claimed:

- Two reports of a partial fill read one row and keep its status, so both meet
  the guard, and the slower one may write the smaller cumulative fill, although
  the comment at `ap/order_state_machine.py:1270` calls this update "safe here
  too". `StatusChangeKeepsFill` is about changes of status.
- A cleanup that read SUBMITTED is not fenced (`ap/order_state_machine.py:1282`)
  and cancels a row the broker holds an order for. `FenceHolds` is about rows
  that are pending when `transition()` reads them.
- A refused transition overwrites `last_error` (`ap/order_state_machine.py:7973`),
  which is all that `get_split_brain_orders()` looks at: a quarantined row
  disappears from the query that keeps the runner degraded
  (`client_runner.py:1245`). `FlaggedUntilResolvedOrEnded` relies on the other query.
- The watermark belongs to an order (`ap/position_manager.py:1369`): the second
  EXIT order of a partly closed position holds for ever, so `FillReachesPosition`
  is claimed for one order.
- `partially_filled` counts as filled in the stale-acknowledgement pass
  (`ap_reconciler.py:937`): a working order becomes EXIT_FILLED.
- With the precheck on (`PositionSource = TRUE` in `ExitFill_scale_out.cfg`)
  `FillReachesPosition` fails for one order too: the precheck writes the account's quantity before the
  fill is converged, and the convergence then holds for ever.
  `CountedOnceUnlessMarked` fails as well: the precheck lowers the engine's copy
  and `note_partial_exit_fill()` subtracts the same contracts again. A live broker
  lists positions, so this property is only about engines whose broker object has no
  `list_positions()` (`ap_exit_engine.py:10008-10015`). `OnlyScaleOutUnderstates`, `KeepsAccounts`,
  `ClosedIsFinal` and `ClosedOnlyWhenFlat` hold with it.
- What the engine has counted is therefore no bound on what the account holds:
  `CountedOnceUnlessMarked` ends with the first submission that is marked after its
  callback (`NoneMarked`; a submission whose hook reached the engine is not), which
  includes the reports of an earlier order that are still under way when the
  next one is marked, and `OnlyScaleOutUnderstates` excepts the write after a
  scale-out. What that write cannot do is in `ClosedIsFinal`.
- A submission whose hook did reach the engine is not marked, because the exit is
  then in flight (`ap_exit_engine.py:12252`), and only the mark stores the action: a
  scale-out sent that way fills without being counted in `scale_outs_done`
  (`ap_exit_engine.py:6004-6018`) or written back.
- The guard marks an active row as owned instead of sending an order, too, when
  it finds one although no exit is in flight
  (`ap/exit_decision_idempotency_guard.py:1753`, `:1903`). No state of the instances
  has such a row: what clears the flight comes after the end of its order. Only the
  marking after a call (`Own`) is an action of the model.
- `FlaggedUntilResolvedOrEnded` stops at the end of the row. An ended row keeps
  its `SPLIT_BRAIN:` marker, and `get_split_brain_orders()` returns it for ever.
- `FenceHolds` is about ENTRY rows. The guards of `submit_exit()` (`ExitGuard`)
  may cancel an EXIT row while another caller is submitting it;
  `SubmittedOnce` still holds.
- The late gate of a watch that was recovered with its crossing returns before
  the stop is looked at when the trigger side of the quote is missing
  (`ap_entry_watcher.py:1185`), although the comment at line 1416 says that after
  the crossing "the stop must stay live for the remainder of the pending-entry lifecycle". `StopIsLive` names this exception.
- The ambiguity marker written after a failed reattachment whose order could
  not be read leaves the row's reattachment flag as it is
  (`ap_overnight_reeval.py:1051`): the next attempt may go on reattaching,
  although the comments at lines 2452 and 2471 say it classifies the setup
  ALREADY_TERMINAL. Either way the order may wait unwatched on purpose, so
  `SettledIsCovered` and `DoneIsCovered` count it as accounted for (history
  variable `suppressed`), as they do with what a restart lost (`lost`).
- The rejection of another job of a signal overwrites the row a deferral wrote
  (`ap/queue.py:2741`), although lines 1681-1683 say the two databases always
  tell the same story. `DeferredIsFound` is about the only job of a signal.
- A row that records an intent to submit may be ended without asking the broker:
  recovery ends rows older than 72 hours before it looks at the intent
  (`ap_recovery.py:2462`) and rows a resume function found past their time
  without comparing anything but the status (lines 2641 and 2711), and so does the
  watcher after three errors (`ap_entry_watcher.py:6818`). The comment at
  `ap_recovery.py:2479-2488` says recovery "never resubmits and never
  terminalizes" such a row. `IntentIsFinal` therefore allows an end.
- The same terminalizations may hit a row that another worker is materializing,
  since recovery acts on a row it loaded earlier and the watch's expiry reads
  before it writes; the invariant at `ap/pending_trigger_classifier.py:973`
  excludes it.
- The claim of a retry is lost with its worker: the row stays MATERIALIZING with
  an attempt above zero, a claim without an attempt wants zero, the resume and
  the adoption want RETRY_WAIT, and recovery may not retain a row that has an
  owner, although the comment at `ap_recovery.py:2988` counts on it.
- A callback may take a row back for a proof retry while another process holds
  the claim of its submission: `persist_pre_submit_proof_retry()` does not look at
  `recovery_submit_owner` and leaves it in the row. `StaleWorkersWriteNothing` is
  about generations, and both work in the same one.
- An order that a dispatch created before it died counts as an active path of its
  signal (`ap_master_control.py:2147`): the job, reclaimed, is rejected as a
  duplicate of its own order, which nobody watches until recovery rearms it.
- `OneFillRow` is about INSERTs under the order's ids. The lock of an import whose
  entry is not proven is on its plan, that of the fill on the ids: each may find
  nothing and insert, although the comment at `ap/position_manager.py:2904` says
  the lock "closes the read-before-insert race". For the same reason a REEVAL signal
  can end with two OPEN rows.
- The account is listed before the rows are read, and an import is over once its
  plan has a row: a row made of a listing in the middle of a fill carries fewer
  contracts than the account then holds (`PartImported` in `HeldIsTracked`).
- `list_positions()` answers an error with an empty list
  (`ap/brokers/tradier.py:470`). The repair at start then makes a row
  CLOSED_REPAIR with the order's ids, which stops every later import of the
  contracts (`ClosedByRepair`), although `ap_reconciler.py:10-16` says that they must
  never be ignored. A CLOSED row of the same plan does it too.
- The UPDATE of the repair (`ap_reconciler.py:2793-2806`) compares nothing: it may
  reopen a row that was sold meanwhile (`reopened` in `NeverOverclaims`).
- The INSERTs outside `open_position()` (`ap_reconciler.py:2749`, `3981`) look
  at no ids and take another lock or none; `NeverOverclaims` is about
  accounts without such rows (`OnlyFills`).
- `_find_db_position_by_contract()` looks at no order ids: the second ENTRY order
  of a contract is linked to the position of the first.

## What is proved

`tlapm` checks the proofs of the eight proof modules. They assume only the named
assumptions on constants (`BrokerAssumption`, `QtyAssumption`,
`OrdersAssumption`, `ExitOrdersAssumption`, `PositionQtyAssumption`,
`AskedAssumption`, `PositionSourceAssumption`, `SetupsAssumption`,
`BoundsAssumption`, `MaxOrdersAssumption`, `QueueAssumption`,
`ProcessesAssumption`, `FillAssumption`) and hold for any
number of rows, workers, orders, identities, contracts, prices, signals, jobs and
processes.

`OrderLifecycleProofs`

- `TypeCorrect`: `Spec => []TypeOK`.
- `CheckedBeforeUpdate`: a worker at its UPDATE read a row on which the request
  is legal. With the guard `status = <status read>` this makes the transition
  table an invariant of the *rows*: `RowsFollowTable`.
- `IdentityIsWrittenOnce`: from the identity part of every guard; then
  `ToldIsDurable`, since what a call was told can no longer change.
- `RowsAreSubmittedOnce`: needs that at most one attempt is under way between
  the intent and the POST, and none once the row was sent (`OneAttempt`).
- `CleanupIsFenced`: needs that only entries wait for a trigger
  (`OnlyEntriesWait`) and that cleanup requests carry no identity, so that the
  fence is really part of the guard they meet.
- `StatusChangesKeepFills`: needs that a request for a fill status carries a
  quantity (`QuantifiedReports`) and that a row that waits has no fill
  (`FillsComeLate`); a status change meets the row as it was read *in status*,
  and a row's fill can only have changed without a change of status when it is
  partial.

`OrderPromiseProofs`

- `LifecycleKeepsPromise`: `Spec => KeepsPromise`, the refinement by step simulation.
  `OneAtATime` says that a step writes one row or one of the broker's counters, and
  `RowMoves` that a written row is a `Move` or looks the same. Beyond the invariants
  above it needs `AllBacked`: a request in a worker's hands, and so the row it will be
  written to, says no more than the broker has said (`Backed`, `Shows`), and
  a worker about to quarantine a row has an identity (`FlagsNamed`).

`ExitFillProofs`

- `TypeCorrect`: `Spec => []TypeOK`, which includes that no quantity leaves
  `0..PositionQty`.
- `OnlyExecutedReported`: the inductive invariant `Executed`. It adds to
  `AppliedWereExecuted` that every quantity a thread carries was executed and
  that the account and what an order executed fit into the position.
- `AppliedIsExecuted` and `ClosedIsFlat` follow; the latter because a position
  is only closed when its remainder is proven equal to what the order did not
  apply.
- `PositionIsShared`: the orders of a position execute disjoint parts of it
  (`Disjoint`), a closed position was applied as a whole by one order
  (`ClosedByOne`), a note to the engine tells only what was applied
  (`NotesApplied`), and a scale-out is for a part and written back when that part is
  applied (`ScaleIsPart`, `PersistsPart`). `ClosedStaysClosed` follows: once an order
  applied everything, no other executed anything, so nothing is left to converge,
  and no scale-out write can be pending.
- `RowCoversAccount`: `Spec => OnlyScaleOutUnderstates`, with the precheck and at any
  point of a submission. A convergence leaves what the order did not apply, which is
  no less than the account holds (`Executed`), and a precheck writes what the
  account held earlier, which is no less than it holds now (`SightIsFresh`).
  `WholeExitsKeepCover` is the invariant for orders that ask for the whole
  position: then nothing scales out (`ScaleIsPart`, `PersistsPart`), and the row
  covers the account always.
- `CountsOnceUnlessMarked`: `Spec => []CountedOnceUnlessMarked` for any orders, where
  the broker object cannot list positions (`~PositionSource`; with it the property
  is false, see above). The invariant (`CountInv`) is that while no submission was
  marked one order at most was ever applied (`OneApplied`), that what the engine
  holds and what it counted of that order are together the whole position, and that
  a call under way carries what was executed of it (`EngineCounts`), that a report
  of a complete fill means a flat account (`FullIsFlat`), and that only a closing has
  moved the generation (`ClosedCounts`).
- `ExitsKeepAccounts`: `Spec => KeepsAccounts`, with or without the precheck, by step
  simulation; an order is sent by `Post`, and the commit of EXIT_SUBMITTED behind it
  cannot be seen. It needs that a row with a fill or a live status belongs to an order
  the broker has (`RowsOfSent`), that a thread's call for an order does too
  (`CallsForSent`), and that while an order is being sent no other is live
  (`SendsOne`). `CallSteps` and `RowSteps` reduce the actions to what they may do
  to calls and rows; one lemma per visible action gives its abstract step.

`WatchedSignalProofs`

- `TypeCorrect`, and per part of `check()` a lemma on the fields it may change.
- `FiringIsProven` and `StopEndsTheWatch` follow from one poll: a trigger is
  reported only behind the checks of that same poll.
- `LateMovesAreNotChased` needs `LateInv`, which ties the gate state and its two
  counters to what was really observed of the price (`past`).
- `CrossingsAreConfirmed` needs `CountInv`: the breach counter never exceeds the
  true run of consecutive fresh observations, and its age is never younger than
  the truth, also when the clock turns back.

`OvernightReevalProofs`

- `TypeCorrect` and `EntryIsUnique`, from `Single`: while there is an order, no
  attempt is at a step that leads to creating one; a step that could not read
  decides nothing.
- `SettledRowsAreCovered` and `DoneAttemptsAreCovered`, from `CoverInv`: it adds
  that a ledger row has no mode key, without which it settles nothing, before
  there is an order and while one is being created (`ModeKnown`) and that an attempt that is about to answer has the order at
  hand or ended (`AtHand`), with the fence written before a reattachment.

`TradeQueueProofs`

- `TypeCorrect`, from `Sorted`, which adds what a process at each step carries.
- `OneLiveEntryPerSignal`, from `EntryInv`: a job whose claim is not stale has
  one holder and is PROCESSING (`Holding`), and while one process is between the duplicate
  check and the INSERT there is no live order of the signal and no other process
  is there for it (`NoRival`). This is what makes a check far from its INSERT safe.
- `DeferralsAreFound`, from `RowInv`: who may still write the signal row of a
  deferred job (`Rejecting`), and what the row holds before the job is marked
  (`Founded`).

`DeferredEntryProofs` (every property of its run)

- `Typed`, then `RowInv`, an invariant of the row alone: every action is one of
  three kinds of UPDATE (`EndsRow`, `ClaimsRow`, `RewritesRow`), and each keeps that a
  row past its trigger is not recovery's and that an intent holds the row in
  SUBMITTING. `AuthorityIsSingle` and `IntentStays` follow.
- `ThreadStep` reduces the actions to what a step may make of a thread
  (`MovesAlone`); the other invariants need only that and `RowGoesOn`.
- `SubmissionIsSingle` and `TypeCorrect` from `SubmitInv`: who stands before the
  POST is one thread, its intent is in the row and nothing was sent yet.
- `GenerationsAreOwned` from `GenInv`: a claimant's generation never exceeds the
  row's, and a claim takes the next one.
- `StaleWritesMiss` from `ReadyInv`: between copyback and intent no other worker can
  take the row, so the generation `submit_existing_entry()` reads is the claim's
  own. Without it the fence of the intent would not fence a stale worker.
- `EntriesKeepTerms`: `Spec => KeepsTerms`, by step simulation from all of these.
  `Going` and `SendersStay` turn what a step makes of one thread into what it makes of
  the workers, `Stages` turns the stage into facts about the row, one lemma per
  abstract step gives its conditions and one per group of actions meets them.

`EntryFillProofs` (every safety property of its run)

- `TypeCorrect`, which includes that sales and imports stay within the order.
- `FillRowIsUnique` from `FillInv`: at most one thread stands before the INSERT of
  a row with the order's ids (`OneClaim`, which is the lock), then there is no such
  row yet (`NothingMade`), and such a row keeps its ids whatever becomes of it
  (`FillNamed`), so the look-up finds it.
- `ClaimsAreCovered` from `Covered`, with `Duties` on what threads carry: who knows the
  order's ids knows that it is filled, an import carries no more than was executed,
  the repair all or nothing.

Every safety property of a passing run has its theorem. Model-checked only: the
liveness properties `FlaggedUntilResolvedOrEnded`, `FillReachesPosition`,
`JobsAreDispatched` and `HeldIsTracked`, since liveness under fairness is out of the
proof system's reach. `KeepsTerms` is the one proved property no run checks: with it
the run of `DeferredEntry` takes twice as long, too long for every check; TLC found no
violation of it on that run's instance. The runs expected to fail prove nothing beyond their instances.

## Not modelled, and the plan

What is left out of a modelled component is listed with its module above, and
`PROJECT.json` gives the reason for each component that has no module. Market data heuristics
(contract selection, scoring), HTTP adapters, the connection pool and DDL, the
web application, reports and learning keep no state that orders or positions
depend on, or are I/O whose statements appear as atomic steps. The rest is work
to do, in this order; each step names its module, its runs and its theorem.

1. `EntryFill`: a second order of the contract, a partly filled ENTRY that is
   canceled, and its composition with `ExitFill`.
2. `Repeg`: `apply_repeg()` and `post_cancel_retry` against the guarded writers
   of `OrderLifecycle`; crash between cancel, CREATED, POST and write-back.
3. `DeferredEntry`: the selector's cursor and the hydration result; a fair
   specification, under which a first claim is made again when its worker dies.
4. `HandoffLock` and `SafetyCircuit`: owner tokens, staleness, failing open;
   window and clearing. Theorem: a completed run is never run again.
5. `EntryGate`: the exposure caps' check of open positions against fills that
   have not opened one yet.

## Running

    tlc -workers 2 -config OrderLifecycle.cfg OrderLifecycle
    tlc -workers 2 -config ExitFill_whole.cfg MCExitFill
    tlc -workers 2 -config OvernightReeval.cfg OvernightReeval
    tlc -workers 2 -config TradeQueue_fair.cfg TradeQueue
    tlc -workers 2 -config EntryFill.cfg EntryFill
    tlapm TradeQueueProofs.tla

Operators introduced as a *mutant* of another (`UpdateIgnoresFence`,
`DeltaCumulative`, ...) are that definition with a plausible bug; replacing the
definition by its mutant makes the property named in `PROJECT.json` fail.
