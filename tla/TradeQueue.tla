----------------------------- MODULE TradeQueue -----------------------------
(***************************************************************************)
(* The trade queue of one client: src/ap/queue.py from enqueue_signal() to *)
(* the last _mark_job() of _dispatch(), with the durable duplicate check   *)
(* of src/ap_master_control.py and what src/ap_recovery.py does with the   *)
(* queue at start.                                                         *)
(*                                                                         *)
(* Several processes claim jobs.  A job that was PROCESSING for too long   *)
(* is claimed again, whatever became of its worker.  A dispatch refuses    *)
(* the job, creates its ENTRY order and arms or submits it, or defers it:  *)
(* the deferral writes the ap_signals row in one database and the job in   *)
(* another.  Every statement may fail, a failed statement may have been    *)
(* committed, and a process may die between any two.                       *)
(***************************************************************************)
EXTENDS Naturals, FiniteSets

CONSTANTS
    Workers,      \* processes that run worker_loop() for the client
    Signals,
    Keys,         \* spellings of the idempotency key, one by each caller
    Orders,       \* local ids create_entry_order() can hand out
    NoJob, NoOrder,
    Lapses,       \* which of "stall", "blind", "lost" may happen, see doubtful
    MaxRestarts   \* bound on the restarts of processes

ASSUME QueueAssumption ==
    /\ NoOrder \notin Orders
    /\ NoJob \notin Signals \X Keys
    /\ MaxRestarts \in Nat

Jobs == Signals \X Keys    \* rows of trade_queue: a second INSERT of a key does nothing
SignalOf(j) == j[1]

VARIABLES
    mode,        \* "LIVE" or "PAPER", fixed for the client
    queue,       \* the trade_queue rows
    signal,      \* the ap_signals rows
    order,       \* the ENTRY orders
    watched,     \* <<w, o>>: the entry watcher of process w holds order o
    worker,      \* what each process is about to do
    latest,      \* the signal's newest job
    restarts,    \* restarts so far (bound)
    doubtful     \* signals one of whose dispatches outlived its claim ("stall"),
                 \* went on without reading the database ("blind"), or was not
                 \* told of a commit ("lost") (history)

vars == <<mode, queue, signal, order, watched, worker, latest, restarts, doubtful>>

-----------------------------------------------------------------------------
Waiting == {"NEW", "PROCESSING"}
ActiveJobs == Waiting \cup {"WATCHING"}
JobStatuses == ActiveJobs \cup {"none", "REJECTED", "ERROR", "SUBMITTED"}
\* What _mark_job() is told, apart from "deferred" and "none".  Only "refused"
\* and "duplicate" are followed by _log_rejection_to_db().
Rejections == {"duplicate", "refused", "dropped"}
Logged == {"duplicate", "refused"}
Outcomes == Rejections \cup {"none", "failed", "armed", "submitted", "deferred"}
Job == [status : JobStatuses, why : Outcomes, stale : BOOLEAN, rescued : BOOLEAN]

SignalStatuses == {"none", "received", "WATCHING", "queued", "rejected", "ERROR"}
SignalRow == [status : SignalStatuses, job : Jobs \cup {NoJob}]

Unsubmitted == {"CREATED", "PENDING_TRIGGER"}
Live == Unsubmitted \cup {"SUBMITTED", "FILLED"}
OrderStatuses == Live \cup {"none", "ended"}
EntryOrder == [status : OrderStatuses, signal : Signals]

Deferring == {"read", "write", "reread", "failCas", "watchCas", "revert"}
Dispatching == {"check", "plan", "log", "arm", "watch", "submit", "mark"} \cup Deferring
Steps == Dispatching \cup {"idle", "logRejection", "reset", "rearm"}
Process == [pc : Steps, job : Jobs \cup {NoJob}, order : Orders \cup {NoOrder},
            next : Outcomes, seen : SignalStatuses]
IdleAt(step) == [pc |-> step, job |-> NoJob, order |-> NoOrder,
                 next |-> "none", seen |-> "none"]

\* trade_queue.status for what a dispatch came to.
StatusFor == [why \in Outcomes |->
    CASE why \in Rejections -> "REJECTED"
      [] why = "failed" -> "ERROR"
      [] why = "submitted" -> "SUBMITTED"
      [] why \in {"armed", "deferred"} -> "WATCHING"
      [] why = "none" -> "none"]

-----------------------------------------------------------------------------
Init ==
    /\ mode \in {"LIVE", "PAPER"}
    /\ queue = [j \in Jobs |-> [status |-> "none", why |-> "none",
                                stale |-> FALSE, rescued |-> FALSE]]
    /\ signal \in [Signals -> [status : {"none", "received"}, job : {NoJob}]]
    /\ order \in [Orders -> [status : {"none"}, signal : Signals]]
    /\ watched = {}
    /\ worker = [w \in Workers |-> IdleAt("idle")]
    /\ latest = [s \in Signals |-> NoJob]
    /\ restarts = 0
    /\ doubtful = {}

JobOf(w) == worker[w].job
SignalFor(w) == SignalOf(JobOf(w))
At(w, step) == worker[w].pc = step
Go(w, step) == worker' = [worker EXCEPT ![w].pc = step]
Finish(w) == worker' = [worker EXCEPT ![w] = IdleAt("idle")]
MarkNext(w, why) == worker' = [worker EXCEPT ![w].pc = "mark", ![w].next = why]
SetOrder(o, status) == order' = [order EXCEPT ![o].status = status]
Doubt(lapse, s) == lapse \in Lapses /\ doubtful' = doubtful \cup {s}

Held(j) == \E w \in Workers : JobOf(w) = j /\ worker[w].pc \in Dispatching

\* enqueue_signal(): INSERT ... ON CONFLICT (idempotency_key) DO NOTHING.
Enqueue(j) ==
    /\ queue[j].status = "none"
    /\ queue' = [queue EXCEPT ![j].status = "NEW"]
    /\ latest' = [latest EXCEPT ![SignalOf(j)] = j]
    /\ UNCHANGED <<mode, signal, order, watched, worker, restarts, doubtful>>

\* started_ts of a job becomes older than PROCESSING_STALE_SECS.
Ages(j) ==
    /\ queue[j].status = "PROCESSING" /\ ~queue[j].stale
    /\ queue' = [queue EXCEPT ![j].stale = TRUE]
    /\ IF Held(j) THEN Doubt("stall", SignalOf(j)) ELSE UNCHANGED doubtful
    /\ UNCHANGED <<mode, signal, order, watched, worker, latest, restarts>>

\* mutant: nothing returns a stale job to NEW.
NeverReclaimed == queue

\* The first statement of the claim returns stale jobs to NEW.
Reclaimed ==
    [j \in Jobs |->
        IF queue[j].status = "PROCESSING" /\ queue[j].stale
        THEN [queue[j] EXCEPT !.status = "NEW", !.stale = FALSE]
        ELSE queue[j]]

\* _claim_one_job(): both statements are one transaction, and SKIP LOCKED keeps
\* a second process from the same row.  Scores order the jobs arbitrarily.
Claim(w) ==
    /\ At(w, "idle")
    /\ \/ \E j \in Jobs :
             /\ Reclaimed[j].status = "NEW"
             /\ queue' = [Reclaimed EXCEPT ![j].status = "PROCESSING"]
             /\ worker' = [worker EXCEPT ![w].pc = "check", ![w].job = j]
       \/ /\ \A j \in Jobs : Reclaimed[j].status # "NEW"
          /\ queue' = Reclaimed
          /\ UNCHANGED worker
    /\ UNCHANGED <<mode, signal, order, watched, latest, restarts, doubtful>>

-----------------------------------------------------------------------------
(* _dispatch(), up to the creation of the ENTRY order. *)

\* mutant: only jobs that wait or watch count, not those in dispatch.
OtherIdleJob(j) ==
    \E k \in Jobs \ {j} : SignalOf(k) = SignalOf(j) /\ queue[k].status \in {"NEW", "WATCHING"}

\* _has_durable_duplicate_signal(): another active job or a live ENTRY order.
LiveOrder(s) == \E o \in Orders : order[o].signal = s /\ order[o].status \in Live
OtherActiveJob(j) ==
    \E k \in Jobs \ {j} : SignalOf(k) = SignalOf(j) /\ queue[k].status \in ActiveJobs
Duplicate(j) == OtherActiveJob(j) \/ LiveOrder(SignalOf(j))

\* The gates before evaluate(): mode, side, allowlist, restart guard, equity.
\* A PAPER job may be meant for the overnight re-evaluation alone.
TurnedAway(w) ==
    /\ At(w, "check")
    /\ \/ \E why \in {"refused", "dropped", "failed"} : MarkNext(w, why)
       \/ mode = "PAPER" /\ Go(w, "read")
    /\ UNCHANGED <<mode, queue, signal, order, watched, latest, restarts, doubtful>>

\* master_control.evaluate() with a database that answers.
Evaluate(w) ==
    /\ At(w, "check")
    /\ IF Duplicate(JobOf(w))
       THEN MarkNext(w, "duplicate")
       ELSE Go(w, "plan") \/ Go(w, "read") \/ MarkNext(w, "refused")
    /\ UNCHANGED <<mode, queue, signal, order, watched, latest, restarts, doubtful>>

\* ... and with one that does not: LIVE refuses, PAPER goes on.
EvaluateBlind(w) ==
    /\ At(w, "check")
    /\ \/ mode = "LIVE" /\ MarkNext(w, "refused") /\ UNCHANGED doubtful
       \/ mode = "PAPER" /\ Go(w, "plan") /\ Doubt("blind", SignalFor(w))
    /\ UNCHANGED <<mode, queue, signal, order, watched, latest, restarts>>

\* Contract selection, exposure, cutoff, authorization and preflight refuse the
\* job, or the session is over and it is deferred.
PlanRefused(w) ==
    /\ At(w, "plan")
    /\ Go(w, "read") \/ \E why \in {"refused", "dropped", "failed"} : MarkNext(w, why)
    /\ UNCHANGED <<mode, queue, signal, order, watched, latest, restarts, doubtful>>

\* create_entry_order(): an exception may come after the INSERT.
Create(w) ==
    /\ At(w, "plan")
    /\ \E o \in Orders :
          /\ order[o].status = "none"
          /\ order' = [order EXCEPT ![o] = [status |-> "CREATED", signal |-> SignalFor(w)]]
          /\ \/ worker' = [worker EXCEPT ![w].pc = "log", ![w].order = o]
             \/ MarkNext(w, "failed")
    /\ UNCHANGED <<mode, queue, signal, watched, latest, restarts, doubtful>>

\* _log_signal_to_db("queued"), an upsert whose failure is ignored.  Only a
\* PAPER job that recovery returned to NEW is submitted without a breach.
LogQueued(w) ==
    /\ At(w, "log")
    /\ \/ signal' = [signal EXCEPT ![SignalFor(w)] = [status |-> "queued", job |-> NoJob]]
       \/ UNCHANGED signal
    /\ \/ Go(w, "arm")
       \/ mode = "PAPER" /\ queue[JobOf(w)].rescued /\ Go(w, "submit")
    /\ UNCHANGED <<mode, queue, order, watched, latest, restarts, doubtful>>

-----------------------------------------------------------------------------
(* _dispatch(), with the ENTRY order in hand. *)

\* expire_pending_entry(), cancel_pending_entry(): may fail, spare a submission.
CleanUp(o) ==
    \/ order[o].status \in Unsubmitted /\ SetOrder(o, "ended")
    \/ UNCHANGED order

Arm(w) ==
    /\ At(w, "arm")
    /\ LET o == worker[w].order IN
       \/ /\ order[o].status = "CREATED"
          /\ SetOrder(o, "PENDING_TRIGGER")
          /\ Go(w, "watch")
       \/ CleanUp(o) /\ MarkNext(w, "failed")
    /\ UNCHANGED <<mode, queue, signal, watched, latest, restarts, doubtful>>

\* The watcher of a process holds one signal once (_dedup_set).
WatchesSignal(w, s) == \E o \in Orders : <<w, o>> \in watched /\ order[o].signal = s

Watch(w) ==
    /\ At(w, "watch")
    /\ LET o == worker[w].order IN
       \/ /\ ~WatchesSignal(w, SignalFor(w))
          /\ watched' = watched \cup {<<w, o>>}
          /\ MarkNext(w, "armed")
          /\ UNCHANGED order
       \/ /\ CleanUp(o)
          /\ \E why \in {"dropped", "failed"} : MarkNext(w, why)
          /\ UNCHANGED watched
    /\ UNCHANGED <<mode, queue, signal, latest, restarts, doubtful>>

\* submit_existing_entry(); its own steps are those of OrderLifecycle.
Submit(w) ==
    /\ At(w, "submit")
    /\ LET o == worker[w].order IN
       \/ /\ order[o].status = "CREATED"
          /\ SetOrder(o, "SUBMITTED")
          /\ \E why \in {"submitted", "failed"} : MarkNext(w, why)
       \/ CleanUp(o) /\ MarkNext(w, "failed")
    /\ UNCHANGED <<mode, queue, signal, watched, latest, restarts, doubtful>>

\* mutant: the reason is written into trade_queue.status.
MarkedWithReason(j, why) == [queue EXCEPT ![j].status = why]

\* _mark_job() is unconditional.
MarkedJob(j, why) ==
    [queue EXCEPT ![j] = [status |-> StatusFor[why], why |-> why, stale |-> FALSE,
                          rescued |-> queue[j].rescued]]

Marked(w) ==
    /\ At(w, "mark")
    /\ queue' = MarkedJob(JobOf(w), worker[w].next)
    /\ IF worker[w].next \in Logged THEN Go(w, "logRejection") ELSE Finish(w)
    /\ UNCHANGED <<mode, signal, order, watched, latest, restarts, doubtful>>

\* An exception of _mark_job() ends in _mark_job(ERROR), of an armed order with
\* the order expired first; a second one is swallowed by worker_loop().
MarkFailed(w) ==
    /\ At(w, "mark")
    /\ \/ UNCHANGED <<queue, doubtful>>
       \/ /\ queue' = MarkedJob(JobOf(w), worker[w].next)
          /\ Doubt("lost", SignalFor(w))
    /\ IF worker[w].next = "armed" THEN CleanUp(worker[w].order) ELSE UNCHANGED order
    /\ IF worker[w].next = "failed" THEN Finish(w) ELSE MarkNext(w, "failed")
    /\ UNCHANGED <<mode, signal, watched, latest, restarts>>

\* _log_rejection_to_db(): an upsert of the ap_signals row, failure ignored.
LogRejection(w) ==
    /\ At(w, "logRejection")
    /\ \/ signal' = [signal EXCEPT ![SignalFor(w)] = [status |-> "rejected", job |-> NoJob]]
       \/ UNCHANGED signal
    /\ Finish(w)
    /\ UNCHANGED <<mode, queue, order, watched, latest, restarts, doubtful>>

-----------------------------------------------------------------------------
(* _persist_watching_deferral() *)

\* mutant: a row that has advanced to "queued" passes for the job's own.
AdvancedIsOwn(w) == signal[SignalFor(w)].status \in {"WATCHING", "queued"}

\* _classify_existing_watching_identity(): the row is this job's own.
OwnRow(w) == signal[SignalFor(w)] = [status |-> "WATCHING", job |-> JobOf(w)]

\* _persist_watching_signal_if_eligible() reads the row: its own WATCHING row
\* is accepted, no row or "received" is written, the rest is a conflict or has
\* advanced, and like a failed read ends the job.
ReadSignal(w) ==
    /\ At(w, "read")
    /\ LET status == signal[SignalFor(w)].status IN
       \/ OwnRow(w) /\ Go(w, "watchCas")
       \/ /\ status \in {"none", "received"}
          /\ worker' = [worker EXCEPT ![w].pc = "write", ![w].seen = status]
       \/ Go(w, "failCas")
    /\ UNCHANGED <<mode, queue, signal, order, watched, latest, restarts, doubtful>>

\* UPDATE ... WHERE decision_status = what was read, or INSERT: either matches
\* only what was read.  The answer may be lost, before or after the commit.
WriteSignal(w) ==
    /\ At(w, "write")
    /\ LET s == SignalFor(w)
           Written == signal' = [signal EXCEPT ![s] = [status |-> "WATCHING", job |-> JobOf(w)]]
       IN  \/ /\ signal[s].status = worker[w].seen
              /\ Written
              /\ Go(w, "watchCas") \/ Go(w, "failCas")
           \/ signal[s].status # worker[w].seen /\ Go(w, "reread") /\ UNCHANGED signal
           \/ Go(w, "failCas") /\ UNCHANGED signal
    /\ UNCHANGED <<mode, queue, order, watched, latest, restarts, doubtful>>

\* _reread_and_classify(), after a write that matched no row.
RereadSignal(w) ==
    /\ At(w, "reread")
    /\ \/ OwnRow(w) /\ Go(w, "watchCas")
       \/ Go(w, "failCas")
    /\ UNCHANGED <<mode, queue, signal, order, watched, latest, restarts, doubtful>>

\* _checked_processing_error_cas(): PROCESSING to ERROR, nothing else.
ErrorCas(w) ==
    /\ At(w, "failCas")
    /\ queue' = IF queue[JobOf(w)].status = "PROCESSING"
                THEN MarkedJob(JobOf(w), "failed") ELSE queue
    /\ Finish(w)
    /\ UNCHANGED <<mode, signal, order, watched, latest, restarts, doubtful>>

ErrorCasFailed(w) ==
    /\ At(w, "failCas")
    /\ Finish(w)
    /\ UNCHANGED <<mode, queue, signal, order, watched, latest, restarts, doubtful>>

\* _checked_watching_cas(): PROCESSING to WATCHING; a row that is WATCHING is
\* success too, any other one starts the compensation.
WatchingCas(w) ==
    /\ At(w, "watchCas")
    /\ LET status == queue[JobOf(w)].status IN
       \/ /\ status = "PROCESSING"
          /\ queue' = MarkedJob(JobOf(w), "deferred")
          /\ Finish(w)
       \/ status = "WATCHING" /\ Finish(w) /\ UNCHANGED queue
       \/ status \notin {"PROCESSING", "WATCHING"} /\ Go(w, "revert") /\ UNCHANGED queue
    /\ UNCHANGED <<mode, signal, order, watched, latest, restarts, doubtful>>

WatchingCasFailed(w) ==
    /\ At(w, "watchCas")
    /\ \/ UNCHANGED <<queue, doubtful>>
       \/ /\ queue[JobOf(w)].status = "PROCESSING"
          /\ queue' = MarkedJob(JobOf(w), "deferred")
          /\ Doubt("lost", SignalFor(w))
    /\ Go(w, "revert")
    /\ UNCHANGED <<mode, signal, order, watched, latest, restarts>>

\* _compensate_watching_signal_if_unchanged(), best effort.
Compensate(w) ==
    /\ At(w, "revert")
    /\ \/ /\ OwnRow(w)
          /\ signal' = [signal EXCEPT ![SignalFor(w)].status = "ERROR"]
       \/ UNCHANGED signal
    /\ Finish(w)
    /\ UNCHANGED <<mode, queue, order, watched, latest, restarts, doubtful>>

-----------------------------------------------------------------------------
(* A process dies and starts again: APRecovery._reseed_watchers(). *)

Restart(w) ==
    /\ restarts < MaxRestarts
    /\ restarts' = restarts + 1
    /\ worker' = [worker EXCEPT ![w] = IdleAt("reset")]
    /\ watched' = {pair \in watched : pair[1] # w}
    /\ UNCHANGED <<mode, queue, signal, order, latest, doubtful>>

\* PAPER returns WATCHING jobs to NEW, except those of a pending order.
PendingOrder(s) == \E o \in Orders : order[o] = [status |-> "PENDING_TRIGGER", signal |-> s]

Reset(w) ==
    /\ At(w, "reset")
    /\ \/ /\ queue' = [j \in Jobs |->
                 IF mode = "PAPER" /\ queue[j].status = "WATCHING" /\ ~PendingOrder(SignalOf(j))
                 THEN [queue[j] EXCEPT !.status = "NEW", !.rescued = TRUE]
                 ELSE queue[j]]
          /\ Go(w, "rearm")
       \/ Finish(w) /\ UNCHANGED queue
    /\ UNCHANGED <<mode, signal, order, watched, latest, restarts, doubtful>>

\* Pending orders whose newest job is WATCHING are given to the watcher again,
\* one for each signal; what cannot be rearmed is left as it is.
Rearmable(w, o) ==
    /\ order[o].status = "PENDING_TRIGGER"
    /\ latest[order[o].signal] # NoJob
    /\ queue[latest[order[o].signal]].status = "WATCHING"
    /\ ~WatchesSignal(w, order[o].signal)

Rearm(w) ==
    /\ At(w, "rearm")
    /\ \/ /\ \E o \in Orders : Rearmable(w, o) /\ watched' = watched \cup {<<w, o>>}
          /\ UNCHANGED worker
       \/ Finish(w) /\ UNCHANGED watched
    /\ UNCHANGED <<mode, queue, signal, order, latest, restarts, doubtful>>

-----------------------------------------------------------------------------
(* What happens to an order meanwhile: WatchedSignal, OrderLifecycle. *)

\* The watch fires and the order is submitted, or it is given up; a row that
\* is pending no more is left alone.
WatchEnds(w, o) ==
    /\ <<w, o>> \in watched
    /\ watched' = watched \ {<<w, o>>}
    /\ \/ order[o].status = "PENDING_TRIGGER" /\ SetOrder(o, "SUBMITTED")
       \/ CleanUp(o)
    /\ UNCHANGED <<mode, queue, signal, worker, latest, restarts, doubtful>>

\* A process's order monitor ends pending orders its own watcher does not hold.
Watchdog(w, o) ==
    /\ order[o].status = "PENDING_TRIGGER" /\ <<w, o>> \notin watched
    /\ SetOrder(o, "ended")
    /\ UNCHANGED <<mode, queue, signal, watched, worker, latest, restarts, doubtful>>

BrokerEnds(o) ==
    /\ order[o].status = "SUBMITTED"
    /\ SetOrder(o, "FILLED") \/ SetOrder(o, "ended")
    /\ UNCHANGED <<mode, queue, signal, watched, worker, latest, restarts, doubtful>>

-----------------------------------------------------------------------------
Dispatch(w) ==
    \/ TurnedAway(w) \/ Evaluate(w) \/ EvaluateBlind(w)
    \/ PlanRefused(w) \/ Create(w) \/ LogQueued(w)
    \/ Arm(w) \/ Watch(w) \/ Submit(w)
    \/ Marked(w) \/ MarkFailed(w) \/ LogRejection(w)

Defer(w) ==
    \/ ReadSignal(w) \/ WriteSignal(w) \/ RereadSignal(w)
    \/ ErrorCas(w) \/ ErrorCasFailed(w)
    \/ WatchingCas(w) \/ WatchingCasFailed(w) \/ Compensate(w)

Work(w) == Claim(w) \/ Dispatch(w) \/ Defer(w) \/ Reset(w) \/ Rearm(w)

Next ==
    \/ \E j \in Jobs : Enqueue(j) \/ Ages(j)
    \/ \E w \in Workers : Work(w) \/ Restart(w)
    \/ \E w \in Workers, o \in Orders : WatchEnds(w, o) \/ Watchdog(w, o)
    \/ \E o \in Orders : BrokerEnds(o)

Spec == Init /\ [][Next]_vars

\* worker_loop() goes round for ever, time passes, and a database that is asked
\* again and again to end a job does so in the end (run_with_retry()).
Ends(w) == Marked(w) \/ ErrorCas(w) \/ WatchingCas(w)

Fairness ==
    /\ \A j \in Jobs : WF_vars(Ages(j))
    /\ \A w \in Workers : WF_vars(Work(w)) /\ SF_vars(Ends(w))

FairSpec == Spec /\ Fairness

-----------------------------------------------------------------------------
TypeOK ==
    /\ mode \in {"LIVE", "PAPER"}
    /\ queue \in [Jobs -> Job]
    /\ signal \in [Signals -> SignalRow]
    /\ order \in [Orders -> EntryOrder]
    /\ watched \subseteq Workers \X Orders
    /\ worker \in [Workers -> Process]
    /\ latest \in [Signals -> Jobs \cup {NoJob}]
    /\ restarts \in 0..MaxRestarts
    /\ doubtful \subseteq Signals

\* A signal never has two live ENTRY orders, although the duplicate check and
\* the INSERT of create_entry_order() are far apart, however many processes
\* dispatch its jobs and wherever they die: a job stays PROCESSING while it is
\* dispatched, which is what another dispatch of the signal looks for.
OneLiveEntry ==
    \A s \in Signals \ doubtful : \A o, p \in Orders :
        /\ order[o].signal = s /\ order[o].status \in Live
        /\ order[p].signal = s /\ order[p].status \in Live
        => o = p

\* A job _persist_watching_deferral() left WATCHING has its ap_signals row
\* WATCHING for that job, where the overnight re-evaluation looks for it, if it
\* is the only job of its signal.
OnlyJob(j) == \A k \in Jobs \ {j} : SignalOf(k) = SignalOf(j) => queue[k].status = "none"
DeferredIsFound ==
    \A j \in Jobs :
        /\ queue[j].status = "WATCHING" /\ queue[j].why = "deferred"
        /\ OnlyJob(j) /\ SignalOf(j) \notin doubtful
        => signal[SignalOf(j)] = [status |-> "WATCHING", job |-> j]

\* Every job that is NEW or PROCESSING is dispatched to an end or left WATCHING,
\* although its worker may die, or fail to write the result.
JobsAreDispatched ==
    \A j \in Jobs : queue[j].status \in Waiting ~> queue[j].status \notin Waiting

=============================================================================
