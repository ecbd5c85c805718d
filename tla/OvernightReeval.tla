-------------------------- MODULE OvernightReeval --------------------------
(***************************************************************************)
(* The overnight re-evaluation of one shared setup for one client:         *)
(* run_overnight_reeval() of src/ap_overnight_reeval.py, one attempt after *)
(* another, against the orders table, the opportunity ledger               *)
(* (src/ap/opportunity_ledger.py) and the entry watcher.                   *)
(*                                                                         *)
(* Every attempt first decides what became of the setup: the ledger may    *)
(* say that this session settled it, else the newest active ENTRY order    *)
(* decides, else the newest ENTRY order of any status.  Only when neither  *)
(* exists is an order created.  Reads and writes of both databases may     *)
(* fail, the watcher acts between any two steps, and the process may die   *)
(* and be recovered.                                                       *)
(*                                                                         *)
(* A ledger status stands for a rank of STATUS_RANK: "progress" is every   *)
(* one below WATCHER_ARMED, "terminal" every no-fill terminal but MISSED.  *)
(***************************************************************************)
EXTENDS Naturals, FiniteSets

CONSTANT MaxOrders   \* the ENTRY orders the setup can get in this model

ASSUME MaxOrdersAssumption == MaxOrders \in Nat \ {0}

Slots == 1..MaxOrders    \* in the order of created_ts
NoOrder == 0

VARIABLES
    orders,      \* status of each ENTRY order of the setup
    watched,     \* the orders the entry watcher of this process holds
    ledger,      \* the client_signal_opportunities row
    attempt,     \* what the attempt is about to do, and for which order
    verdict,     \* how the last finished attempt was counted
    lost,        \* orders a restart left unwatched this session (history)
    suppressed   \* orders given an ambiguity marker this session (history)

vars == <<orders, watched, ledger, attempt, verdict, lost, suppressed>>

-----------------------------------------------------------------------------
Statuses == {"none", "CREATED", "PENDING_TRIGGER", "owned", "ended"}
Active == {"CREATED", "PENDING_TRIGGER", "owned"}

Sessions == {"none", "earlier", "current"}
LedgerStatuses == {"none", "progress", "WATCHER_ARMED", "BROKER_SUBMITTED",
                   "terminal", "MISSED", "FILLED"}
Terminal == {"terminal", "MISSED", "FILLED"}
Settling == Terminal \cup {"WATCHER_ARMED", "BROKER_SUBMITTED"}
Meta == [mode : BOOLEAN, session : Sessions, reattach : BOOLEAN]
NoMeta == [mode |-> FALSE, session |-> "none", reattach |-> FALSE]
Ledger == [status : LedgerStatuses, meta : Meta]

Rank == [s \in LedgerStatuses |->
            CASE s = "none" -> 0
              [] s = "progress" -> 1
              [] s = "WATCHER_ARMED" -> 2
              [] s = "BROKER_SUBMITTED" -> 3
              [] s \in {"terminal", "MISSED"} -> 4
              [] s = "FILLED" -> 5]

\* "noteLeft" follows a cleanup that left the order pending, "blind" a failed
\* reattachment whose order could not be read again.
Deciding == {"ledger", "active", "latest"}
Admitting == {"admit", "create"}
Creating == {"ensure", "arm", "cleanup", "note", "noteLeft"}
Reattaching == {"reattach", "fenced", "rearm", "recheck", "suppress",
                "suppressed", "blind", "blinded"}
Proving == {"prove", "proved", "clear", "cleared"}
Steps == {"idle"} \cup Deciding \cup Admitting \cup Creating
            \cup Reattaching \cup Proving
\* "proof" remembers that the ledger row read was of this session, "again"
\* that the watch is a reattachment.
Attempt == [at : Steps, order : Slots \cup {NoOrder}, proof : BOOLEAN,
            again : BOOLEAN]
Idle == [at |-> "idle", order |-> NoOrder, proof |-> FALSE, again |-> FALSE]
Verdicts == {"none", "retry", "resolved", "armed", "rejected", "error"}

Placed == {o \in Slots : orders[o] # "none"}
Newest(S) == CHOOSE o \in S : \A p \in S : p =< o

-----------------------------------------------------------------------------
(* The ledger row. *)

\* The monotonic guard of update_opportunity(), on the status it has read.
Blocked(known, status) ==
    /\ known \notin {"none", status}
    /\ \/ known = "FILLED"
       \/ /\ status # "FILLED"
          /\ \/ {known, status} \subseteq Terminal
             \/ Rank[status] < Rank[known]

\* The guard is void when its read fails: the incoming status is written.
Written(known, status) ==
    IF Blocked(known, status) THEN {known, status} ELSE {status}

\* The rows an UPDATE may leave.  What it merges its metadata into is a second
\* read, which may fail and return nothing.
Updated(row, status, metas) ==
    IF row.status = "none" THEN {row}
    ELSE {[status |-> s, meta |-> m] : s \in Written(row.status, status), m \in metas}
Readable == {ledger.meta, NoMeta}

\* create_opportunities() inserts a row unless there is one.
Ensured(row) == IF row.status = "none" THEN [row EXCEPT !.status = "progress"]
                ELSE row

ModeSession(meta) ==
    [mode |-> TRUE, session |-> "current", reattach |-> meta.reattach]
FencingForgotten(meta) == ModeSession(meta)
Fencing(meta) == [mode |-> TRUE, session |-> "current", reattach |-> TRUE]
ClearingRemoves(meta) == [mode |-> TRUE, session |-> "current"]
Clearing(meta) == [mode |-> TRUE, session |-> "current", reattach |-> FALSE]
SessionOnly(meta) ==
    [mode |-> meta.mode, session |-> "current", reattach |-> meta.reattach]

ThisSession(row) == row.meta.mode /\ row.meta.session = "current"

\* The row alone settles the setup for this session.
Settles(row) ==
    /\ ThisSession(row)
    /\ ~row.meta.reattach
    /\ row.status \in Settling

-----------------------------------------------------------------------------
(* The state an attempt may find.  Only the writers of this module record   *)
(* the execution mode, and each of them knows an order.                     *)
Init ==
    /\ orders \in [Slots -> Statuses]
    /\ \A o \in Slots : o > 1 => orders[o] = "none"
    /\ watched \in SUBSET {o \in Slots : orders[o] = "PENDING_TRIGGER"}
    /\ ledger \in Ledger
    /\ ledger.meta.session # "current"
    /\ ledger.status = "none" => ledger.meta = NoMeta
    /\ ledger.meta.mode => Placed # {}
    /\ attempt = Idle
    /\ verdict = "none"
    /\ lost = {}
    /\ suppressed = {}

To(step) == attempt' = [attempt EXCEPT !.at = step]
ToOrder(step, o) == attempt' = [attempt EXCEPT !.at = step, !.order = o]
Conclude(v) == attempt' = Idle /\ verdict' = v

Keeping == UNCHANGED <<lost, suppressed>>
OnlyAttempt == UNCHANGED <<orders, watched, ledger>> /\ Keeping
OnlyLedger == UNCHANGED <<orders, watched, lost>>

\* A read or a write of the step failed: the row is retried.
Retried == Conclude("retry") /\ OnlyAttempt

Begin ==
    /\ attempt.at = "idle"
    /\ attempt' = [Idle EXCEPT !.at = "ledger"]
    /\ UNCHANGED verdict /\ OnlyAttempt

\* _resolve_shared_setup_disposition(): the ledger first.
ReadLedger ==
    /\ attempt.at = "ledger"
    /\ \/ Retried
       \/ Settles(ledger) /\ Conclude("resolved") /\ OnlyAttempt
       \/ /\ ~Settles(ledger)
          /\ attempt' = [attempt EXCEPT !.at = "active",
                                        !.proof = ThisSession(ledger)]
          /\ UNCHANGED verdict /\ OnlyAttempt

\* What an order of the setup means, whichever of the two queries found it.
Disposed(o) ==
    \/ /\ orders[o] = "PENDING_TRIGGER"
       /\ attempt' = [attempt EXCEPT !.at = "reattach", !.order = o, !.again = TRUE]
       /\ UNCHANGED verdict
    \/ orders[o] = "CREATED" /\ Conclude("retry")
    \/ orders[o] \in {"owned", "ended"} /\ Conclude("resolved")

\* An unreadable orders table is never taken for an empty one.
UnreadableIsEmpty == To("admit") /\ UNCHANGED verdict /\ OnlyAttempt
Unreadable == Retried

\* _query_active_entry_order(): the newest of the active orders.
ReadActive ==
    /\ attempt.at = "active"
    /\ LET found == {o \in Slots : orders[o] \in Active}
       IN \/ Retried
          \/ found # {} /\ Disposed(Newest(found)) /\ OnlyAttempt
          \/ found = {} /\ To("latest") /\ UNCHANGED verdict /\ OnlyAttempt

\* _query_latest_entry_order_no_status(): the newest of all.  A setup without
\* any order is new, unless the ledger row is of this session.
ReadLatest ==
    /\ attempt.at = "latest"
    /\ \/ Unreadable
       \/ Placed # {} /\ Disposed(Newest(Placed)) /\ OnlyAttempt
       \/ Placed = {} /\ attempt.proof /\ Retried
       \/ /\ Placed = {} /\ ~attempt.proof
          /\ To("admit") /\ UNCHANGED verdict /\ OnlyAttempt

-----------------------------------------------------------------------------
(* A new setup. *)

\* Prior levels, master control and the live authorization decide; an
\* exception of theirs is an error.
Admit ==
    /\ attempt.at = "admit"
    /\ \/ Conclude("rejected") \/ Conclude("error") \/ Conclude("retry")
       \/ To("create") /\ UNCHANGED verdict
    /\ OnlyAttempt

\* create_entry_order() may fail before or after its INSERT.
Create ==
    /\ attempt.at = "create"
    /\ \/ Conclude("error") /\ UNCHANGED orders
       \/ \E o \in Slots \ Placed :
             /\ \A p \in Placed : p < o
             /\ orders' = [orders EXCEPT ![o] = "PENDING_TRIGGER"]
             /\ \/ ToOrder("ensure", o) /\ UNCHANGED verdict
                \/ Conclude("error")
    /\ UNCHANGED <<watched, ledger>> /\ Keeping

\* The order must be seen in PENDING_TRIGGER before it is watched.
EnsurePending ==
    /\ attempt.at = "ensure"
    /\ \/ To("arm") /\ UNCHANGED verdict
       \/ Conclude("error")
    /\ OnlyAttempt

\* watch() takes the order, or refuses it or raises: then it may have ended
\* the order by its invalidation callback.
Arm ==
    /\ attempt.at = "arm"
    /\ \/ /\ watched' = watched \cup {attempt.order}
          /\ To("prove") /\ UNCHANGED <<orders, verdict>>
       \/ /\ orders' \in {orders, [orders EXCEPT ![attempt.order] = "ended"]}
          /\ To("cleanup") /\ UNCHANGED <<watched, verdict>>
    /\ UNCHANGED ledger /\ Keeping

\* _cleanup_overnight_watch_arm_failure(): expire, else cancel, else move the
\* order to EXPIRED.
Cleanup ==
    /\ attempt.at = "cleanup"
    /\ \/ orders' = [orders EXCEPT ![attempt.order] = "ended"] /\ To("note")
       \/ UNCHANGED orders /\ To("noteLeft")
    /\ UNCHANGED <<watched, ledger, verdict>> /\ Keeping

\* _record_watch_arm_failure_proof() names the session but not the mode, and
\* its outcome is not looked at.
NotePatchWithMode(meta) == ModeSession(meta)
NotePatch(meta) == SessionOnly(meta)
NoteFailure ==
    /\ attempt.at \in {"note", "noteLeft"}
    /\ \/ ledger' \in {ledger, Ensured(ledger)}
       \/ \E status \in {"MISSED", "terminal"} :
             ledger' \in Updated(Ensured(ledger), status, {NotePatch(m) : m \in Readable})
    /\ \/ Conclude("error")
       \/ attempt.at = "note" /\ Conclude("rejected")
    /\ OnlyLedger /\ UNCHANGED suppressed

-----------------------------------------------------------------------------
(* An order left by an earlier attempt or day. *)

\* A plan without trigger or identity is retried, an order this watcher
\* already holds only needs its proof.  Any other is fenced first:
\* _persist_reattach_in_progress_fence() withdraws what the row may say.
Reattach ==
    /\ attempt.at = "reattach"
    /\ \/ Retried
       \/ /\ attempt.order \in watched
          /\ To("prove") /\ UNCHANGED verdict /\ OnlyAttempt
       \/ /\ attempt.order \notin watched
          /\ \/ /\ ledger' \in Updated(Ensured(ledger), "progress",
                                      {Fencing(m) : m \in Readable})
                /\ To("fenced") /\ UNCHANGED verdict
             \/ ledger' = Ensured(ledger) /\ Conclude("retry")
          /\ OnlyLedger /\ UNCHANGED suppressed

\* The fence counts only when it is read back.
ReadFence ==
    /\ attempt.at = "fenced"
    /\ \/ Retried
       \/ /\ ThisSession(ledger) /\ ledger.meta.reattach
          /\ To("rearm") /\ UNCHANGED verdict /\ OnlyAttempt

\* watch() in recovery takes the order, leaves it or ends it; it may have
\* been moved or ended since the attempt read it.
Rearm ==
    /\ attempt.at = "rearm"
    /\ \/ /\ orders[attempt.order] = "PENDING_TRIGGER"
          /\ watched' = watched \cup {attempt.order}
          /\ To("prove") /\ UNCHANGED <<orders, verdict>>
       \/ /\ \/ UNCHANGED orders
             \/ /\ orders[attempt.order] = "PENDING_TRIGGER"
                /\ orders' = [orders EXCEPT ![attempt.order] = "ended"]
          /\ \/ To("recheck") /\ UNCHANGED verdict
             \/ Conclude("retry")
          /\ UNCHANGED watched
    /\ UNCHANGED ledger /\ Keeping

\* After a refusal the exact order is read again.
Recheck ==
    /\ attempt.at = "recheck"
    /\ \/ To("blind") /\ UNCHANGED verdict
       \/ /\ orders[attempt.order] \in {"PENDING_TRIGGER", "CREATED"}
          /\ Conclude("retry")
       \/ orders[attempt.order] = "owned" /\ Conclude("resolved")
       \/ orders[attempt.order] = "ended" /\ To("suppress") /\ UNCHANGED verdict
    /\ OnlyAttempt

\* _persist_reattach_terminal_suppression_marker(), also used when the order
\* could not be read.
Suppress ==
    /\ attempt.at \in {"suppress", "blind"}
    /\ \/ /\ ledger' \in Updated(Ensured(ledger), "MISSED",
                                {ModeSession(m) : m \in Readable})
          /\ To(IF attempt.at = "blind" THEN "blinded" ELSE "suppressed")
          /\ UNCHANGED verdict
          /\ suppressed' = IF attempt.at = "blind"
                           THEN suppressed \cup {attempt.order} ELSE suppressed
       \/ ledger' = Ensured(ledger) /\ Conclude("retry") /\ UNCHANGED suppressed
    /\ OnlyLedger

ReadSuppression ==
    /\ attempt.at \in {"suppressed", "blinded"}
    /\ \/ Retried
       \/ /\ ThisSession(ledger) /\ ledger.status = "MISSED"
          /\ Conclude("resolved") /\ OnlyAttempt

-----------------------------------------------------------------------------
(* _persist_watcher_armed_proof(): written and read back, for a             *)
(* reattachment once more to clear the fence.                               *)
ProofStep(from, to, metas) ==
    /\ attempt.at = from
    /\ \/ /\ ledger' \in Updated(Ensured(ledger), "WATCHER_ARMED", metas)
          /\ To(to) /\ UNCHANGED verdict
       \/ ledger' = Ensured(ledger) /\ Conclude("retry")
    /\ OnlyLedger /\ UNCHANGED suppressed

Prove == ProofStep("prove", "proved", {ModeSession(m) : m \in Readable})
Clear == ProofStep("clear", "cleared", {Clearing(m) : m \in Readable})

Proved == ThisSession(ledger) /\ ledger.status = "WATCHER_ARMED"

ReadProof ==
    /\ attempt.at = "proved"
    /\ \/ Retried
       \/ /\ Proved
          /\ IF attempt.again THEN To("clear") /\ UNCHANGED verdict
                              ELSE Conclude("armed")
          /\ OnlyAttempt

ReadCleared ==
    /\ attempt.at = "cleared"
    /\ \/ Retried
       \/ Proved /\ ~ledger.meta.reattach /\ Conclude("armed") /\ OnlyAttempt

Step ==
    \/ Begin \/ ReadLedger \/ ReadActive \/ ReadLatest
    \/ Admit \/ Create \/ EnsurePending \/ Arm \/ Cleanup \/ NoteFailure
    \/ Reattach \/ ReadFence \/ Rearm \/ Recheck \/ Suppress \/ ReadSuppression
    \/ Prove \/ ReadProof \/ Clear \/ ReadCleared

-----------------------------------------------------------------------------
(* Everything else that touches the setup. *)

\* The watcher hands a watched order to the broker, or ends it.
WatchEnds(o) ==
    /\ o \in watched
    /\ watched' = watched \ {o}
    /\ \E s \in {"owned", "ended"} : orders' = [orders EXCEPT ![o] = s]
    /\ UNCHANGED <<ledger, attempt, verdict>> /\ Keeping

\* An order submitted at once leaves CREATED; the broker ends an order.
Executes(o) ==
    /\ \/ /\ orders[o] = "CREATED"
          /\ \E s \in {"owned", "ended"} : orders' = [orders EXCEPT ![o] = s]
       \/ orders[o] = "owned" /\ orders' = [orders EXCEPT ![o] = "ended"]
    /\ UNCHANGED <<watched, ledger, attempt, verdict>> /\ Keeping

\* The order state machine reports an order's progress to the ledger, at its
\* best effort and not always at once.
Report(o) ==
    /\ orders[o] \in {"owned", "ended"}
    /\ \E status \in {"BROKER_SUBMITTED", "FILLED", "terminal"} :
          ledger' \in Updated(ledger, status, Readable)
    /\ UNCHANGED <<orders, watched, attempt, verdict>> /\ Keeping

\* The process dies, and recovery re-arms, ends or leaves each pending order.
Restart ==
    /\ attempt' = Idle
    /\ \E armed, ended \in SUBSET {o \in Slots : orders[o] = "PENDING_TRIGGER"} :
          /\ watched' = armed \ ended
          /\ orders' = [o \in Slots |-> IF o \in ended THEN "ended" ELSE orders[o]]
          /\ lost' = lost \cup {o \in Slots : /\ orders[o] = "PENDING_TRIGGER"
                                              /\ o \notin armed \cup ended}
    /\ verdict' = "none"
    /\ UNCHANGED <<ledger, suppressed>>

\* The next trading day.
NextSession ==
    /\ attempt.at = "idle"
    /\ ledger.meta.session = "current"
    /\ ledger' = [ledger EXCEPT !.meta = [mode |-> ledger.meta.mode,
                     session |-> "earlier", reattach |-> ledger.meta.reattach]]
    /\ verdict' = "none"
    /\ lost' = {} /\ suppressed' = {}
    /\ UNCHANGED <<orders, watched, attempt>>

Next ==
    \/ Step
    \/ \E o \in Slots : WatchEnds(o) \/ Executes(o) \/ Report(o)
    \/ Restart \/ NextSession

Spec == Init /\ [][Next]_vars

-----------------------------------------------------------------------------
TypeOK ==
    /\ orders \in [Slots -> Statuses]
    /\ watched \subseteq Slots
    /\ ledger \in Ledger
    /\ attempt \in Attempt
    /\ verdict \in Verdicts
    /\ lost \subseteq Slots
    /\ suppressed \subseteq Slots

\* No sequence of attempts, failed reads, watcher actions and restarts gives
\* a setup a second ENTRY order: the two fences of
\* _resolve_shared_setup_disposition() see every earlier one.
OneEntryEver == \A o, p \in Placed : o = p

\* Somebody answers for every order that waits for its trigger: a watcher
\* holds it, or a restart left it, or an ambiguity marker stands for it.
Covered ==
    \A o \in Slots : orders[o] = "PENDING_TRIGGER" => o \in watched \cup lost \cup suppressed

\* The ledger never says that the session settled the setup while an order of
\* it waits unwatched: metadata are merged into rows whose status they do not
\* match, and the fence makes such a row say nothing.
SettledIsCovered == Settles(ledger) => Covered

\* An attempt that is counted as done for the day left no order unwatched:
\* "armed", "resolved" and "rejected" are not retried.
DoneIsCovered ==
    attempt.at = "idle" /\ verdict \in {"armed", "resolved", "rejected"} => Covered

=============================================================================
