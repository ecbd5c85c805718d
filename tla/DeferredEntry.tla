--------------------------- MODULE DeferredEntry ---------------------------
(***************************************************************************)
(* One deferred ENTRY order between the crossing of its trigger and its    *)
(* submission: its row waits in PENDING_TRIGGER without a broker identity  *)
(* while a worker selects the contract.  The entry watcher's callback and  *)
(* the recovery pass of each process (_on_entry_trigger() and the resume   *)
(* functions of src/ap_execution_core.py, the recovery of                  *)
(* src/ap_recovery.py) work on the same row, and every write is one        *)
(* guarded UPDATE of src/ap/order_state_machine.py, fenced by an owner, a  *)
(* generation, a lease or a lifecycle state.                               *)
(*                                                                         *)
(* A worker that believes it owns the row keeps only what it remembers of  *)
(* it.  Leases lapse while it works, its process may die, and the answer   *)
(* of a write may be lost: run_with_retry() then finds its own write done, *)
(* and the caller is told that the row did not match.                      *)
(***************************************************************************)
EXTENDS Naturals

CONSTANTS
    Processes,     \* client runners; a watcher token names its process
    MaxAttempts,   \* resolve_deferred_materialization_max_attempts()
    MaxProofs,     \* PRE_SUBMIT_PROOF_RETRY_MAX
    MaxGen         \* bounds the generations of this model

Nobody == "nobody"
Scheduler == "recovery_scheduler"
RetryOwner == "recovery_retry"
ProofOwner == "proof_retry"
RecoverySubmit == "recovery_submit"
BrokerSubmit == "broker_submit"
Terminal == "TERMINAL"
Names == {Nobody, Scheduler, RetryOwner, ProofOwner, RecoverySubmit, BrokerSubmit,
          Terminal}

ASSUME ProcessesAssumption == Processes \cap Names = {}
ASSUME BoundsAssumption ==
    /\ MaxAttempts \in Nat \ {0}
    /\ MaxProofs \in Nat \ {0}
    /\ MaxGen \in Nat \ {0}

VARIABLES
    row,        \* what the fences read of the orders row
    th,         \* what each thread is about to do
    watching,   \* the processes whose entry watcher holds the order
    broker      \* what the broker holds of the order

vars == <<row, th, watching, broker>>

-----------------------------------------------------------------------------
Threads == Processes \X {"watcher", "recovery"}
Watcher(p) == <<p, "watcher">>
Recovery(p) == <<p, "recovery">>

\* Waiting stands for no lifecycle_state.  broker_ready is true in the states of Ready
\* and materialization_status, materialization_in_flight follow the state.
Waiting == "waiting"
Ready == {"BROKER_READY", "PRE_SUBMIT_PROOF_RETRY", "SUBMITTING"}
Lives == {Waiting, "MATERIALIZING", "RETRY_WAIT"} \cup Ready
Generations == 0..MaxGen
Attempts == 0..MaxAttempts
Owners == Processes \cup Names

\* lease and submitLease: the timestamp exists and is not past.  attempt stands for its
\* three mirrors, always written together.  watcher_generation is left out:
\* a pending row with no current_owner has none.
Row == [status : {"PENDING_TRIGGER", "SUBMITTED", "ended"}, life : Lives,
        gen : Generations, attempt : Attempts, proofs : 0..MaxProofs,
        owner : Owners, lease : BOOLEAN, intent : BOOLEAN,
        current : Owners, token : Owners, recovery : Owners,
        submitter : Processes \cup {Nobody}, submitLease : BOOLEAN]

Pending == row.status = "PENDING_TRIGGER"

\* The callback runs for a fired watch ("trigger"), for a due retry that
\* recovery has claimed ("retry"), or for a row that is ready to be
\* submitted ("recovered").
Kinds == {"none", "trigger", "retry", "recovered"}
Passing == {"scanned", "adopting", "retaining", "ending", "fencing",
            "resuming", "proving", "deferring", "expiring"}
Claiming == {"claiming", "claimingSubmit"}
Selecting == {"owned", "failing", "reversed", "reporting"}
Submitting == {"ready", "submitting", "rejecting", "intended", "posting",
               "recording"}
Steps == {"idle"} \cup Passing \cup Claiming \cup Selecting \cup Submitting

\* gen and attempt are those of the thread's claim or, before one, of the row
\* it has loaded, as are life, lease and proofs; read is the generation
\* submit_existing_entry() has read.
Thread == [at : Steps, kind : Kinds, gen : Generations, attempt : Attempts,
           life : Lives, lease : BOOLEAN, proofs : 0..MaxProofs,
           read : Generations]
Idle == [at |-> "idle", kind |-> "none", gen |-> 0, attempt |-> 0,
         life |-> Waiting, lease |-> FALSE, proofs |-> 0, read |-> 0]

\* The materialization_owner a thread claims and writes under.
Name(t) == IF th[t].kind = "retry" THEN RetryOwner ELSE t[1]

Broker == [order : {"none", "accepted", "rejected"}, posts : 0..2]

Init ==
    /\ row = [status |-> "PENDING_TRIGGER", life |-> Waiting, gen |-> 0,
              attempt |-> 0, proofs |-> 0, owner |-> Nobody, lease |-> FALSE,
              intent |-> FALSE, current |-> Nobody, token |-> Nobody,
              recovery |-> Nobody, submitter |-> Nobody, submitLease |-> FALSE]
    /\ th = [t \in Threads |-> Idle]
    /\ watching \in SUBSET Processes
    /\ broker = [order |-> "none", posts |-> 0]

-----------------------------------------------------------------------------
(* Steps of a thread.  Every write is a compare-and-set, and all its caller *)
(* learns is whether a row has changed.                                     *)

Become(t, next) == th' = [th EXCEPT ![t] = next]
To(t, step) == [th[t] EXCEPT !.at = step]
Go(t, step) == Become(t, To(t, step))
Finish(t) == Become(t, Idle)

\* The write matches and its caller knows, or its answer is lost, or it
\* matches nothing or fails.
Write(t, matches, new, done, missed) ==
    \/ matches /\ row' = new /\ Become(t, done)
    \/ matches /\ row' = new /\ Become(t, missed)
    \/ UNCHANGED row /\ Become(t, missed)

Owns(t) == row.owner = Name(t) /\ row.gen = th[t].gen
Materializing(t) == Pending /\ row.life = "MATERIALIZING" /\ Owns(t)
\* Mutant: a fence that trusts the broker_ready flag.
BrokerReadyByFlag == Pending /\ row.life \in Ready
BrokerReady == Pending /\ row.life = "BROKER_READY" /\ ~row.intent

-----------------------------------------------------------------------------
(* The claim of a crossed trigger or of a due retry. *)

\* Mutant: a claim that is not fenced by the generation it follows.
ClaimableWithoutGeneration(gen, prior) ==
    /\ Pending
    /\ row.life \notin Ready
    /\ row.life \in {Waiting, "RETRY_WAIT"} \/ ~row.lease
    /\ row.attempt = prior

\* A claim with no retry_attempt wants mirrors that are zero, and so does
\* the first retry; any other retry wants the attempt before it.
Claimable(gen, prior) ==
    /\ Pending
    /\ row.life \notin Ready
    /\ row.life \in {Waiting, "RETRY_WAIT"} \/ ~row.lease
    /\ row.gen + 1 = gen
    /\ row.attempt = prior

\* Mutant: a claim that forgets the recovery that held the row.
ClaimedBeside(who, gen, attempt) ==
    [row EXCEPT !.life = "MATERIALIZING", !.gen = gen, !.attempt = attempt,
                !.owner = who, !.lease = TRUE, !.current = who, !.token = who]
Claimed(who, gen, attempt) ==
    [row EXCEPT !.life = "MATERIALIZING", !.gen = gen, !.attempt = attempt,
                !.owner = who, !.lease = TRUE, !.current = who, !.token = who,
                !.recovery = Nobody]

\* The watcher calls _on_entry_trigger(), which reads the row.  A watch of a
\* row that is no longer pending is dropped.
Fire(p) ==
    /\ th[Watcher(p)].at = "idle"
    /\ p \in watching
    /\ \/ /\ Pending
          /\ row.gen < MaxGen
          /\ Become(Watcher(p), [Idle EXCEPT !.at = "claiming", !.kind = "trigger",
                                             !.gen = row.gen + 1])
          /\ UNCHANGED watching
       \/ ~Pending /\ watching' = watching \ {p} /\ UNCHANGED th
    /\ UNCHANGED <<row, broker>>

ClaimForTrigger(p) ==
    /\ th[Watcher(p)].at = "claiming"
    /\ Write(Watcher(p), Claimable(th[Watcher(p)].gen, 0),
             Claimed(p, th[Watcher(p)].gen, 0), To(Watcher(p), "owned"), Idle)
    /\ UNCHANGED <<watching, broker>>

\* The last step of resume_deferred_materialization_retry() before the
\* callback runs.
ClaimForRetry(p) ==
    LET t == Recovery(p) IN
    /\ th[t].at = "claiming"
    /\ Write(t, Claimable(th[t].gen, th[t].attempt - 1),
             Claimed(RetryOwner, th[t].gen, th[t].attempt), To(t, "owned"), Idle)
    /\ UNCHANGED <<watching, broker>>

-----------------------------------------------------------------------------
(* The owner of a claim selects the contract.                               *)

\* Mutant: a schedule that counts the attempt to come.
TriedNext(t) == th[t].attempt + 1

\* The attempt a schedule records: the first claim has none yet.
Tried(t) == IF th[t].attempt = 0 THEN 1 ELSE th[t].attempt

Scheduled(t) ==
    [row EXCEPT !.life = "RETRY_WAIT", !.attempt = Tried(t), !.owner = Nobody,
                !.lease = FALSE, !.token = Nobody, !.current = Name(t)]

\* What follows a callback that ends without a durable outcome: a watch is
\* kept, a due retry is reported.
After(t) == IF th[t].kind = "retry" THEN To(t, "reporting") ELSE Idle

\* The setup may be gone, every selection may be spent, or the callback may
\* keep the row or raise.
Reject(t) ==
    /\ th[t].at = "owned"
    /\ Go(t, "failing") \/ Become(t, After(t))
    /\ UNCHANGED <<row, watching, broker>>

Schedule(t) ==
    /\ th[t].at = "owned"
    /\ Tried(t) < MaxAttempts
    /\ Write(t, Materializing(t), Scheduled(t), Idle, After(t))
    /\ UNCHANGED <<watching, broker>>

\* The market reversed: the row waits for its trigger again.  A watch goes
\* on, a retry leaves the row to recovery until a watcher adopts it.
Rearmed(t) ==
    LET who == IF th[t].kind = "retry" THEN Nobody ELSE t[1] IN
    [row EXCEPT !.life = Waiting, !.attempt = 0, !.owner = Nobody, !.lease = FALSE,
                !.current = who, !.token = who,
                !.recovery = IF th[t].kind = "retry" THEN RetryOwner ELSE Nobody]
Rearm(t) ==
    /\ th[t].at = "owned"
    /\ Write(t, Materializing(t), Rearmed(t),
             IF th[t].kind = "retry" THEN To(t, "reversed") ELSE Idle, After(t))
    /\ UNCHANGED <<watching, broker>>

\* persist_deferred_broker_ready().  The lease of a row that is ready is read
\* by no fence and is dropped here.
CopyBack(t) ==
    /\ th[t].at = "owned"
    /\ Write(t, Materializing(t),
             [row EXCEPT !.life = "BROKER_READY", !.current = Name(t), !.lease = FALSE],
             To(t, "ready"), To(t, "failing"))
    /\ UNCHANGED <<watching, broker>>

\* What every terminalization of a row writes; the fenced ones take the
\* watcher token as well.
Ended == [row EXCEPT !.status = "ended", !.life = Waiting, !.owner = Nobody,
                     !.current = Nobody, !.lease = FALSE]
EndedFenced == [Ended EXCEPT !.token = Nobody]

\* _terminalize_owned_deferred() before the copyback is known to have landed:
\* terminalize_deferred_breach() looks at neither lifecycle nor intent.
Fail(t) ==
    /\ th[t].at = "failing"
    /\ IF th[t].kind = "retry"
       THEN Write(t, Materializing(t) /\ row.attempt = th[t].attempt,
                  EndedFenced, Idle, To(t, "reporting"))
       ELSE Write(t, Pending /\ Owns(t), Ended, Idle, Idle)
    /\ UNCHANGED <<watching, broker>>

\* resume_deferred_materialization_retry() reads the row after the callback
\* and schedules what has no durable outcome.
Report(t) ==
    /\ th[t].at = "reporting"
    /\ Write(t, Materializing(t), Scheduled(t), Idle, Idle)
    /\ UNCHANGED <<watching, broker>>

-----------------------------------------------------------------------------
(* The callback goes on to the submission. *)

\* A gate refuses, the plan's row cannot be read, or the callback raises.
Refuse(t) ==
    /\ th[t].at = "ready"
    /\ Go(t, "rejecting") \/ Become(t, After(t))
    /\ UNCHANGED <<row, watching, broker>>

\* The terminalizer of each kind once the row is ready: the claimant's wants
\* no submitter, a recovered callback's wants to be it.
\* Mutant: the claim of a submission is known by its claimant alone.
HoldsSubmitByName(t) == row.submitter = t[1] /\ row.submitLease
HoldsSubmit(t) == row.submitter = t[1] /\ row.submitLease /\ row.gen = th[t].gen
Terminalize(t) ==
    /\ th[t].at = "rejecting"
    /\ IF th[t].kind = "recovered"
       THEN Write(t, BrokerReady /\ HoldsSubmit(t),
                  [row EXCEPT !.status = "ended", !.life = Waiting, !.current = Terminal],
                  Idle, Idle)
       ELSE Write(t, /\ BrokerReady /\ Owns(t) /\ row.attempt = th[t].attempt
                     /\ row.submitter = Nobody /\ row.current = row.owner,
                  EndedFenced, Idle, After(t))
    /\ UNCHANGED <<watching, broker>>

\* persist_pre_submit_proof_retry(), by the callback that owns the claim.
Deferred(proofs) ==
    [row EXCEPT !.life = "PRE_SUBMIT_PROOF_RETRY", !.current = row.owner,
                !.proofs = proofs]

\* Mutant: the proof retry of a row that has gone on.
DeferrableAnyTime(owner, gen) == Pending /\ row.owner = owner /\ row.gen = gen
Deferrable(owner, gen) ==
    Pending /\ row.life = "BROKER_READY" /\ row.owner = owner /\ row.gen = gen
Unproven(t) ==
    /\ th[t].at = "ready"
    /\ th[t].kind # "recovered"
    /\ Write(t, Deferrable(Name(t), th[t].gen), Deferred(1), After(t), To(t, "rejecting"))
    /\ UNCHANGED <<watching, broker>>

\* submit_existing_entry() reads the row.  One that is not ready, or that
\* shows another submitter, is left to it.
Submittable(t) ==
    /\ BrokerReady
    /\ row.submitter = IF th[t].kind = "recovered" THEN t[1] ELSE Nobody
Submit(t) ==
    /\ th[t].at = "ready"
    /\ Become(t, IF Submittable(t) THEN [To(t, "submitting") EXCEPT !.read = row.gen]
                 ELSE After(t))
    /\ UNCHANGED <<row, watching, broker>>

\* persist_materialized_submit_intent() is fenced by the generation just read,
\* persist_deferred_submit_intent() by the claim of the submission.
MayIntend(t) ==
    /\ BrokerReady
    /\ IF th[t].kind = "recovered" THEN HoldsSubmit(t)
       ELSE row.gen = th[t].read /\ row.submitter = Nobody
Intended == [row EXCEPT !.life = "SUBMITTING", !.intent = TRUE, !.current = BrokerSubmit]

\* After a miss the row is read again: with an intent or a submitter on it
\* the submission is another's.
Intend(t) ==
    /\ th[t].at = "submitting"
    /\ \/ Write(t, MayIntend(t), Intended, To(t, "intended"), After(t))
       \/ /\ th[t].kind # "recovered"
          /\ ~row.intent /\ row.submitter = Nobody
          /\ Go(t, "rejecting") /\ UNCHANGED row
    /\ UNCHANGED <<watching, broker>>

\* The intent is read back before the POST.
Prove(t) ==
    /\ th[t].at = "intended"
    /\ Become(t, IF Pending /\ row.life = "SUBMITTING" /\ row.current = BrokerSubmit
                 THEN To(t, "posting") ELSE After(t))
    /\ UNCHANGED <<row, watching, broker>>

\* The broker accepts or rejects and answers, or the answer is ambiguous,
\* whether the order has landed or not.
Post(t) ==
    /\ th[t].at = "posting"
    /\ \/ /\ \E order \in {"accepted", "rejected"} :
                broker' = [order |-> order, posts |-> broker.posts + 1]
          /\ Go(t, "recording")
       \/ /\ \/ broker' = [order |-> "accepted", posts |-> broker.posts + 1]
             \/ UNCHANGED broker
          /\ Become(t, After(t))
    /\ UNCHANGED <<row, watching>>

\* transition() to SUBMITTED or ERROR, which a row that has ended refuses.
Record(t) ==
    /\ th[t].at = "recording"
    /\ row' \in {row} \cup
           (IF Pending THEN {IF broker.order = "accepted" THEN [row EXCEPT !.status = "SUBMITTED"]
                             ELSE [row EXCEPT !.status = "ended"]}
            ELSE {})
    /\ Become(t, After(t))
    /\ UNCHANGED <<watching, broker>>

-----------------------------------------------------------------------------
(* The recovery pass of a process: _recover_deferred_breach_lifecycles()    *)
(* loads every row first and comes to this one later.                       *)

\* A row that is_active_materialization_in_flight() is passed over.
Scan(p) ==
    /\ th[Recovery(p)].at = "idle"
    /\ Pending
    /\ ~(row.life = "MATERIALIZING" /\ row.lease)
    /\ Become(Recovery(p), [Idle EXCEPT !.at = "scanned", !.gen = row.gen,
                            !.attempt = row.attempt, !.life = row.life, !.proofs = row.proofs])
    /\ UNCHANGED <<row, watching, broker>>

Seen(p, life) == th[Recovery(p)].at = "scanned" /\ th[Recovery(p)].life = life

\* A row older than 72 hours is ended before anything else is asked of it, by
\* terminalize_deferred_breach() without an owner.  Else it ends so when a
\* resume function has found it past its time.
Overdue(p) ==
    /\ th[Recovery(p)].at = "scanned"
    /\ Write(Recovery(p), Pending, Ended, Idle, Idle)
    /\ UNCHANGED <<watching, broker>>
EndUnowned(p) ==
    /\ th[Recovery(p)].at = "ending"
    /\ Write(Recovery(p), Pending, Ended, Idle, To(Recovery(p), "retaining"))
    /\ UNCHANGED <<watching, broker>>

\* retain_recovery_ownership_if_no_watcher().
Retain(p) ==
    /\ th[Recovery(p)].at = "retaining"
    /\ Write(Recovery(p), row.current = Nobody /\ row.token = Nobody,
             [row EXCEPT !.recovery = Scheduler], Idle, Idle)
    /\ UNCHANGED <<watching, broker>>

\* reconcile_deferred_broker_intent() finds the order by its tag, or holds.
Reconcile(p) ==
    /\ Seen(p, "SUBMITTING")
    /\ Write(Recovery(p), Pending /\ row.intent /\ broker.order # "none",
             [row EXCEPT !.status = IF broker.order = "accepted" THEN "SUBMITTED"
                                    ELSE "ended"],
             Idle, To(Recovery(p), "retaining"))
    /\ UNCHANGED <<watching, broker>>

\* resume_deferred_broker_ready_order() reads the row again, and decides by
\* the age of the trigger and its own counter, not by the lifecycle.
Resume(p) ==
    LET t == Recovery(p) IN
    /\ Seen(p, "BROKER_READY") \/ th[t].at = "resuming"
    /\ \/ Pending /\ Go(t, "ending")
       \/ Pending /\ Become(t, [Idle EXCEPT !.at = "claimingSubmit", !.kind = "recovered",
                                            !.gen = row.gen])
       \/ Pending /\ Go(t, "retaining")
       \/ ~Pending /\ Finish(t)
    /\ UNCHANGED <<row, watching, broker>>

\* claim_deferred_broker_ready_submit(): the owner keeps its name on the row.
SubmitClaimable(t) ==
    /\ BrokerReady
    /\ row.gen = th[t].gen
    /\ row.submitter = Nobody \/ ~row.submitLease
ClaimSubmit(p) ==
    LET t == Recovery(p) IN
    /\ th[t].at = "claimingSubmit"
    /\ Write(t, SubmitClaimable(t),
             [row EXCEPT !.current = RecoverySubmit, !.submitter = p, !.submitLease = TRUE],
             To(t, "ready"), Idle)
    /\ UNCHANGED <<watching, broker>>

\* resume_pre_submit_proof_retry() trusts the row the pass has loaded.
ProofClaimable(t) ==
    /\ Pending
    /\ row.life = "PRE_SUBMIT_PROOF_RETRY"
    /\ row.gen = th[t].gen
    /\ row.proofs =< th[t].proofs
ClaimProof(p) ==
    LET t == Recovery(p) IN
    /\ Seen(p, "PRE_SUBMIT_PROOF_RETRY")
    /\ \/ Go(t, "ending") /\ UNCHANGED row
       \/ /\ th[t].proofs < MaxProofs
          /\ th[t].gen < MaxGen
          /\ Write(t, ProofClaimable(t),
                   [row EXCEPT !.life = "BROKER_READY", !.owner = ProofOwner,
                               !.current = ProofOwner, !.gen = th[t].gen + 1,
                               !.proofs = th[t].proofs + 1],
                   [To(t, "proving") EXCEPT !.gen = th[t].gen + 1, !.proofs = th[t].proofs + 1],
                   Idle)
    /\ UNCHANGED <<watching, broker>>
Reprove(p) ==
    /\ th[Recovery(p)].at = "proving"
    /\ \E step \in {"resuming", "deferring", "ending"} : Go(Recovery(p), step)
    /\ UNCHANGED <<row, watching, broker>>
Defer(p) ==
    LET t == Recovery(p) IN
    /\ th[t].at = "deferring"
    /\ Write(t, Deferrable(ProofOwner, th[t].gen), Deferred(th[t].proofs), Idle,
             To(t, "ending"))
    /\ UNCHANGED <<watching, broker>>

\* A due retry: resume_deferred_materialization_retry() reads the row again
\* and goes on only from the generation and attempt the pass has loaded.
Retry(p) ==
    LET t == Recovery(p) IN
    /\ Seen(p, "RETRY_WAIT")
    /\ IF Pending /\ row.gen = th[t].gen /\ row.attempt = th[t].attempt
       THEN \/ Go(t, "fencing")
            \/ /\ th[t].attempt < MaxAttempts
               /\ th[t].gen < MaxGen
               /\ Become(t, [Idle EXCEPT !.at = "claiming", !.kind = "retry",
                             !.gen = th[t].gen + 1, !.attempt = th[t].attempt + 1])
       ELSE Finish(t)
    /\ UNCHANGED <<row, watching, broker>>

RetryUnchanged(t) ==
    /\ Pending
    /\ row.life = "RETRY_WAIT"
    /\ row.gen = th[t].gen
    /\ row.attempt = th[t].attempt
Fence(p) ==
    /\ th[Recovery(p)].at = "fencing"
    /\ Write(Recovery(p), RetryUnchanged(Recovery(p)), Ended, Idle, To(Recovery(p), "retaining"))
    /\ UNCHANGED <<watching, broker>>

\* A retry that is not due is given to the watcher of the process.
AdoptRetry(p) ==
    LET t == Recovery(p) IN
    /\ Seen(p, "RETRY_WAIT")
    /\ Write(t, RetryUnchanged(t) /\ row.token = Nobody,
             [row EXCEPT !.current = p, !.token = p], Idle, To(t, "retaining"))
    /\ watching' \in {watching, watching \cup {p}}
    /\ UNCHANGED broker

\* A claim whose lease has lapsed is not in RETRY_WAIT, so the watcher's
\* adoption fails.
Stranded(p) ==
    /\ Seen(p, "MATERIALIZING")
    /\ Go(Recovery(p), "retaining")
    /\ UNCHANGED <<row, watching, broker>>

\* A row that waits for its trigger, or whose trigger is known to have been
\* crossed, gets a watch.
Watchable == Pending /\ row.life # "RETRY_WAIT" /\ ~(row.life = "MATERIALIZING" /\ row.lease)
Rewatch(p) ==
    /\ \/ Seen(p, Waiting) /\ Finish(Recovery(p))
       \/ th[Recovery(p)].at = "idle" /\ Watchable /\ UNCHANGED th
    /\ watching' = watching \cup {p}
    /\ UNCHANGED <<row, broker>>
Unwatchable(p) ==
    /\ Seen(p, Waiting)
    /\ Go(Recovery(p), "retaining")
    /\ UNCHANGED <<row, watching, broker>>

\* After a reversal by recovery: adopt_direction_reversal_watcher_ownership()
\* for the watch just registered, which is evicted when it fails.
Adopt(p) ==
    LET t == Recovery(p) IN
    /\ th[t].at = "reversed"
    /\ \/ /\ Pending /\ row.life = Waiting /\ row.recovery # Nobody
          /\ row.token = Nobody /\ row.gen = th[t].gen
          /\ row' = [row EXCEPT !.current = p, !.token = p, !.recovery = Nobody]
          /\ watching' \in {watching, watching \cup {p}}
       \/ UNCHANGED <<row, watching>>
    /\ Finish(t)
    /\ UNCHANGED broker

-----------------------------------------------------------------------------
(* Watches that end, leases that lapse, processes that die.                 *)

\* The callback has raised three times.
GiveUp(p) ==
    /\ th[Watcher(p)].at = "idle"
    /\ p \in watching
    /\ \/ Pending /\ row' = Ended
       \/ UNCHANGED row
    /\ watching' = watching \ {p}
    /\ UNCHANGED <<th, broker>>

\* The watch expires: a row seen to be in materialization is left alone, any
\* other is expired by the fenced transition of the state machine.
Expire(p) ==
    /\ th[Watcher(p)].at = "idle"
    /\ p \in watching
    /\ row.life \notin {"MATERIALIZING", "RETRY_WAIT"}
    /\ Become(Watcher(p), [Idle EXCEPT !.at = "expiring"])
    /\ watching' = watching \ {p}
    /\ UNCHANGED <<row, broker>>
ExpireRow(p) ==
    /\ th[Watcher(p)].at = "expiring"
    /\ Write(Watcher(p), Pending /\ ~row.intent /\ row.submitter = Nobody,
             [row EXCEPT !.status = "ended"], Idle, Idle)
    /\ UNCHANGED <<watching, broker>>

LapseLease ==
    /\ row.lease
    /\ row' = [row EXCEPT !.lease = FALSE]
    /\ UNCHANGED <<th, watching, broker>>
LapseSubmit ==
    /\ row.submitLease
    /\ row' = [row EXCEPT !.submitLease = FALSE]
    /\ UNCHANGED <<th, watching, broker>>

Crash(p) ==
    /\ th' = [t \in Threads |-> IF t[1] = p THEN Idle ELSE th[t]]
    /\ watching' = watching \ {p}
    /\ UNCHANGED <<row, broker>>

-----------------------------------------------------------------------------
Call(t) ==
    \/ Reject(t) \/ Schedule(t) \/ Rearm(t) \/ CopyBack(t) \/ Fail(t) \/ Report(t)
    \/ Refuse(t) \/ Terminalize(t) \/ Unproven(t)
    \/ Submit(t) \/ Intend(t) \/ Prove(t) \/ Post(t) \/ Record(t)

Watch(p) == Fire(p) \/ ClaimForTrigger(p) \/ GiveUp(p) \/ Expire(p) \/ ExpireRow(p)

Recover(p) ==
    \/ Scan(p) \/ Overdue(p) \/ EndUnowned(p) \/ Retain(p) \/ Reconcile(p)
    \/ Resume(p) \/ ClaimSubmit(p) \/ ClaimProof(p) \/ Reprove(p) \/ Defer(p)
    \/ Retry(p) \/ ClaimForRetry(p) \/ Fence(p) \/ AdoptRetry(p) \/ Stranded(p)
    \/ Rewatch(p) \/ Unwatchable(p) \/ Adopt(p)

Next ==
    \/ \E t \in Threads : Call(t)
    \/ \E p \in Processes : Watch(p) \/ Recover(p) \/ Crash(p)
    \/ LapseLease \/ LapseSubmit

Spec == Init /\ [][Next]_vars

-----------------------------------------------------------------------------
TypeOK ==
    /\ row \in Row
    /\ th \in [Threads -> Thread]
    /\ watching \in SUBSET Processes
    /\ broker \in Broker

\* The broker is sent the order once, although watcher and recovery of every
\* process may hold it as ready at the same time, writes succeed unnoticed and
\* an ambiguous answer leaves only the intent behind.
OneSubmission == broker.posts =< 1

\* A generation belongs to one worker: no two callbacks that hold a claim of
\* the row hold the same generation, whatever lapses, and although recovery
\* claims under one owner name in every process.
Claimant(t) == th[t].kind \in {"trigger", "retry"} /\ th[t].at \notin Claiming
GenerationHasOneOwner ==
    \A t, u \in Threads :
        Claimant(t) /\ Claimant(u) /\ th[t].gen = th[u].gen => t = u

\* A live row never names both a watcher and recovery as its owner: "closing
\* the dual-authority gap" (_retain_recovery_ownership()).
NoDualAuthority == row.recovery # Nobody => row.token = Nobody

\* A worker whose generation is over writes nothing to the row, neither the
\* contract it has selected, nor a retry, nor the intent to submit, although
\* the latter is fenced by a generation it reads from the row.
Overtaken(t) ==
    /\ th[t].kind \in {"trigger", "retry", "recovered"}
    /\ th[t].at # "claiming"
    /\ th[t].gen # row.gen
StaleWorkersWriteNothing ==
    [][\A t \in Threads : Overtaken(t) /\ th'[t] # th[t] => UNCHANGED row]_vars

\* From the intent to submit on, nothing but a broker's answer or an end
\* changes the row: no claim, retry, proof retry or reversal takes it back.
IntentIsFinal ==
    [][row.intent /\ Pending =>
           \/ row'.status # "PENDING_TRIGGER"
           \/ row' \in {row, [row EXCEPT !.lease = FALSE], [row EXCEPT !.submitLease = FALSE]}]_vars

-----------------------------------------------------------------------------
(* The order as its workers share it: see DeferredTerms.                    *)

\* A thread works under a claim of the row, of its submission or of its
\* proof, until it forgets it.
Works(t) ==
    \/ th[t].kind # "none" /\ th[t].at \notin Claiming
    \/ th[t].at \in {"proving", "deferring"}

Stage ==
    CASE row.status = "SUBMITTED" -> "submitted"
      [] row.status = "ended" -> "ended"
      [] Pending /\ row.life \in {Waiting, "RETRY_WAIT"} -> "waiting"
      [] Pending /\ row.life = "MATERIALIZING" /\ row.lease -> "selecting"
      [] Pending /\ row.life = "MATERIALIZING" /\ ~row.lease -> "lapsed"
      [] Pending /\ row.life = "BROKER_READY" -> "ready"
      [] Pending /\ row.life = "PRE_SUBMIT_PROOF_RETRY" -> "unproven"
      [] Pending /\ row.life = "SUBMITTING" -> "sending"

Terms == INSTANCE DeferredTerms
    WITH Workers <- Threads, term <- row.gen, stage <- Stage,
         worker <- [t \in Threads |-> IF Works(t) THEN th[t].gen ELSE 0],
         sending <- {t \in Threads : th[t].at \in {"intended", "posting"}},
         sent <- broker.posts, answer <- broker.order

\* Whatever lapses, crashes or is written unnoticed, the watchers and the
\* recoveries of all processes advance the order one term after another: a
\* contract is selected, made ready and submitted under one claim or under
\* the one that followed it, and the intent to submit ends the terms.
KeepsTerms == Terms!Spec

=============================================================================
