------------------------ MODULE DeferredEntryProofs ------------------------
(***************************************************************************)
(* Proofs about DeferredEntry: its properties hold for every set of        *)
(* processes and all bounds on attempts, proofs and generations.           *)
(***************************************************************************)
EXTENDS DeferredEntry, TLAPS

-----------------------------------------------------------------------------
(* Types.  How often the broker is sent the order is bounded later, by the  *)
(* invariant about submissions.                                             *)

Typed ==
    /\ row \in Row
    /\ th \in [Threads -> Thread]
    /\ watching \in SUBSET Processes
    /\ broker \in [order : {"none", "accepted", "rejected"}, posts : Nat]

LEMMA Members ==
    /\ 0 \in Generations /\ 0 \in Attempts /\ 1 \in Attempts
    /\ 0 \in 0..MaxProofs /\ 1 \in 0..MaxProofs
    /\ \A n \in Generations : n < MaxGen => n + 1 \in Generations
    /\ \A n \in Attempts : n < MaxAttempts => n + 1 \in Attempts
    /\ \A n \in 0..MaxProofs : n < MaxProofs => n + 1 \in 0..MaxProofs
BY BoundsAssumption DEF Generations, Attempts

LEMMA ThreadFields ==
    ASSUME NEW t \in Threads, Typed
    PROVE  /\ th[t].at \in Steps /\ th[t].kind \in Kinds
           /\ th[t].gen \in Generations /\ th[t].attempt \in Attempts
           /\ th[t].life \in Lives /\ th[t].lease \in BOOLEAN
           /\ th[t].proofs \in 0..MaxProofs /\ th[t].read \in Generations
BY DEF Typed, Thread

LEMMA RowFields ==
    ASSUME Typed
    PROVE  /\ row.status \in {"PENDING_TRIGGER", "SUBMITTED", "ended"}
           /\ row.life \in Lives /\ row.gen \in Generations
           /\ row.attempt \in Attempts /\ row.proofs \in 0..MaxProofs
           /\ row.owner \in Owners /\ row.current \in Owners
           /\ row.token \in Owners /\ row.recovery \in Owners
           /\ row.submitter \in Processes \cup {Nobody}
           /\ row.intent \in BOOLEAN /\ row.lease \in BOOLEAN
           /\ row.submitLease \in BOOLEAN
BY DEF Typed, Row

LEMMA NameType ==
    ASSUME NEW t \in Threads PROVE t[1] \in Processes /\ Name(t) \in Owners
BY DEF Threads, Name, Owners, Names

LEMMA ThreadOf ==
    ASSUME NEW p \in Processes
    PROVE  Watcher(p) \in Threads /\ Recovery(p) \in Threads
BY DEF Watcher, Recovery, Threads

\* What a thread may become.
LEMMA IdleType == Idle \in Thread
BY Members DEF Idle, Thread, Steps, Kinds, Lives

LEMMA ToType ==
    ASSUME NEW t \in Threads, NEW step \in Steps, Typed
    PROVE  To(t, step) \in Thread
BY DEF To, Typed, Thread

LEMMA AfterType ==
    ASSUME NEW t \in Threads, Typed PROVE After(t) \in Thread
<1>1. "reporting" \in Steps
  BY DEF Steps, Selecting
<1> QED
  BY <1>1, IdleType, ToType DEF After

LEMMA BecomeType ==
    ASSUME NEW t \in Threads, NEW next \in Thread, Typed, Become(t, next)
    PROVE  th' \in [Threads -> Thread]
BY DEF Typed, Become

\* What a row may become.
LEMMA ClaimedType ==
    ASSUME Typed, NEW who \in Owners, NEW gen \in Generations, NEW attempt \in Attempts
    PROVE  Claimed(who, gen, attempt) \in Row
BY DEF Claimed, Typed, Row, Lives, Owners, Names

LEMMA ScheduledType ==
    ASSUME Typed, NEW t \in Threads PROVE Scheduled(t) \in Row
<1>1. Tried(t) \in Attempts
  BY Members, ThreadFields DEF Tried
<1> QED
  BY <1>1, NameType DEF Scheduled, Typed, Row, Lives, Owners, Names

LEMMA RearmedType ==
    ASSUME Typed, NEW t \in Threads PROVE Rearmed(t) \in Row
<1> DEFINE who == IF th[t].kind = "retry" THEN Nobody ELSE t[1]
           recovery == IF th[t].kind = "retry" THEN RetryOwner ELSE Nobody
<1>1. who \in Owners /\ recovery \in Owners
  BY NameType DEF Owners, Names
<1> HIDE DEF who, recovery
<1>2. [row EXCEPT !.life = Waiting, !.attempt = 0, !.owner = Nobody, !.lease = FALSE,
                  !.current = who, !.token = who, !.recovery = recovery] \in Row
  BY <1>1, Members DEF Typed, Row, Lives, Owners, Names
<1> QED
  BY <1>2 DEF Rearmed, who, recovery

LEMMA EndedType ==
    ASSUME Typed PROVE Ended \in Row /\ EndedFenced \in Row
<1>1. Ended \in Row
  BY DEF Ended, Typed, Row, Lives, Owners, Names
<1>2. [Ended EXCEPT !.token = Nobody] \in Row
  BY <1>1 DEF Row, Owners, Names
<1> QED
  BY <1>1, <1>2 DEF EndedFenced

LEMMA DeferredType ==
    ASSUME Typed, NEW n \in 0..MaxProofs PROVE Deferred(n) \in Row
BY DEF Deferred, Typed, Row, Lives, Ready

LEMMA IntendedType == ASSUME Typed PROVE Intended \in Row
BY DEF Intended, Typed, Row, Lives, Ready, Owners, Names

-----------------------------------------------------------------------------
(* Every action keeps the types.                                            *)

LEMMA StepsListed ==
    {"idle", "scanned", "adopting", "retaining", "ending", "fencing", "resuming",
     "proving", "deferring", "expiring", "claiming", "claimingSubmit", "owned",
     "failing", "reversed", "reporting", "ready", "submitting", "rejecting",
     "intended", "posting", "recording"} = Steps
BY DEF Steps, Passing, Claiming, Selecting, Submitting

\* What a step of thread t makes of it is typed, if what it is made is.
LEMMA Moves ==
    ASSUME NEW t \in Threads, Typed
    PROVE  /\ \A step \in Steps : To(t, step) \in Thread
           /\ Idle \in Thread /\ After(t) \in Thread
           /\ \A next \in Thread : Become(t, next) => th' \in [Threads -> Thread]
BY ToType, IdleType, AfterType, BecomeType

LEMMA TypedInit == Init => Typed
<1> SUFFICES ASSUME Init PROVE Typed
  OBVIOUS
<1>1. row \in Row
  BY Members DEF Init, Row, Lives, Owners, Names
<1>2. th \in [Threads -> Thread]
  BY IdleType DEF Init
<1> QED
  BY <1>1, <1>2 DEF Init, Typed

LEMMA TypedCall ==
    ASSUME Typed, NEW t \in Threads, Call(t) PROVE Typed'
<1>1. /\ \A step \in Steps : To(t, step) \in Thread
      /\ Idle \in Thread /\ After(t) \in Thread
      /\ \A next \in Thread : Become(t, next) => th' \in [Threads -> Thread]
  BY Moves
<1> USE <1>1, StepsListed
<1>2. Typed' <=> /\ row' \in Row /\ th' \in [Threads -> Thread]
                 /\ watching' \in SUBSET Processes
                 /\ broker' \in [order : {"none", "accepted", "rejected"}, posts : Nat]
  BY DEF Typed
<1>3. /\ row \in Row /\ th \in [Threads -> Thread] /\ watching \in SUBSET Processes
      /\ broker \in [order : {"none", "accepted", "rejected"}, posts : Nat]
  BY DEF Typed
<1> USE <1>2, <1>3
<1>a. CASE Reject(t)
  BY <1>a DEF Reject, Go
<1>b. CASE Schedule(t)
  BY <1>b, ScheduledType DEF Schedule, Write
<1>c. CASE Rearm(t)
  BY <1>c, RearmedType DEF Rearm, Write
<1>d. CASE CopyBack(t)
  <2>1. [row EXCEPT !.life = "BROKER_READY", !.current = Name(t), !.lease = FALSE] \in Row
    BY NameType DEF Row, Lives, Ready
  <2> QED
    BY <1>d, <2>1 DEF CopyBack, Write
<1>e. CASE Fail(t)
  BY <1>e, EndedType DEF Fail, Write
<1>f. CASE Report(t)
  BY <1>f, ScheduledType DEF Report, Write
<1>g. CASE Refuse(t)
  BY <1>g DEF Refuse, Go
<1>h. CASE Terminalize(t)
  <2>1. [row EXCEPT !.status = "ended", !.life = Waiting, !.current = Terminal] \in Row
    BY DEF Row, Lives, Owners, Names
  <2> QED
    BY <1>h, <2>1, EndedType DEF Terminalize, Write
<1>i. CASE Unproven(t)
  BY <1>i, DeferredType, Members DEF Unproven, Write
<1>j. CASE Submit(t)
  <2>1. [To(t, "submitting") EXCEPT !.read = row.gen] \in Thread
    BY RowFields DEF Thread
  <2> QED
    BY <1>j, <2>1 DEF Submit
<1>k. CASE Intend(t)
  BY <1>k, IntendedType DEF Intend, Write, Go
<1>l. CASE Prove(t)
  BY <1>l DEF Prove
<1>m. CASE Post(t)
  BY <1>m DEF Post, Go
<1>n. CASE Record(t)
  <2>1. [row EXCEPT !.status = "SUBMITTED"] \in Row /\ [row EXCEPT !.status = "ended"] \in Row
    BY DEF Row
  <2> QED
    BY <1>n, <2>1 DEF Record
<1> QED
  BY <1>a, <1>b, <1>c, <1>d, <1>e, <1>f, <1>g, <1>h, <1>i, <1>j, <1>k, <1>l, <1>m, <1>n
     DEF Call

LEMMA TypedWatch ==
    ASSUME Typed, NEW p \in Processes, Watch(p) PROVE Typed'
<1> DEFINE t == Watcher(p)
<1>0. t \in Threads
  BY ThreadOf
<1>1. /\ \A step \in Steps : To(t, step) \in Thread
      /\ Idle \in Thread
      /\ \A next \in Thread : Become(t, next) => th' \in [Threads -> Thread]
  BY <1>0, Moves
<1>2. Typed' <=> /\ row' \in Row /\ th' \in [Threads -> Thread]
                 /\ watching' \in SUBSET Processes
                 /\ broker' \in [order : {"none", "accepted", "rejected"}, posts : Nat]
  BY DEF Typed
<1>3. /\ row \in Row /\ th \in [Threads -> Thread] /\ watching \in SUBSET Processes
      /\ broker \in [order : {"none", "accepted", "rejected"}, posts : Nat]
  BY DEF Typed
<1>4. th[t].gen \in Generations /\ row.gen \in Generations
  BY <1>0, ThreadFields, RowFields
<1> USE <1>1, <1>2, <1>3, <1>4, StepsListed
<1> HIDE DEF t
<1>a. CASE Fire(p)
  <2>1. row.gen < MaxGen => [Idle EXCEPT !.at = "claiming", !.kind = "trigger",
                                         !.gen = row.gen + 1] \in Thread
    <3>1. row.gen < MaxGen => row.gen + 1 \in Generations
      BY Members
    <3>2. "claiming" \in Steps /\ "trigger" \in Kinds
      BY DEF Kinds
    <3> HIDE <1>4, StepsListed
    <3> QED
      BY <1>1, <3>1, <3>2 DEF Thread
  <2> QED
    BY <1>a, <2>1 DEF Fire, t
<1>b. CASE ClaimForTrigger(p)
  <2>1. Claimed(p, th[t].gen, 0) \in Row
    BY ClaimedType, Members DEF Owners
  <2> QED
    BY <1>b, <2>1 DEF ClaimForTrigger, Write, t
<1>c. CASE GiveUp(p)
  BY <1>c, EndedType DEF GiveUp
<1>d. CASE Expire(p)
  <2>1. [Idle EXCEPT !.at = "expiring"] \in Thread
    BY DEF Thread
  <2> QED
    BY <1>d, <2>1 DEF Expire, t
<1>e. CASE ExpireRow(p)
  <2>1. [row EXCEPT !.status = "ended"] \in Row
    BY DEF Row
  <2> QED
    BY <1>e, <2>1 DEF ExpireRow, Write, t
<1> QED
  BY <1>a, <1>b, <1>c, <1>d, <1>e DEF Watch

LEMMA TypedRecover ==
    ASSUME Typed, NEW p \in Processes, Recover(p) PROVE Typed'
<1> DEFINE t == Recovery(p)
<1>0. t \in Threads
  BY ThreadOf
<1>1. /\ \A step \in Steps : To(t, step) \in Thread
      /\ Idle \in Thread
      /\ \A next \in Thread : Become(t, next) => th' \in [Threads -> Thread]
  BY <1>0, Moves
<1>2. Typed' <=> /\ row' \in Row /\ th' \in [Threads -> Thread]
                 /\ watching' \in SUBSET Processes
                 /\ broker' \in [order : {"none", "accepted", "rejected"}, posts : Nat]
  BY DEF Typed
<1>3. /\ row \in Row /\ th \in [Threads -> Thread] /\ watching \in SUBSET Processes
      /\ broker \in [order : {"none", "accepted", "rejected"}, posts : Nat]
  BY DEF Typed
<1>4. /\ th[t].gen \in Generations /\ row.gen \in Generations
      /\ th[t].attempt \in Attempts /\ row.attempt \in Attempts
      /\ th[t].proofs \in 0..MaxProofs /\ row.proofs \in 0..MaxProofs
      /\ row.life \in Lives
  BY <1>0, ThreadFields, RowFields
<1>5. Typed
  OBVIOUS
<1> USE <1>1, <1>2, <1>3, <1>4, StepsListed
<1> HIDE DEF t
<1>a. CASE Scan(p)
  <2>1. [Idle EXCEPT !.at = "scanned", !.gen = row.gen, !.attempt = row.attempt,
                     !.life = row.life, !.proofs = row.proofs] \in Thread
    BY DEF Thread
  <2> QED
    BY <1>a, <2>1 DEF Scan, t
<1>b. CASE Overdue(p) \/ EndUnowned(p)
  BY <1>b, EndedType DEF Overdue, EndUnowned, Write, t
<1>c. CASE Retain(p)
  <2>1. [row EXCEPT !.recovery = Scheduler] \in Row
    BY DEF Row, Owners, Names
  <2> QED
    BY <1>c, <2>1 DEF Retain, Write, t
<1>d. CASE Reconcile(p)
  <2>1. [row EXCEPT !.status = IF broker.order = "accepted" THEN "SUBMITTED"
                               ELSE "ended"] \in Row
    BY DEF Row
  <2> QED
    BY <1>d, <2>1 DEF Reconcile, Write, t
<1>e. CASE Resume(p)
  <2>1. [Idle EXCEPT !.at = "claimingSubmit", !.kind = "recovered",
                     !.gen = row.gen] \in Thread
    <3>1. "claimingSubmit" \in Steps /\ "recovered" \in Kinds
      BY DEF Kinds
    <3> QED
      BY <3>1 DEF Thread
  <2> QED
    BY <1>e, <2>1 DEF Resume, Go, Finish, t
<1>f. CASE ClaimSubmit(p)
  <2>1. [row EXCEPT !.current = RecoverySubmit, !.submitter = p,
                    !.submitLease = TRUE] \in Row
    BY DEF Row, Owners, Names
  <2> QED
    BY <1>f, <2>1 DEF ClaimSubmit, Write, t
<1>g. CASE ClaimProof(p)
  <2>1. ASSUME th[t].proofs < MaxProofs, th[t].gen < MaxGen
        PROVE  /\ [row EXCEPT !.life = "BROKER_READY", !.owner = ProofOwner,
                              !.current = ProofOwner, !.gen = th[t].gen + 1,
                              !.proofs = th[t].proofs + 1] \in Row
               /\ [To(t, "proving") EXCEPT !.gen = th[t].gen + 1,
                              !.proofs = th[t].proofs + 1] \in Thread
    <3>1. th[t].gen + 1 \in Generations /\ th[t].proofs + 1 \in 0..MaxProofs
      BY <2>1, Members
    <3>2. To(t, "proving") \in Thread
      OBVIOUS
    <3>3. [To(t, "proving") EXCEPT !.gen = th[t].gen + 1,
                                   !.proofs = th[t].proofs + 1] \in Thread
      BY <3>1, <3>2 DEF Thread
    <3>4. ProofOwner \in Owners /\ "BROKER_READY" \in Lives
      BY DEF Lives, Ready, Owners, Names
    <3> QED
      BY <3>1, <3>3, <3>4 DEF Row
  <2> QED
    BY <1>g, <2>1 DEF ClaimProof, Write, Go, t
<1>h. CASE Reprove(p)
  BY <1>h DEF Reprove, Go, t
<1>i. CASE Defer(p)
  BY <1>i, DeferredType DEF Defer, Write, t
<1>j. CASE Retry(p)
  <2>1. ASSUME th[t].attempt < MaxAttempts, th[t].gen < MaxGen
        PROVE  [Idle EXCEPT !.at = "claiming", !.kind = "retry",
                  !.gen = th[t].gen + 1, !.attempt = th[t].attempt + 1] \in Thread
    <3>1. th[t].gen + 1 \in Generations /\ th[t].attempt + 1 \in Attempts
      BY <2>1, Members
    <3> QED
      BY <3>1 DEF Thread, Kinds
  <2> QED
    BY <1>j, <2>1 DEF Retry, Go, Finish, t
<1>k. CASE ClaimForRetry(p)
  <2>1. Claimed(RetryOwner, th[t].gen, th[t].attempt) \in Row
    BY ClaimedType DEF Owners, Names
  <2> QED
    BY <1>k, <2>1 DEF ClaimForRetry, Write, t
<1>l. CASE Fence(p)
  BY <1>l, EndedType DEF Fence, Write, t
<1>m. CASE AdoptRetry(p)
  <2>1. [row EXCEPT !.current = p, !.token = p] \in Row
    BY DEF Row, Owners, Names
  <2> QED
    BY <1>m, <2>1 DEF AdoptRetry, Write, t
<1>n. CASE Stranded(p) \/ Unwatchable(p)
  BY <1>n DEF Stranded, Unwatchable, Go, t
<1>o. CASE Rewatch(p)
  BY <1>o DEF Rewatch, Finish, t
<1>p. CASE Adopt(p)
  <2>1. [row EXCEPT !.current = p, !.token = p, !.recovery = Nobody] \in Row
    BY DEF Row, Owners, Names
  <2> QED
    BY <1>p, <2>1 DEF Adopt, Finish, t
<1> QED
  BY <1>a, <1>b, <1>c, <1>d, <1>e, <1>f, <1>g, <1>h, <1>i, <1>j, <1>k, <1>l, <1>m, <1>n,
     <1>o, <1>p DEF Recover

LEMMA TypedStep == Typed /\ [Next]_vars => Typed'
<1> SUFFICES ASSUME Typed, [Next]_vars PROVE Typed'
  OBVIOUS
<1>1. CASE LapseLease \/ LapseSubmit
  BY <1>1 DEF LapseLease, LapseSubmit, Typed, Row
<1>2. ASSUME NEW p \in Processes, Crash(p) PROVE Typed'
  BY <1>2, IdleType DEF Crash, Typed
<1>3. CASE UNCHANGED vars
  BY <1>3 DEF vars, Typed
<1> QED
  BY <1>1, <1>2, <1>3, TypedCall, TypedWatch, TypedRecover DEF Next

LEMMA AlwaysTyped == Spec => []Typed
BY TypedInit, TypedStep, PTL DEF Spec

-----------------------------------------------------------------------------
(* What the guarded UPDATEs keep of the row, whatever the threads believe.  *)

\* A row past its trigger is not recovery's to retain, and the intent to
\* submit holds it in SUBMITTING.
PastTrigger ==
    Pending /\ row.life # Waiting => row.recovery = Nobody /\ row.current # Nobody
IntentLocks == row.intent /\ Pending => row.life = "SUBMITTING"
RowInv == NoDualAuthority /\ PastTrigger /\ IntentLocks

AtBroker == Pending /\ row.life \in {"BROKER_READY", "SUBMITTING"}

\* Only its owner, or recovery for a row that waits for its proof, takes a
\* row that is ready back.
TakenBack ==
    \/ row.owner = ProofOwner
    \/ \E t \in Threads :
          /\ th[t].at = "ready" /\ th[t].kind # "recovered" /\ Owns(t)
          /\ th'[t].at \notin {"ready", "submitting"}

IntentStep ==
    row.intent /\ Pending =>
        \/ row'.status # "PENDING_TRIGGER"
        \/ row' \in {row, [row EXCEPT !.lease = FALSE], [row EXCEPT !.submitLease = FALSE]}
RowGoesOn ==
    /\ row.gen =< row'.gen
    /\ row.intent => row'.intent
    /\ ~Pending \/ row.intent \/ AtBroker => row'.gen = row.gen
    /\ ~Pending => ~Pending'
    /\ AtBroker /\ Pending' => (AtBroker' /\ row'.owner = row.owner) \/ TakenBack
    /\ IntentStep

LEMMA SameRow ==
    ASSUME Typed, RowInv, UNCHANGED row PROVE RowInv' /\ RowGoesOn
<1>1. row.gen \in Nat
  BY RowFields DEF Generations
<1>2. RowInv'
  BY DEF RowInv, NoDualAuthority, PastTrigger, IntentLocks, Pending
<1> QED
  BY <1>1, <1>2 DEF RowGoesOn, AtBroker, Pending, IntentStep

LEMMA RowInit == Init => RowInv
BY DEF Init, RowInv, NoDualAuthority, PastTrigger, IntentLocks, Pending

\* An UPDATE that ends the row or claims it.
LEMMA EndsRow ==
    ASSUME Typed, RowInv,
           row' \in {Ended, EndedFenced, [row EXCEPT !.status = "ended"],
                     [row EXCEPT !.status = "SUBMITTED"],
                     [row EXCEPT !.status = "ended", !.life = Waiting,
                                 !.current = Terminal]}
    PROVE  RowInv' /\ RowGoesOn
<1>1. /\ row'.status # "PENDING_TRIGGER" /\ row'.gen = row.gen
      /\ row'.intent = row.intent /\ row'.recovery = row.recovery
      /\ row'.token = row.token \/ row'.token = Nobody
  BY DEF Typed, Row, Ended, EndedFenced
<1>2. row.gen \in Nat
  BY RowFields DEF Generations
<1> QED
  BY <1>1, <1>2 DEF RowInv, NoDualAuthority, PastTrigger, IntentLocks, Pending, RowGoesOn,
     IntentStep

LEMMA ClaimsRow ==
    ASSUME Typed, RowInv, NEW who \in Owners \ {Nobody}, NEW gen \in Generations,
           NEW attempt \in Attempts, NEW prior,
           Claimable(gen, prior), row' = Claimed(who, gen, attempt)
    PROVE  RowInv' /\ RowGoesOn
<1>1. /\ row'.status = row.status /\ row'.gen = gen /\ row'.intent = row.intent
      /\ row'.recovery = Nobody /\ row'.current = who
      /\ row'.life = "MATERIALIZING"
  BY DEF Typed, Row, Claimed
<1>2. /\ row.gen \in Nat /\ gen = row.gen + 1
      /\ Pending /\ row.life \notin Ready /\ ~row.intent
  BY RowFields DEF Generations, Claimable, RowInv, IntentLocks, Ready
<1> QED
  BY <1>1, <1>2 DEF RowInv, NoDualAuthority, PastTrigger, IntentLocks, Pending, RowGoesOn,
     IntentStep, AtBroker, Ready

\* Any other: the row stays pending and in its generation or goes on to one
\* that follows, and is in no hands of the broker.
LEMMA RewritesRow ==
    ASSUME Typed, RowInv, Pending, ~AtBroker \/ TakenBack, ~row.intent, ~row'.intent,
           row'.gen >= row.gen, AtBroker => row'.gen = row.gen,
           row'.recovery # Nobody => row'.token = Nobody,
           row'.life # Waiting => row'.recovery = Nobody /\ row'.current # Nobody
    PROVE  RowInv' /\ RowGoesOn
BY DEF RowInv, NoDualAuthority, PastTrigger, IntentLocks, Pending, RowGoesOn, IntentStep

LEMMA NotNobody ==
    /\ Nobody \notin Processes /\ ProofOwner \notin Processes
    /\ \A p \in Processes : p # Nobody
    /\ \A t \in Threads : Name(t) # Nobody /\ Name(t) # ProofOwner
BY ProcessesAssumption DEF Names, Name, Threads, Nobody, ProofOwner, RetryOwner

LEMMA RowCall ==
    ASSUME Typed, RowInv, NEW t \in Threads, Call(t) PROVE RowInv' /\ RowGoesOn
<1>1. UNCHANGED row => RowInv' /\ RowGoesOn
  BY SameRow
<1>2. row.gen \in Nat /\ th[t].at \in Steps /\ Name(t) # Nobody /\ t[1] # Nobody
  BY RowFields, ThreadFields, NotNobody, NameType DEF Generations
<1>3. ASSUME Materializing(t)
      PROVE  /\ Pending /\ ~AtBroker /\ ~row.intent /\ row.life # Waiting
             /\ row.recovery = Nobody
  BY <1>3 DEF Materializing, AtBroker, RowInv, IntentLocks, PastTrigger, Waiting
<1>a. CASE Reject(t) \/ Refuse(t) \/ Submit(t) \/ Prove(t) \/ Post(t)
  BY <1>a, <1>1 DEF Reject, Refuse, Submit, Prove, Post
<1>b. CASE Schedule(t) \/ Report(t)
  <2>1. CASE UNCHANGED row
    BY <2>1, <1>1
  <2>2. CASE Materializing(t) /\ row' = Scheduled(t)
    <3>1. /\ row'.gen = row.gen /\ row'.intent = row.intent /\ row'.recovery = row.recovery
          /\ row'.current = Name(t)
      BY <2>2 DEF Scheduled, Typed, Row
    <3> QED
      BY <3>1, <2>2, <1>2, <1>3, RewritesRow
  <2> QED
    BY <1>b, <2>1, <2>2 DEF Schedule, Report, Write
<1>c. CASE Rearm(t)
  <2>1. CASE UNCHANGED row
    BY <2>1, <1>1
  <2>2. CASE Materializing(t) /\ row' = Rearmed(t)
    <3>1. /\ row'.gen = row.gen /\ row'.intent = row.intent /\ row'.life = Waiting
          /\ row'.recovery # Nobody => row'.token = Nobody
      BY <2>2 DEF Rearmed, Typed, Row
    <3> QED
      BY <3>1, <2>2, <1>2, <1>3, RewritesRow
  <2> QED
    BY <1>c, <2>1, <2>2 DEF Rearm, Write
<1>d. CASE CopyBack(t)
  <2>1. CASE UNCHANGED row
    BY <2>1, <1>1
  <2>2. CASE /\ Materializing(t)
             /\ row' = [row EXCEPT !.life = "BROKER_READY", !.current = Name(t), !.lease = FALSE]
    <3>1. /\ row'.gen = row.gen /\ row'.intent = row.intent /\ row'.recovery = row.recovery
          /\ row'.current = Name(t)
      BY <2>2 DEF Typed, Row
    <3> QED
      BY <3>1, <2>2, <1>2, <1>3, RewritesRow
  <2> QED
    BY <1>d, <2>1, <2>2 DEF CopyBack, Write
<1>e. CASE Fail(t) \/ Terminalize(t) \/ Record(t)
  BY <1>e, <1>1, EndsRow DEF Fail, Terminalize, Record, Write
<1>f. CASE Unproven(t)
  <2>1. CASE UNCHANGED row
    BY <2>1, <1>1
  <2>2. CASE Deferrable(Name(t), th[t].gen) /\ row' = Deferred(1)
    <3>1. /\ row'.gen = row.gen /\ row'.intent = row.intent /\ row'.recovery = row.recovery
          /\ row'.current = row.owner
      BY <2>2 DEF Deferred, Typed, Row
    <3>2. /\ Pending /\ row.life = "BROKER_READY" /\ ~row.intent /\ row.recovery = Nobody
          /\ row.owner = Name(t) /\ row.gen = th[t].gen
      BY <2>2 DEF Deferrable, RowInv, IntentLocks, PastTrigger, Waiting
    <3>3. th'[t].at \notin {"ready", "submitting"}
      BY <1>f DEF Unproven, Write, Become, After, To, Idle, Typed, Thread
    <3>4. TakenBack
      BY <1>f, <3>2, <3>3 DEF TakenBack, Owns, Unproven
    <3> QED
      BY <3>1, <3>2, <3>4, <1>2, RewritesRow
  <2> QED
    BY <1>f, <2>1, <2>2 DEF Unproven, Write
<1>g. CASE Intend(t)
  <2>1. CASE UNCHANGED row
    BY <2>1, <1>1
  <2>2. CASE BrokerReady /\ row' = Intended
    <3>1. /\ row'.gen = row.gen /\ row'.intent /\ row'.recovery = row.recovery
          /\ row'.current = BrokerSubmit /\ row'.life = "SUBMITTING"
          /\ row'.owner = row.owner /\ row'.status = row.status
      BY <2>2 DEF Intended, Typed, Row
    <3>2. BrokerSubmit # Nobody /\ row.recovery = Nobody /\ Pending /\ ~row.intent
      BY <2>2 DEF BrokerReady, RowInv, PastTrigger, BrokerSubmit, Nobody, Waiting
    <3> QED
      BY <3>1, <3>2, <1>2 DEF RowInv, NoDualAuthority, PastTrigger, IntentLocks, Pending,
         RowGoesOn, AtBroker, IntentStep
  <2> QED
    BY <1>g, <2>1, <2>2 DEF Intend, MayIntend, Write
<1> QED
  BY <1>a, <1>b, <1>c, <1>d, <1>e, <1>f, <1>g DEF Call

LEMMA RowWatch ==
    ASSUME Typed, RowInv, NEW p \in Processes, Watch(p) PROVE RowInv' /\ RowGoesOn
<1>1. UNCHANGED row => RowInv' /\ RowGoesOn
  BY SameRow
<1>a. CASE Fire(p) \/ Expire(p)
  BY <1>a, <1>1 DEF Fire, Expire
<1>b. CASE ClaimForTrigger(p)
  <2>1. CASE UNCHANGED row
    BY <2>1, <1>1
  <2>2. CASE /\ Claimable(th[Watcher(p)].gen, 0)
             /\ row' = Claimed(p, th[Watcher(p)].gen, 0)
    <3>1. p \in Owners \ {Nobody} /\ 0 \in Attempts /\ th[Watcher(p)].gen \in Generations
      BY NotNobody, Members, ThreadOf, ThreadFields DEF Owners
    <3> QED
      BY <2>2, <3>1, ClaimsRow
  <2> QED
    BY <1>b, <2>1, <2>2 DEF ClaimForTrigger, Write
<1>c. CASE GiveUp(p) \/ ExpireRow(p)
  BY <1>c, <1>1, EndsRow DEF GiveUp, ExpireRow, Write
<1> QED
  BY <1>a, <1>b, <1>c DEF Watch

LEMMA RowRecover ==
    ASSUME Typed, RowInv, NEW p \in Processes, Recover(p) PROVE RowInv' /\ RowGoesOn
<1> DEFINE t == Recovery(p)
<1>1. UNCHANGED row => RowInv' /\ RowGoesOn
  BY SameRow
<1>2. row.gen \in Nat /\ p # Nobody /\ t \in Threads
  BY RowFields, NotNobody, ThreadOf DEF Generations
<1>3. Pending /\ row.life # Waiting => row.recovery = Nobody /\ row.current # Nobody
  BY DEF RowInv, PastTrigger
<1>4. Pending /\ row.life # "SUBMITTING" => ~row.intent
  BY RowFields DEF RowInv, IntentLocks
<1> HIDE DEF t
<1>a. CASE \/ Scan(p) \/ Resume(p) \/ Reprove(p) \/ Retry(p)
           \/ Stranded(p) \/ Rewatch(p) \/ Unwatchable(p)
  BY <1>a, <1>1 DEF Scan, Resume, Reprove, Retry, Stranded, Rewatch, Unwatchable
<1>b. CASE Overdue(p) \/ EndUnowned(p) \/ Reconcile(p) \/ Fence(p)
  BY <1>b, <1>1, EndsRow DEF Overdue, EndUnowned, Reconcile, Fence, Write
<1>c. CASE Retain(p)
  <2>1. CASE UNCHANGED row
    BY <2>1, <1>1
  <2>2. CASE /\ row.current = Nobody /\ row.token = Nobody
             /\ row' = [row EXCEPT !.recovery = Scheduler]
    <3>1. /\ row'.gen = row.gen /\ row'.intent = row.intent /\ row'.life = row.life
          /\ row'.token = Nobody /\ row'.status = row.status
      BY <2>2 DEF Typed, Row
    <3>2. ~Pending \/ row.life = Waiting
      BY <2>2, <1>3
    <3> QED
      BY <3>1, <3>2, <1>2 DEF RowInv, NoDualAuthority, PastTrigger, IntentLocks, Pending,
         RowGoesOn, AtBroker, IntentStep, Waiting
  <2> QED
    BY <1>c, <2>1, <2>2 DEF Retain, Write
<1>d. CASE ClaimSubmit(p)
  <2>1. CASE UNCHANGED row
    BY <2>1, <1>1
  <2>2. CASE /\ BrokerReady
             /\ row' = [row EXCEPT !.current = RecoverySubmit, !.submitter = p,
                                   !.submitLease = TRUE]
    <3>1. /\ row'.gen = row.gen /\ row'.intent = row.intent /\ row'.life = row.life
          /\ row'.recovery = row.recovery /\ row'.status = row.status
          /\ row'.owner = row.owner /\ row'.current = RecoverySubmit
      BY <2>2 DEF Typed, Row
    <3>2. RecoverySubmit # Nobody /\ Pending /\ row.life = "BROKER_READY" /\ ~row.intent
      BY <2>2 DEF BrokerReady, RecoverySubmit, Nobody
    <3> QED
      BY <3>1, <3>2, <1>2, <1>3 DEF RowInv, NoDualAuthority, PastTrigger, IntentLocks,
         Pending, RowGoesOn, AtBroker, IntentStep, Waiting
  <2> QED
    BY <1>d, <2>1, <2>2 DEF ClaimSubmit, SubmitClaimable, Write
<1>e. CASE ClaimProof(p)
  <2>1. CASE UNCHANGED row
    BY <2>1, <1>1
  <2>2. CASE /\ ProofClaimable(t)
             /\ row' = [row EXCEPT !.life = "BROKER_READY", !.owner = ProofOwner,
                          !.current = ProofOwner, !.gen = th[t].gen + 1,
                          !.proofs = th[t].proofs + 1]
    <3>1. /\ Pending /\ row.life = "PRE_SUBMIT_PROOF_RETRY" /\ row.gen = th[t].gen
      BY <2>2 DEF ProofClaimable
    <3>2. /\ row'.gen = row.gen + 1 /\ row'.intent = row.intent
          /\ row'.recovery = row.recovery /\ row'.current = ProofOwner
      BY <2>2, <3>1 DEF Typed, Row
    <3>3. ~AtBroker /\ ~row.intent /\ row.recovery = Nobody /\ ProofOwner # Nobody
      BY <3>1, <1>3, <1>4 DEF AtBroker, Waiting, ProofOwner, Nobody
    <3> QED
      BY <3>1, <3>2, <3>3, <1>2, RewritesRow
  <2> QED
    BY <1>e, <2>1, <2>2 DEF ClaimProof, Write, t
<1>f. CASE Defer(p)
  <2>1. CASE UNCHANGED row
    BY <2>1, <1>1
  <2>2. CASE Deferrable(ProofOwner, th[t].gen) /\ row' = Deferred(th[t].proofs)
    <3>1. /\ row'.gen = row.gen /\ row'.intent = row.intent /\ row'.recovery = row.recovery
          /\ row'.current = row.owner
      BY <2>2 DEF Deferred, Typed, Row
    <3>2. /\ Pending /\ ~row.intent /\ row.recovery = Nobody /\ row.owner = ProofOwner
          /\ ProofOwner # Nobody /\ TakenBack
      BY <2>2, <1>3, <1>4 DEF Deferrable, TakenBack, Waiting, ProofOwner, Nobody
    <3> QED
      BY <3>1, <3>2, <1>2, RewritesRow
  <2> QED
    BY <1>f, <2>1, <2>2 DEF Defer, Write, t
<1>g. CASE ClaimForRetry(p)
  <2>1. CASE UNCHANGED row
    BY <2>1, <1>1
  <2>2. CASE /\ Claimable(th[t].gen, th[t].attempt - 1)
             /\ row' = Claimed(RetryOwner, th[t].gen, th[t].attempt)
    <3>1. /\ RetryOwner \in Owners \ {Nobody} /\ th[t].attempt \in Attempts
          /\ th[t].gen \in Generations
      BY <1>2, ThreadFields DEF Owners, Names, RetryOwner, Nobody
    <3> QED
      BY <2>2, <3>1, ClaimsRow
  <2> QED
    BY <1>g, <2>1, <2>2 DEF ClaimForRetry, Write, t
<1>h. CASE AdoptRetry(p)
  <2>1. CASE UNCHANGED row
    BY <2>1, <1>1
  <2>2. CASE RetryUnchanged(t) /\ row' = [row EXCEPT !.current = p, !.token = p]
    <3>1. /\ row'.gen = row.gen /\ row'.intent = row.intent /\ row'.recovery = row.recovery
          /\ row'.current = p
      BY <2>2 DEF Typed, Row
    <3>2. Pending /\ ~AtBroker /\ ~row.intent /\ row.recovery = Nobody
      BY <2>2, <1>3, <1>4 DEF RetryUnchanged, AtBroker, Waiting
    <3> QED
      BY <3>1, <3>2, <1>2, RewritesRow
  <2> QED
    BY <1>h, <2>1, <2>2 DEF AdoptRetry, Write, t
<1>i. CASE Adopt(p)
  <2>1. CASE UNCHANGED row
    BY <2>1, <1>1
  <2>2. CASE /\ Pending /\ row.life = Waiting
             /\ row' = [row EXCEPT !.current = p, !.token = p, !.recovery = Nobody]
    <3>1. /\ row'.gen = row.gen /\ row'.intent = row.intent /\ row'.recovery = Nobody
          /\ row'.current = p
      BY <2>2 DEF Typed, Row
    <3>2. ~AtBroker /\ ~row.intent
      BY <2>2, <1>4 DEF AtBroker, Waiting
    <3> QED
      BY <3>1, <3>2, <2>2, <1>2, RewritesRow
  <2> QED
    BY <1>i, <2>1, <2>2 DEF Adopt
<1> QED
  BY <1>a, <1>b, <1>c, <1>d, <1>e, <1>f, <1>g, <1>h, <1>i DEF Recover

LEMMA RowStep == Typed /\ RowInv /\ [Next]_vars => RowInv' /\ RowGoesOn
<1> SUFFICES ASSUME Typed, RowInv, [Next]_vars PROVE RowInv' /\ RowGoesOn
  OBVIOUS
<1>1. CASE LapseLease \/ LapseSubmit
  <2>1. /\ row'.gen = row.gen /\ row'.intent = row.intent /\ row'.recovery = row.recovery
        /\ row'.current = row.current /\ row'.token = row.token /\ row'.life = row.life
        /\ row'.status = row.status /\ row'.owner = row.owner
        /\ row' \in {[row EXCEPT !.lease = FALSE], [row EXCEPT !.submitLease = FALSE]}
    BY <1>1 DEF LapseLease, LapseSubmit, Typed, Row
  <2>2. row.gen \in Nat
    BY RowFields DEF Generations
  <2> QED
    BY <2>1, <2>2 DEF RowInv, NoDualAuthority, PastTrigger, IntentLocks, Pending, RowGoesOn,
       AtBroker, IntentStep
<1>2. CASE (\E p \in Processes : Crash(p)) \/ UNCHANGED vars
  BY <1>2, SameRow DEF Crash, vars
<1> QED
  BY <1>1, <1>2, RowCall, RowWatch, RowRecover DEF Next

LEMMA AlwaysRowInv == Spec => []RowInv
<1>1. Typed /\ RowInv /\ [Next]_vars => RowInv'
  BY RowStep
<1> QED
  BY <1>1, RowInit, AlwaysTyped, PTL DEF Spec

\* A live row never names both a watcher and recovery as its owner: every
\* UPDATE of the state machine that gives it to one takes it from the other.
THEOREM AuthorityIsSingle == Spec => []NoDualAuthority
BY AlwaysRowInv, PTL DEF RowInv

\* Once the intent to submit is in the row, no claim, retry, proof retry,
\* reversal or adoption takes the row back.
THEOREM IntentStays == Spec => IntentIsFinal
<1>1. Typed /\ RowInv /\ [Next]_vars =>
          [row.intent /\ Pending =>
               \/ row'.status # "PENDING_TRIGGER"
               \/ row' \in {row, [row EXCEPT !.lease = FALSE],
                            [row EXCEPT !.submitLease = FALSE]}]_vars
  BY RowStep DEF RowGoesOn, IntentStep
<1> QED
  BY <1>1, AlwaysTyped, AlwaysRowInv, PTL DEF Spec, IntentIsFinal

-----------------------------------------------------------------------------
(* What a step makes of the threads.  One thread moves at a time; what it   *)
(* writes depends on where it is and on what its fence has compared.        *)

Resting == {"idle"} \cup Passing

\* The callback runs under a claim from "owned" on, under a claim of the
\* submission from "ready" on, and recovery reads and ends without either.
KindOf(t) ==
    /\ th[t].at \in Resting => th[t].kind = "none"
    /\ th[t].at \in {"claiming"} \cup Selecting => th[t].kind \in {"trigger", "retry"}
    /\ th[t].at = "claimingSubmit" => th[t].kind = "recovered"
    /\ th[t].at \in Submitting => th[t].kind # "none"
KindsFit == \A t \in Threads : KindOf(t)

Rests(t) == th'[t].kind = "none" /\ th'[t].at \in Resting
Starts(t) ==
    \/ th'[t].at = "claiming" /\ th'[t].kind \in {"trigger", "retry"}
    \/ th'[t].at = "claimingSubmit" /\ th'[t].kind = "recovered"
FallsBack(t) ==
    /\ th[t].at \in Selecting \cup Submitting
    /\ th'[t].at \in {"failing", "reversed", "reporting", "rejecting"}
    /\ th[t].kind # "none"
    /\ th'[t].at # "rejecting" => th[t].kind \in {"trigger", "retry"}
ClaimLands(t) ==
    /\ th[t].at = "claiming" /\ th'[t].at = "owned"
    /\ row.gen + 1 = th[t].gen /\ row'.gen = th[t].gen
CopyLands(t) ==
    /\ th[t].at = "owned" /\ th'[t].at = "ready"
    /\ row'.gen = th[t].gen /\ row'.owner = Name(t) /\ AtBroker'
SubmitClaimLands(t) ==
    th[t].at = "claimingSubmit" /\ th'[t].at = "ready"
Reads(t) ==
    /\ th[t].at = "ready" /\ th'[t].at = "submitting" /\ th'[t].read = row.gen
    /\ UNCHANGED row
IntentLands(t) ==
    /\ th[t].at = "submitting" /\ th'[t].at = "intended"
    /\ MayIntend(t) /\ row' = Intended
Proves(t) == th[t].at = "intended" /\ th'[t].at = "posting" /\ UNCHANGED row
Posts(t) == th[t].at = "posting" /\ th'[t].at = "recording"

GoesOn(t) ==
    /\ th'[t].kind = th[t].kind /\ th'[t].gen = th[t].gen
    /\ \/ FallsBack(t) \/ ClaimLands(t) \/ CopyLands(t) \/ SubmitClaimLands(t)
       \/ Reads(t) \/ IntentLands(t) \/ Proves(t) \/ Posts(t)

Sends(t) ==
    \/ UNCHANGED broker
    \/ /\ th[t].at = "posting" /\ th'[t].at \notin {"intended", "posting"}
       /\ broker'.posts = broker.posts + 1
Fenced(t) ==
    \/ UNCHANGED row
    \/ th[t].kind = "none" \/ th[t].at \in {"claiming", "recording"}
    \/ th[t].gen = row.gen
    \/ th[t].at = "submitting" /\ th[t].kind # "recovered" /\ th[t].read = row.gen

MovesAlone(t) ==
    /\ Rests(t) \/ Starts(t) \/ GoesOn(t)
    /\ Sends(t) /\ Fenced(t)
    /\ \A u \in Threads \ {t} : th'[u] = th[u]
ThreadsGoOn ==
    \/ UNCHANGED <<th, broker>>
    \/ UNCHANGED <<row, broker>> /\ \A u \in Threads : th'[u] \in {th[u], Idle}
    \/ \E t \in Threads : MovesAlone(t)

LEMMA Became ==
    ASSUME Typed, NEW t \in Threads, NEW next, Become(t, next)
    PROVE  th'[t] = next /\ \A u \in Threads \ {t} : th'[u] = th[u]
BY DEF Typed, Become

LEMMA ToFields ==
    ASSUME Typed, NEW t \in Threads, NEW step
    PROVE  /\ To(t, step).at = step /\ To(t, step).kind = th[t].kind
           /\ To(t, step).gen = th[t].gen /\ To(t, step).read = th[t].read
BY DEF To, Typed, Thread

LEMMA AfterFields ==
    ASSUME Typed, NEW t \in Threads
    PROVE  \/ After(t) = Idle
           \/ /\ After(t).at = "reporting" /\ After(t).kind = th[t].kind
              /\ After(t).gen = th[t].gen /\ th[t].kind = "retry"
BY ToFields DEF After

LEMMA IdleFields == Idle.at = "idle" /\ Idle.kind = "none"
BY DEF Idle

LEMMA MovesOfCall ==
    ASSUME Typed, RowInv, KindsFit, NEW t \in Threads, Call(t)
    PROVE  MovesAlone(t)
<1>1. /\ \A next : Become(t, next) =>
             th'[t] = next /\ \A u \in Threads \ {t} : th'[u] = th[u]
  BY Became
<1>2. \A step : /\ To(t, step).at = step /\ To(t, step).kind = th[t].kind
                /\ To(t, step).gen = th[t].gen
  BY ToFields
<1>3. KindOf(t)
  BY DEF KindsFit
<1>4. /\ \/ After(t) = Idle
         \/ /\ After(t).at = "reporting" /\ After(t).kind = th[t].kind
            /\ After(t).gen = th[t].gen /\ th[t].kind = "retry"
      /\ Idle.at = "idle" /\ Idle.kind = "none"
  BY AfterFields, IdleFields
<1>5. \A next : th'[t] = next /\ next \in {Idle, After(t)} =>
          Rests(t) \/ (th[t].at \in Selecting \cup Submitting => GoesOn(t))
  BY <1>4 DEF Rests, Resting, GoesOn, FallsBack
<1> USE <1>1, <1>2, <1>3, <1>5 DEF MovesAlone
<1>a. CASE Reject(t)
  <2>1. th[t].at \in Selecting /\ UNCHANGED <<row, broker>>
    BY <1>a DEF Reject, Selecting
  <2>2. CASE Go(t, "failing")
    BY <2>1, <2>2 DEF Go, GoesOn, FallsBack, KindOf, Sends, Fenced
  <2>3. CASE Become(t, After(t))
    BY <2>1, <2>3 DEF Sends, Fenced
  <2> QED
    BY <1>a, <2>2, <2>3 DEF Reject
<1>b. CASE Schedule(t) \/ Report(t)
  <2>1. th[t].at \in Selecting /\ UNCHANGED broker
    BY <1>b DEF Schedule, Report, Selecting
  <2>2. th'[t] \in {Idle, After(t)} /\ \A u \in Threads \ {t} : th'[u] = th[u]
    BY <1>b DEF Schedule, Report, Write
  <2>3. row' = row \/ th[t].gen = row.gen
    BY <1>b DEF Schedule, Report, Write, Materializing, Owns
  <2> QED
    BY <2>1, <2>2, <2>3 DEF Sends, Fenced
<1>c. CASE Rearm(t)
  <2>1. th[t].at \in Selecting /\ UNCHANGED broker
    BY <1>c DEF Rearm, Selecting
  <2>2. /\ th'[t] \in {Idle, After(t), To(t, "reversed")}
        /\ \A u \in Threads \ {t} : th'[u] = th[u]
    BY <1>c DEF Rearm, Write
  <2>3. row' = row \/ th[t].gen = row.gen
    BY <1>c DEF Rearm, Write, Materializing, Owns
  <2>4. th'[t] = To(t, "reversed") => GoesOn(t)
    BY <2>1 DEF GoesOn, FallsBack, KindOf
  <2> QED
    BY <2>1, <2>2, <2>3, <2>4 DEF Sends, Fenced
<1>d. CASE CopyBack(t)
  <2>1. th[t].at \in Selecting /\ th[t].at = "owned" /\ UNCHANGED broker
    BY <1>d DEF CopyBack, Selecting
  <2>2. \/ th'[t] = To(t, "failing")
        \/ /\ th'[t] = To(t, "ready") /\ Materializing(t)
           /\ row' = [row EXCEPT !.life = "BROKER_READY", !.current = Name(t),
                                 !.lease = FALSE]
    BY <1>d DEF CopyBack, Write
  <2>3. row' = row \/ th[t].gen = row.gen
    BY <1>d DEF CopyBack, Write, Materializing, Owns
  <2>4. ASSUME th'[t] = To(t, "failing") PROVE GoesOn(t)
    BY <2>1, <2>4 DEF GoesOn, FallsBack, KindOf
  <2>5. ASSUME th'[t] = To(t, "ready"), Materializing(t),
               row' = [row EXCEPT !.life = "BROKER_READY", !.current = Name(t),
                                  !.lease = FALSE]
        PROVE  GoesOn(t)
    <3>1. row'.gen = th[t].gen /\ row'.owner = Name(t) /\ AtBroker'
      BY <2>5 DEF Materializing, Owns, Typed, Row, AtBroker, Pending
    <3> QED
      BY <2>1, <2>5, <3>1 DEF GoesOn, CopyLands
  <2>6. \A u \in Threads \ {t} : th'[u] = th[u]
    BY <1>d DEF CopyBack, Write
  <2> QED
    BY <2>1, <2>2, <2>3, <2>4, <2>5, <2>6 DEF Sends, Fenced
<1>e. CASE Fail(t)
  <2>1. th[t].at \in Selecting /\ UNCHANGED broker
    BY <1>e DEF Fail, Selecting
  <2>2. /\ th'[t] \in {Idle, To(t, "reporting")}
        /\ \A u \in Threads \ {t} : th'[u] = th[u]
    BY <1>e DEF Fail, Write
  <2>3. row' = row \/ th[t].gen = row.gen
    BY <1>e DEF Fail, Write, Materializing, Owns
  <2>4. th'[t] = To(t, "reporting") => GoesOn(t)
    BY <2>1 DEF GoesOn, FallsBack, KindOf
  <2> QED
    BY <2>1, <2>2, <2>3, <2>4 DEF Sends, Fenced
<1>f. CASE Refuse(t)
  <2>1. th[t].at \in Submitting /\ UNCHANGED <<row, broker>>
    BY <1>f DEF Refuse, Submitting
  <2>2. CASE Go(t, "rejecting")
    BY <2>1, <2>2 DEF Go, GoesOn, FallsBack, KindOf, Sends, Fenced
  <2>3. CASE Become(t, After(t))
    BY <2>1, <2>3 DEF Sends, Fenced
  <2> QED
    BY <1>f, <2>2, <2>3 DEF Refuse
<1>g. CASE Terminalize(t)
  <2>1. th[t].at \in Submitting /\ UNCHANGED broker
    BY <1>g DEF Terminalize, Submitting
  <2>2. th'[t] \in {Idle, After(t)} /\ \A u \in Threads \ {t} : th'[u] = th[u]
    BY <1>g DEF Terminalize, Write
  <2>3. row' = row \/ th[t].gen = row.gen
    BY <1>g DEF Terminalize, Write, HoldsSubmit, Owns
  <2> QED
    BY <2>1, <2>2, <2>3 DEF Sends, Fenced
<1>h. CASE Unproven(t)
  <2>1. th[t].at \in Submitting /\ UNCHANGED broker
    BY <1>h DEF Unproven, Submitting
  <2>2. /\ th'[t] \in {After(t), To(t, "rejecting")}
        /\ \A u \in Threads \ {t} : th'[u] = th[u]
    BY <1>h DEF Unproven, Write
  <2>3. row' = row \/ th[t].gen = row.gen
    BY <1>h DEF Unproven, Write, Deferrable
  <2>4. th'[t] = To(t, "rejecting") => GoesOn(t)
    BY <2>1 DEF GoesOn, FallsBack, KindOf
  <2> QED
    BY <2>1, <2>2, <2>3, <2>4 DEF Sends, Fenced
<1>i. CASE Submit(t)
  <2>1. th[t].at \in Submitting /\ th[t].at = "ready" /\ UNCHANGED <<row, broker>>
    BY <1>i DEF Submit, Submitting
  <2>2. /\ th'[t] \in {After(t), [To(t, "submitting") EXCEPT !.read = row.gen]}
        /\ \A u \in Threads \ {t} : th'[u] = th[u]
    BY <1>i DEF Submit
  <2>3. ASSUME th'[t] = [To(t, "submitting") EXCEPT !.read = row.gen] PROVE GoesOn(t)
    <3>1. /\ th'[t].at = "submitting" /\ th'[t].kind = th[t].kind
          /\ th'[t].gen = th[t].gen /\ th'[t].read = row.gen
      BY <2>3 DEF To, Typed, Thread
    <3> QED
      BY <2>1, <3>1 DEF GoesOn, Reads
  <2> QED
    BY <2>1, <2>2, <2>3 DEF Sends, Fenced
<1>j. CASE Intend(t)
  <2>1. th[t].at \in Submitting /\ th[t].at = "submitting" /\ UNCHANGED broker
    BY <1>j DEF Intend, Submitting
  <2>2. /\ \A u \in Threads \ {t} : th'[u] = th[u]
        /\ \/ th'[t] \in {After(t), To(t, "rejecting")}
           \/ th'[t] = To(t, "intended") /\ MayIntend(t) /\ row' = Intended
    BY <1>j DEF Intend, Write, Go
  <2>3. row' = row \/ MayIntend(t)
    BY <1>j DEF Intend, Write
  <2>4. MayIntend(t) => Fenced(t)
    BY <2>1 DEF MayIntend, HoldsSubmit, Fenced
  <2>5. th'[t] = To(t, "rejecting") => GoesOn(t)
    BY <2>1 DEF GoesOn, FallsBack, KindOf
  <2>6. th'[t] = To(t, "intended") /\ MayIntend(t) /\ row' = Intended => GoesOn(t)
    BY <2>1 DEF GoesOn, IntentLands
  <2> QED
    BY <2>1, <2>2, <2>3, <2>4, <2>5, <2>6 DEF Sends, Fenced
<1>k. CASE Prove(t)
  <2>1. th[t].at \in Submitting /\ th[t].at = "intended" /\ UNCHANGED <<row, broker>>
    BY <1>k DEF Prove, Submitting
  <2>2. /\ \A u \in Threads \ {t} : th'[u] = th[u]
        /\ th'[t] \in {After(t), To(t, "posting")}
    BY <1>k DEF Prove
  <2>3. th'[t] = To(t, "posting") => GoesOn(t)
    BY <2>1 DEF GoesOn, Proves
  <2> QED
    BY <2>1, <2>2, <2>3 DEF Sends, Fenced
<1>l. CASE Post(t)
  <2>1. th[t].at \in Submitting /\ th[t].at = "posting" /\ UNCHANGED row
    BY <1>l DEF Post, Submitting
  <2>2. /\ \A u \in Threads \ {t} : th'[u] = th[u]
        /\ th'[t] \in {After(t), To(t, "recording")}
    BY <1>l DEF Post, Go
  <2>3. UNCHANGED broker \/ broker'.posts = broker.posts + 1
    BY <1>l DEF Post
  <2>4. th'[t].at \notin {"intended", "posting"}
    BY <2>2, <1>4
  <2>5. th'[t] = To(t, "recording") => GoesOn(t)
    BY <2>1 DEF GoesOn, Posts
  <2> QED
    BY <2>1, <2>2, <2>3, <2>4, <2>5 DEF Sends, Fenced
<1>m. CASE Record(t)
  <2>1. th[t].at \in Submitting /\ th[t].at = "recording" /\ UNCHANGED broker
    BY <1>m DEF Record, Submitting
  <2>2. /\ \A u \in Threads \ {t} : th'[u] = th[u]
        /\ th'[t] = After(t)
    BY <1>m DEF Record
  <2> QED
    BY <2>1, <2>2 DEF Sends, Fenced
<1> QED
  BY <1>a, <1>b, <1>c, <1>d, <1>e, <1>f, <1>g, <1>h, <1>i, <1>j, <1>k, <1>l, <1>m DEF Call

LEMMA MovesOfWatch ==
    ASSUME Typed, KindsFit, NEW p \in Processes, Watch(p)
    PROVE  MovesAlone(Watcher(p)) \/ UNCHANGED <<th, broker>>
<1> DEFINE t == Watcher(p)
<1>0. t \in Threads
  BY ThreadOf
<1>1. \A next : Become(t, next) =>
          th'[t] = next /\ \A u \in Threads \ {t} : th'[u] = th[u]
  BY <1>0, Became
<1>2. \A step : /\ To(t, step).at = step /\ To(t, step).kind = th[t].kind
                /\ To(t, step).gen = th[t].gen
  BY <1>0, ToFields
<1>3. KindOf(t)
  BY <1>0 DEF KindsFit
<1>4. \A next : th'[t] = next /\ next.kind = "none" /\ next.at \in Resting => Rests(t)
  BY DEF Rests
<1>5. Idle.kind = "none" /\ Idle.at \in Resting
  BY IdleFields DEF Resting
<1> USE <1>1, <1>2, <1>3, <1>4, <1>5 DEF MovesAlone
<1> HIDE DEF t
<1>a. CASE Fire(p)
  <2>1. CASE Become(t, [Idle EXCEPT !.at = "claiming", !.kind = "trigger",
                                    !.gen = row.gen + 1]) /\ UNCHANGED <<row, broker>>
    <3>1. th'[t] = [Idle EXCEPT !.at = "claiming", !.kind = "trigger",
                                !.gen = row.gen + 1]
      BY <2>1
    <3>2. th'[t].at = "claiming" /\ th'[t].kind = "trigger"
      BY <3>1 DEF Idle
    <3> QED
      BY <2>1, <3>2 DEF Starts, Sends, Fenced, t
  <2> QED
    BY <1>a, <2>1 DEF Fire, t
<1>b. CASE ClaimForTrigger(p)
  <2>1. th[t].at = "claiming" /\ UNCHANGED broker
    BY <1>b DEF ClaimForTrigger, t
  <2>2. /\ \A u \in Threads \ {t} : th'[u] = th[u]
        /\ \/ th'[t] = Idle
           \/ /\ th'[t] = To(t, "owned") /\ Claimable(th[t].gen, 0)
              /\ row' = Claimed(p, th[t].gen, 0)
    BY <1>b DEF ClaimForTrigger, Write, t
  <2>3. ASSUME th'[t] = To(t, "owned"), Claimable(th[t].gen, 0),
               row' = Claimed(p, th[t].gen, 0)
        PROVE  GoesOn(t)
    <3>1. row'.gen = th[t].gen /\ row.gen + 1 = th[t].gen
      BY <2>3 DEF Claimed, Claimable, Typed, Row
    <3> QED
      BY <2>1, <2>3, <3>1 DEF GoesOn, ClaimLands
  <2> QED
    BY <2>1, <2>2, <2>3 DEF Sends, Fenced, t
<1>c. CASE GiveUp(p)
  BY <1>c DEF GiveUp
<1>d. CASE Expire(p)
  <2>1. th'[t].at = "expiring" /\ th'[t].kind = "none"
    BY <1>d DEF Expire, Idle, t
  <2> QED
    BY <1>d, <2>1 DEF Expire, Rests, Resting, Passing, Sends, Fenced, t
<1>e. CASE ExpireRow(p)
  <2>1. th[t].at = "expiring" /\ th'[t] = Idle /\ UNCHANGED broker
        /\ \A u \in Threads \ {t} : th'[u] = th[u]
    BY <1>e DEF ExpireRow, Write, t
  <2>2. th[t].kind = "none"
    BY <2>1 DEF KindOf, Resting, Passing
  <2> QED
    BY <2>1, <2>2 DEF Sends, Fenced, t
<1> QED
  BY <1>a, <1>b, <1>c, <1>d, <1>e DEF Watch, t

LEMMA MovesOfRecover ==
    ASSUME Typed, KindsFit, NEW p \in Processes, Recover(p)
    PROVE  MovesAlone(Recovery(p)) \/ UNCHANGED <<th, broker>>
<1> DEFINE t == Recovery(p)
<1>0. t \in Threads
  BY ThreadOf
<1>1. \A next : Become(t, next) =>
          th'[t] = next /\ \A u \in Threads \ {t} : th'[u] = th[u]
  BY <1>0, Became
<1>2. \A step : /\ To(t, step).at = step /\ To(t, step).kind = th[t].kind
                /\ To(t, step).gen = th[t].gen
  BY <1>0, ToFields
<1>3. KindOf(t)
  BY <1>0 DEF KindsFit
<1>4. \A next : th'[t] = next /\ next.kind = "none" /\ next.at \in Resting => Rests(t)
  BY DEF Rests
<1>5. Idle.kind = "none" /\ Idle.at \in Resting /\ Passing \subseteq Resting
  BY IdleFields DEF Resting
<1>6. th[t].at \in Passing => th[t].kind = "none"
  BY <1>3 DEF KindOf, Resting
<1>7. ASSUME th[t].at \in Passing, UNCHANGED broker,
             \A u \in Threads \ {t} : th'[u] = th[u],
             \/ th'[t] = Idle
             \/ \E step \in Passing : th'[t] = To(t, step)
      PROVE  MovesAlone(t)
  BY <1>2, <1>4, <1>5, <1>6, <1>7 DEF MovesAlone, Sends, Fenced
<1> USE <1>1, <1>2, <1>3, <1>4, <1>5, <1>6
<1> HIDE DEF t
<1>a. CASE Scan(p)
  <2>1. /\ th'[t] = [Idle EXCEPT !.at = "scanned", !.gen = row.gen,
                       !.attempt = row.attempt, !.life = row.life, !.proofs = row.proofs]
        /\ \A u \in Threads \ {t} : th'[u] = th[u]
    BY <1>a DEF Scan, t
  <2>2. th'[t].at = "scanned" /\ th'[t].kind = "none"
    BY <2>1 DEF Idle
  <2> QED
    BY <1>a, <2>1, <2>2 DEF Scan, Rests, Resting, Passing, MovesAlone, Sends, Fenced, t
<1>b. CASE \/ Overdue(p) \/ EndUnowned(p) \/ Retain(p) \/ Reconcile(p) \/ Defer(p)
           \/ Fence(p) \/ AdoptRetry(p) \/ Stranded(p) \/ Unwatchable(p)
  <2>1. /\ th[t].at \in {"scanned", "ending", "retaining", "deferring", "fencing"}
        /\ UNCHANGED broker
    BY <1>b DEF Overdue, EndUnowned, Retain, Reconcile, Defer, Fence, AdoptRetry, Stranded,
       Unwatchable, Seen, t
  <2>2. /\ \A u \in Threads \ {t} : th'[u] = th[u]
        /\ th'[t] \in {Idle, To(t, "retaining"), To(t, "ending")}
    BY <1>b DEF Overdue, EndUnowned, Retain, Reconcile, Defer, Fence, AdoptRetry, Stranded,
       Unwatchable, Write, Go, t
  <2>3. MovesAlone(t)
    BY <2>1, <2>2, <1>7 DEF Passing
  <2> QED
    BY <2>3 DEF t
<1>c. CASE Resume(p)
  <2>1. th[t].at \in {"scanned", "resuming"} /\ UNCHANGED <<row, broker>>
    BY <1>c DEF Resume, Seen, t
  <2>2. /\ \A u \in Threads \ {t} : th'[u] = th[u]
        /\ \/ th'[t] \in {Idle, To(t, "retaining"), To(t, "ending")}
           \/ th'[t] = [Idle EXCEPT !.at = "claimingSubmit", !.kind = "recovered",
                                    !.gen = row.gen]
    BY <1>c DEF Resume, Go, Finish, t
  <2>3. CASE th'[t] \in {Idle, To(t, "retaining"), To(t, "ending")}
    <3>1. MovesAlone(t)
      BY <2>1, <2>2, <2>3, <1>7 DEF Passing
    <3> QED
      BY <3>1 DEF t
  <2>4. CASE th'[t] = [Idle EXCEPT !.at = "claimingSubmit", !.kind = "recovered",
                                   !.gen = row.gen]
    <3>1. th'[t].at = "claimingSubmit" /\ th'[t].kind = "recovered"
      BY <2>4 DEF Idle
    <3> QED
      BY <2>1, <2>2, <3>1 DEF MovesAlone, Starts, Sends, Fenced, t
  <2> QED
    BY <2>2, <2>3, <2>4
<1>d. CASE ClaimSubmit(p)
  <2>1. th[t].at = "claimingSubmit" /\ UNCHANGED broker
    BY <1>d DEF ClaimSubmit, t
  <2>2. /\ \A u \in Threads \ {t} : th'[u] = th[u]
        /\ th'[t] \in {Idle, To(t, "ready")}
    BY <1>d DEF ClaimSubmit, Write, t
  <2>3. row' = row \/ th[t].gen = row.gen
    BY <1>d DEF ClaimSubmit, Write, SubmitClaimable, t
  <2>4. th'[t] = To(t, "ready") => GoesOn(t)
    BY <2>1 DEF GoesOn, SubmitClaimLands
  <2> QED
    BY <2>1, <2>2, <2>3, <2>4 DEF MovesAlone, Sends, Fenced, t
<1>e. CASE ClaimProof(p)
  <2>1. th[t].at = "scanned" /\ th[t].kind = "none" /\ UNCHANGED broker
    BY <1>e, <1>6 DEF ClaimProof, Seen, Passing, t
  <2>2. /\ \A u \in Threads \ {t} : th'[u] = th[u]
        /\ th'[t] \in {Idle, To(t, "ending"),
                       [To(t, "proving") EXCEPT !.gen = th[t].gen + 1,
                                                !.proofs = th[t].proofs + 1]}
    BY <1>e DEF ClaimProof, Write, Go, t
  <2> DEFINE next == [To(t, "proving") EXCEPT !.gen = th[t].gen + 1,
                                              !.proofs = th[t].proofs + 1]
  <2>3. next.kind = "none" /\ next.at = "proving"
    <3>1. To(t, "proving") \in Thread
      BY <1>0, ToType, StepsListed
    <3>2. next.kind = To(t, "proving").kind /\ next.at = To(t, "proving").at
      BY <3>1 DEF Thread
    <3> QED
      BY <2>1, <3>2
  <2>4. th'[t] \in {Idle, To(t, "ending"), next}
    BY <2>2
  <2> HIDE DEF next
  <2>5. th'[t].kind = "none" /\ th'[t].at \in {"idle", "ending", "proving"}
    <3>1. CASE th'[t] = Idle
      BY <3>1, IdleFields
    <3>2. CASE th'[t] = To(t, "ending")
      BY <2>1, <3>2
    <3>3. CASE th'[t] = next
      BY <2>3, <3>3
    <3> QED
      BY <2>4, <3>1, <3>2, <3>3
  <2> QED
    BY <2>1, <2>2, <2>5 DEF MovesAlone, Rests, Resting, Passing, Sends, Fenced, t
<1>f. CASE Reprove(p)
  <2>1. th[t].at \in Passing /\ UNCHANGED broker
    BY <1>f DEF Reprove, Passing, t
  <2>2. /\ \A u \in Threads \ {t} : th'[u] = th[u]
        /\ \E step \in {"resuming", "deferring", "ending"} : th'[t] = To(t, step)
    BY <1>f DEF Reprove, Go, t
  <2>3. MovesAlone(t)
    BY <2>1, <2>2, <1>7 DEF Passing
  <2> QED
    BY <2>3 DEF t
<1>g. CASE Retry(p)
  <2>1. th[t].at \in Passing /\ UNCHANGED <<row, broker>>
    BY <1>g DEF Retry, Seen, Passing, t
  <2>2. /\ \A u \in Threads \ {t} : th'[u] = th[u]
        /\ \/ th'[t] \in {Idle, To(t, "fencing")}
           \/ th'[t] = [Idle EXCEPT !.at = "claiming", !.kind = "retry",
                         !.gen = th[t].gen + 1, !.attempt = th[t].attempt + 1]
    BY <1>g DEF Retry, Go, Finish, t
  <2>3. CASE th'[t] \in {Idle, To(t, "fencing")}
    <3>1. MovesAlone(t)
      BY <2>1, <2>2, <2>3, <1>7 DEF Passing
    <3> QED
      BY <3>1 DEF t
  <2>4. CASE th'[t] = [Idle EXCEPT !.at = "claiming", !.kind = "retry",
                        !.gen = th[t].gen + 1, !.attempt = th[t].attempt + 1]
    <3>1. th'[t].at = "claiming" /\ th'[t].kind = "retry"
      BY <2>4 DEF Idle
    <3> QED
      BY <2>1, <2>2, <3>1 DEF MovesAlone, Starts, Sends, Fenced, t
  <2> QED
    BY <2>2, <2>3, <2>4
<1>h. CASE ClaimForRetry(p)
  <2>1. th[t].at = "claiming" /\ UNCHANGED broker
    BY <1>h DEF ClaimForRetry, t
  <2>2. /\ \A u \in Threads \ {t} : th'[u] = th[u]
        /\ \/ th'[t] = Idle
           \/ /\ th'[t] = To(t, "owned") /\ Claimable(th[t].gen, th[t].attempt - 1)
              /\ row' = Claimed(RetryOwner, th[t].gen, th[t].attempt)
    BY <1>h DEF ClaimForRetry, Write, t
  <2>3. ASSUME th'[t] = To(t, "owned"), Claimable(th[t].gen, th[t].attempt - 1),
               row' = Claimed(RetryOwner, th[t].gen, th[t].attempt)
        PROVE  GoesOn(t)
    <3>1. row'.gen = th[t].gen /\ row.gen + 1 = th[t].gen
      BY <2>3 DEF Claimed, Claimable, Typed, Row
    <3> QED
      BY <2>1, <2>3, <3>1 DEF GoesOn, ClaimLands
  <2> QED
    BY <2>1, <2>2, <2>3 DEF MovesAlone, Sends, Fenced, t
<1>i. CASE Rewatch(p)
  <2>1. CASE Seen(p, Waiting) /\ Finish(t) /\ UNCHANGED broker
    <3>1. MovesAlone(t)
      BY <2>1, <1>7 DEF Seen, Finish, Passing, t
    <3> QED
      BY <3>1 DEF t
  <2> QED
    BY <1>i, <2>1 DEF Rewatch, t
<1>j. CASE Adopt(p)
  <2>1. th[t].at = "reversed" /\ UNCHANGED broker /\ th'[t] = Idle
        /\ \A u \in Threads \ {t} : th'[u] = th[u]
    BY <1>j DEF Adopt, Finish, t
  <2>2. row' = row \/ th[t].gen = row.gen
    BY <1>j DEF Adopt, t
  <2> QED
    BY <2>1, <2>2 DEF MovesAlone, Sends, Fenced, t
<1> QED
  BY <1>a, <1>b, <1>c, <1>d, <1>e, <1>f, <1>g, <1>h, <1>i, <1>j DEF Recover

LEMMA ThreadStep == Typed /\ RowInv /\ KindsFit /\ [Next]_vars => ThreadsGoOn
<1> SUFFICES ASSUME Typed, RowInv, KindsFit, [Next]_vars PROVE ThreadsGoOn
  OBVIOUS
<1>1. CASE LapseLease \/ LapseSubmit \/ UNCHANGED vars
  BY <1>1 DEF LapseLease, LapseSubmit, vars, ThreadsGoOn
<1>2. ASSUME NEW p \in Processes, Crash(p) PROVE ThreadsGoOn
  BY <1>2 DEF Crash, ThreadsGoOn
<1>3. ASSUME NEW t \in Threads, Call(t) PROVE ThreadsGoOn
  BY <1>3, MovesOfCall DEF ThreadsGoOn
<1>4. ASSUME NEW p \in Processes, Watch(p) PROVE ThreadsGoOn
  BY <1>4, MovesOfWatch, ThreadOf DEF ThreadsGoOn
<1>5. ASSUME NEW p \in Processes, Recover(p) PROVE ThreadsGoOn
  BY <1>5, MovesOfRecover, ThreadOf DEF ThreadsGoOn
<1> QED
  BY <1>1, <1>2, <1>3, <1>4, <1>5 DEF Next

-----------------------------------------------------------------------------
(* What the threads know of the row they work on.                           *)

LEMMA KindsInit == Init => KindsFit
BY IdleFields DEF Init, KindsFit, KindOf, Resting, Passing, Selecting, Submitting

LEMMA KindsStep == KindsFit /\ ThreadsGoOn => KindsFit'
<1> SUFFICES ASSUME KindsFit, ThreadsGoOn, NEW t \in Threads PROVE KindOf(t)'
  BY DEF KindsFit
<1>1. KindOf(t)
  BY DEF KindsFit
<1>2. CASE th'[t] = th[t]
  BY <1>1, <1>2 DEF KindOf
<1>3. CASE th'[t] = Idle
  BY <1>3, IdleFields DEF KindOf, Resting, Passing, Selecting, Submitting
<1>4. CASE Rests(t)
  BY <1>4 DEF Rests, KindOf, Resting, Passing, Selecting, Submitting
<1>5. CASE Starts(t)
  BY <1>5 DEF Starts, KindOf, Resting, Passing, Selecting, Submitting
<1>6. CASE GoesOn(t)
  <2>1. CASE FallsBack(t)
    BY <1>6, <2>1 DEF GoesOn, FallsBack, KindOf, Resting, Passing, Selecting, Submitting
  <2>2. CASE ~FallsBack(t)
    <3>1. th'[t].kind = th[t].kind
      BY <1>6 DEF GoesOn
    <3>2. \/ /\ th[t].at \in {"claiming"} \cup Selecting /\ th'[t].at \in {"owned", "ready"}
          \/ /\ th[t].at \in {"claimingSubmit"} \cup Submitting
             /\ th'[t].at \in {"ready", "submitting", "intended", "posting", "recording"}
      BY <1>6, <2>2 DEF GoesOn, ClaimLands, CopyLands, SubmitClaimLands, Reads, IntentLands,
         Proves, Posts, Selecting, Submitting
    <3> QED
      BY <1>1, <3>1, <3>2 DEF KindOf, Resting, Passing, Selecting, Submitting
  <2> QED
    BY <2>1, <2>2
<1> QED
  BY <1>2, <1>3, <1>4, <1>5, <1>6 DEF ThreadsGoOn, MovesAlone

LEMMA AlwaysKindsFit == Spec => []KindsFit
<1>1. Typed /\ RowInv /\ KindsFit /\ [Next]_vars => KindsFit'
  BY ThreadStep, KindsStep
<1> QED
  BY <1>1, KindsInit, AlwaysTyped, AlwaysRowInv, PTL DEF Spec

\* The order is sent to the broker by the one thread whose intent has landed.
AtPost(t) == th[t].at \in {"intended", "posting"}
SubmitInv ==
    /\ broker.posts =< 1
    /\ broker.posts > 0 => row.intent
    /\ \A t \in Threads : AtPost(t) => row.intent /\ broker.posts = 0
    /\ \A t, u \in Threads : AtPost(t) /\ AtPost(u) => t = u

LEMMA SubmitInit == Init => SubmitInv
BY IdleFields DEF Init, SubmitInv, AtPost

LEMMA NewPost ==
    ASSUME NEW t \in Threads, MovesAlone(t), AtPost(t)', ~AtPost(t)
    PROVE  IntentLands(t)
<1>1. ~Rests(t) /\ ~Starts(t)
  BY DEF AtPost, Rests, Resting, Passing, Starts
<1>2. GoesOn(t)
  BY <1>1 DEF MovesAlone
<1> QED
  BY <1>2 DEF GoesOn, AtPost, FallsBack, ClaimLands, CopyLands, SubmitClaimLands, Reads,
     IntentLands, Proves, Posts

LEMMA SubmitStep == Typed /\ SubmitInv /\ RowGoesOn /\ ThreadsGoOn => SubmitInv'
<1> SUFFICES ASSUME Typed, SubmitInv, RowGoesOn, ThreadsGoOn PROVE SubmitInv'
  OBVIOUS
<1>1. row.intent => row'.intent
  BY DEF RowGoesOn
<1>2. CASE /\ UNCHANGED broker
           /\ \A u \in Threads : th'[u] \in {th[u], Idle}
  <2>1. \A u \in Threads : AtPost(u)' => AtPost(u)
    BY <1>2, IdleFields DEF AtPost
  <2> QED
    BY <1>1, <1>2, <2>1 DEF SubmitInv
<1>3. ASSUME NEW t \in Threads, MovesAlone(t) PROVE SubmitInv'
  <2>1. \A u \in Threads \ {t} : AtPost(u)' <=> AtPost(u)
    BY <1>3 DEF MovesAlone, AtPost
  <2>2. CASE UNCHANGED broker /\ (AtPost(t)' => AtPost(t))
    BY <1>1, <2>1, <2>2 DEF SubmitInv
  <2>3. CASE AtPost(t)' /\ ~AtPost(t)
    <3>1. IntentLands(t)
      BY <1>3, <2>3, NewPost
    <3>2. ~row.intent /\ row'.intent /\ th[t].at = "submitting"
      BY <3>1 DEF IntentLands, MayIntend, BrokerReady, Intended, Typed, Row
    <3>3. UNCHANGED broker
      BY <1>3, <3>2 DEF MovesAlone, Sends
    <3>4. broker.posts = 0 /\ \A u \in Threads : ~AtPost(u)
      BY <3>2 DEF SubmitInv, Typed
    <3> QED
      BY <2>1, <3>2, <3>3, <3>4 DEF SubmitInv
  <2>4. CASE ~UNCHANGED broker
    <3>1. AtPost(t) /\ ~AtPost(t)' /\ broker'.posts = broker.posts + 1
      BY <1>3, <2>4 DEF MovesAlone, Sends, AtPost
    <3>2. \A u \in Threads : ~AtPost(u)'
      BY <2>1, <3>1 DEF SubmitInv
    <3> QED
      BY <1>1, <3>1, <3>2 DEF SubmitInv
  <2> QED
    BY <2>2, <2>3, <2>4
<1> QED
  BY <1>2, <1>3 DEF ThreadsGoOn

LEMMA AlwaysSubmitInv == Spec => []SubmitInv
<1>1. Typed /\ RowInv /\ KindsFit /\ SubmitInv /\ [Next]_vars => SubmitInv'
  BY RowStep, ThreadStep, SubmitStep
<1> QED
  BY <1>1, SubmitInit, AlwaysTyped, AlwaysRowInv, AlwaysKindsFit, PTL DEF Spec

\* The broker is sent the order at most once: the intent lands once, the
\* thread that knows it has landed is one, and it posts before it forgets.
THEOREM SubmissionIsSingle == Spec => []OneSubmission
BY AlwaysSubmitInv, PTL DEF SubmitInv, OneSubmission

\* The row, the threads and the watches keep their types, and the broker is
\* never sent more than one order.
THEOREM TypeCorrect == Spec => []TypeOK
<1>1. Typed /\ SubmitInv => TypeOK
  <2> SUFFICES ASSUME Typed, SubmitInv PROVE TypeOK
    OBVIOUS
  <2>1. broker \in Broker
    BY DEF Typed, SubmitInv, Broker
  <2> QED
    BY <2>1 DEF Typed, TypeOK
<1> QED
  BY <1>1, AlwaysTyped, AlwaysSubmitInv, PTL

\* A claimant's generation is at most the row's, and no other claimant has it.
GenInv ==
    /\ \A t \in Threads : Claimant(t) => th[t].gen =< row.gen
    /\ GenerationHasOneOwner

LEMMA GenInit == Init => GenInv
BY IdleFields DEF Init, GenInv, GenerationHasOneOwner, Claimant

LEMMA NewClaimant ==
    ASSUME NEW t \in Threads, MovesAlone(t), KindsFit, Claimant(t)'
    PROVE  /\ th'[t].gen = th[t].gen
           /\ Claimant(t) \/ ClaimLands(t)
<1>1. ~Rests(t) /\ ~Starts(t)
  BY DEF Claimant, Claiming, Rests, Starts
<1>2. GoesOn(t)
  BY <1>1 DEF MovesAlone
<1>3. th[t].at = "claimingSubmit" => th[t].kind = "recovered"
  BY DEF KindsFit, KindOf
<1>4. th[t].at = "claiming" => ClaimLands(t)
  BY <1>2 DEF GoesOn, FallsBack, CopyLands, SubmitClaimLands, Reads, IntentLands, Proves,
     Posts, Selecting, Submitting
<1> QED
  BY <1>2, <1>3, <1>4 DEF GoesOn, Claimant, Claiming

LEMMA GenStep == Typed /\ Typed' /\ KindsFit /\ GenInv /\ RowGoesOn /\ ThreadsGoOn => GenInv'
<1> SUFFICES ASSUME Typed, Typed', KindsFit, GenInv, RowGoesOn, ThreadsGoOn PROVE GenInv'
  OBVIOUS
<1>1. /\ row.gen =< row'.gen /\ row.gen \in Nat /\ row'.gen \in Nat
      /\ \A t \in Threads : th[t].gen \in Nat
  BY RowFields, ThreadFields DEF RowGoesOn, Generations, Typed, Row
<1>2. CASE \A u \in Threads : th'[u] \in {th[u], Idle}
  <2>1. \A u \in Threads : Claimant(u)' => Claimant(u) /\ th'[u].gen = th[u].gen
    BY <1>2, IdleFields DEF Claimant
  <2> QED
    BY <1>1, <2>1 DEF GenInv, GenerationHasOneOwner
<1>3. ASSUME NEW t \in Threads, MovesAlone(t) PROVE GenInv'
  <2>1. \A u \in Threads \ {t} : th'[u] = th[u] /\ (Claimant(u)' <=> Claimant(u))
    BY <1>3 DEF MovesAlone, Claimant
  <2>2. CASE Claimant(t)' => Claimant(t) /\ th'[t].gen = th[t].gen
    BY <1>1, <2>1, <2>2 DEF GenInv, GenerationHasOneOwner
  <2>3. CASE Claimant(t)' /\ ~Claimant(t)
    <3>1. th'[t].gen = row'.gen /\ row'.gen = row.gen + 1
      BY <1>3, <2>3, NewClaimant DEF ClaimLands
    <3>2. \A u \in Threads \ {t} : Claimant(u)' => th'[u].gen =< row.gen
      BY <2>1 DEF GenInv
    <3> QED
      BY <1>1, <2>1, <3>1, <3>2 DEF GenInv, GenerationHasOneOwner
  <2> QED
    BY <1>3, <2>2, <2>3, NewClaimant
<1> QED
  BY <1>2, <1>3 DEF ThreadsGoOn

LEMMA AlwaysGenInv == Spec => []GenInv
<1>1. Typed /\ Typed' /\ RowInv /\ KindsFit /\ GenInv /\ [Next]_vars => GenInv'
  BY RowStep, ThreadStep, GenStep
<1> QED
  BY <1>1, GenInit, AlwaysTyped, AlwaysRowInv, AlwaysKindsFit, PTL DEF Spec

\* Two callbacks that hold claims of the row hold different generations,
\* whatever leases lapse and although recovery claims under one name.
THEOREM GenerationsAreOwned == Spec => []GenerationHasOneOwner
BY AlwaysGenInv, PTL DEF GenInv

\* From the copyback on a claimant works on the row its claim is of: as long as
\* the row is pending it is the claimant's, and what submit_existing_entry()
\* reads is the generation of the claim.
ReadyFor(t) ==
    /\ Claimant(t) /\ th[t].at \in {"ready", "submitting"} =>
           th[t].gen = row.gen /\ (Pending => AtBroker /\ row.owner = Name(t))
    /\ th[t].at \in {"intended", "posting", "recording"} =>
           row.intent /\ th[t].gen = row.gen
ReadyInv == \A t \in Threads : ReadyFor(t)

LEMMA ReadyInit == Init => ReadyInv
BY IdleFields DEF Init, ReadyInv, ReadyFor, Claimant

LEMMA ReadyStill ==
    ASSUME Typed, KindsFit, GenInv, ReadyInv, RowGoesOn, NEW t \in Threads,
           th'[t] = th[t]
    PROVE  ReadyFor(t)'
<1>1. ReadyFor(t)
  BY DEF ReadyInv
<1>2. /\ row.intent => row'.intent
      /\ ~Pending \/ row.intent \/ AtBroker => row'.gen = row.gen
      /\ Pending' => Pending
      /\ AtBroker /\ Pending' => (AtBroker' /\ row'.owner = row.owner) \/ TakenBack
  BY DEF RowGoesOn
<1>3. Name(t)' = Name(t)
  BY DEF Name
<1>4. CASE Claimant(t) /\ th[t].at \in {"ready", "submitting"}
  <2>1. th[t].gen = row.gen /\ row'.gen = row.gen
    BY <1>1, <1>2, <1>4 DEF ReadyFor
  <2>2. ASSUME Pending' PROVE AtBroker' /\ row'.owner = Name(t)
    <3>1. AtBroker /\ row.owner = Name(t)
      BY <1>1, <1>2, <1>4, <2>2 DEF ReadyFor
    <3>2. ~TakenBack
      <4>1. row.owner # ProofOwner
        BY <3>1, NotNobody
      <4>2. ASSUME NEW u \in Threads, th[u].at = "ready", th[u].kind # "recovered", Owns(u),
                   th'[u].at \notin {"ready", "submitting"}
            PROVE  FALSE
        <5>1. Claimant(u) /\ th[u].gen = row.gen
          BY <4>2 DEF KindsFit, KindOf, Submitting, Kinds, Claimant, Claiming, Owns, Typed, Thread
        <5>2. u = t
          BY <1>4, <2>1, <5>1 DEF GenInv, GenerationHasOneOwner
        <5> QED
          BY <1>4, <4>2, <5>2
      <4> QED
        BY <4>1, <4>2 DEF TakenBack
    <3> QED
      BY <1>2, <2>2, <3>1, <3>2
  <2> QED
    BY <1>3, <1>4, <2>1, <2>2 DEF ReadyFor, Claimant
<1>5. CASE ~(Claimant(t) /\ th[t].at \in {"ready", "submitting"})
  BY <1>1, <1>2, <1>5 DEF ReadyFor, Claimant
<1> QED
  BY <1>4, <1>5

LEMMA ReadyMoved ==
    ASSUME Typed, RowInv, KindsFit, ReadyInv, RowGoesOn, NEW t \in Threads, MovesAlone(t)
    PROVE  ReadyFor(t)'
<1>1. ReadyFor(t) /\ KindOf(t)
  BY DEF ReadyInv, KindsFit
<1>2. row.intent => row'.intent /\ row'.gen = row.gen
  BY DEF RowGoesOn
<1>3. CASE Rests(t) \/ Starts(t)
  BY <1>3 DEF Rests, Starts, Resting, Passing, ReadyFor, Claimant, Claiming
<1>4. CASE GoesOn(t)
  <2>0. th'[t].kind = th[t].kind /\ th'[t].gen = th[t].gen /\ Name(t)' = Name(t)
    BY <1>4 DEF GoesOn, Name
  <2>1. CASE FallsBack(t) \/ ClaimLands(t)
    BY <2>1 DEF FallsBack, ClaimLands, ReadyFor
  <2>2. CASE CopyLands(t)
    BY <2>0, <2>2 DEF CopyLands, ReadyFor
  <2>3. CASE SubmitClaimLands(t)
    BY <1>1, <2>0, <2>3 DEF SubmitClaimLands, KindOf, ReadyFor, Claimant
  <2>4. CASE Reads(t)
    <3>1. th[t].at = "ready" /\ th'[t].at = "submitting" /\ UNCHANGED row
      BY <2>4 DEF Reads
    <3>2. Claimant(t)' => Claimant(t)
      BY <2>0, <3>1 DEF Claimant, Claiming
    <3> QED
      BY <1>1, <2>0, <3>1, <3>2 DEF ReadyFor, AtBroker, Pending
  <2>5. CASE IntentLands(t)
    <3>1. th[t].at = "submitting" /\ th'[t].at = "intended" /\ MayIntend(t) /\ row' = Intended
      BY <2>5 DEF IntentLands
    <3>2. row'.intent /\ row'.gen = row.gen
      BY <3>1 DEF Intended, Typed, Row
    <3>3. CASE th[t].kind = "recovered"
      BY <2>0, <3>1, <3>2, <3>3 DEF MayIntend, HoldsSubmit, ReadyFor
    <3>4. CASE th[t].kind # "recovered"
      <4>1. Claimant(t)
        BY <1>1, <3>1, <3>4 DEF KindOf, Submitting, Claimant, Claiming, Kinds, Typed, Thread
      <4> QED
        BY <1>1, <2>0, <3>1, <3>2, <4>1 DEF ReadyFor
    <3> QED
      BY <3>3, <3>4
  <2>6. CASE Proves(t) \/ Posts(t)
    BY <1>1, <1>2, <2>0, <2>6 DEF Proves, Posts, ReadyFor
  <2> QED
    BY <1>4, <2>1, <2>2, <2>3, <2>4, <2>5, <2>6 DEF GoesOn
<1> QED
  BY <1>3, <1>4 DEF MovesAlone

LEMMA ReadyStep ==
    Typed /\ RowInv /\ KindsFit /\ GenInv /\ ReadyInv /\ RowGoesOn /\ ThreadsGoOn => ReadyInv'
<1> SUFFICES ASSUME Typed, RowInv, KindsFit, GenInv, ReadyInv, RowGoesOn, ThreadsGoOn,
                    NEW t \in Threads
             PROVE  ReadyFor(t)'
  BY DEF ReadyInv
<1>1. CASE th'[t] = th[t]
  BY <1>1, ReadyStill
<1>2. CASE th'[t] = Idle
  BY <1>2, IdleFields DEF ReadyFor, Claimant
<1>3. CASE MovesAlone(t)
  BY <1>3, ReadyMoved
<1> QED
  BY <1>1, <1>2, <1>3 DEF ThreadsGoOn, MovesAlone

LEMMA AlwaysReadyInv == Spec => []ReadyInv
<1>1. Typed /\ RowInv /\ KindsFit /\ GenInv /\ ReadyInv /\ [Next]_vars => ReadyInv'
  BY RowStep, ThreadStep, ReadyStep
<1> QED
  BY <1>1, ReadyInit, AlwaysTyped, AlwaysRowInv, AlwaysKindsFit, AlwaysGenInv, PTL DEF Spec

\* What a thread writes, it writes in the generation of its claim.
LEMMA OnlyInGeneration ==
    ASSUME Typed, KindsFit, ReadyInv, ThreadsGoOn, NEW t \in Threads, Overtaken(t),
           th'[t] # th[t]
    PROVE  UNCHANGED row
<1>1. CASE MovesAlone(t)
  <2>1. Fenced(t)
    BY <1>1 DEF MovesAlone
  <2>2. th[t].at # "recording"
    BY DEF ReadyInv, ReadyFor, Overtaken
  <2>3. ~(th[t].at = "submitting" /\ th[t].kind # "recovered")
    BY DEF ReadyInv, ReadyFor, Overtaken, Claimant, Claiming
  <2> QED
    BY <2>1, <2>2, <2>3 DEF Fenced, Overtaken
<1>2. CASE ~MovesAlone(t)
  BY <1>2 DEF ThreadsGoOn, MovesAlone
<1> QED
  BY <1>1, <1>2

\* A worker whose generation is over writes nothing to the row: the claims,
\* leases and generations fence every UPDATE it may still attempt, and the
\* intent, fenced by a generation read from the row, is not reached.
THEOREM StaleWritesMiss == Spec => StaleWorkersWriteNothing
<1>1. Typed /\ RowInv /\ KindsFit /\ ReadyInv /\ [Next]_vars =>
          [\A t \in Threads : Overtaken(t) /\ th'[t] # th[t] => UNCHANGED row]_vars
  BY ThreadStep, OnlyInGeneration
<1> QED
  BY <1>1, AlwaysTyped, AlwaysRowInv, AlwaysKindsFit, AlwaysReadyInv, PTL
     DEF Spec, StaleWorkersWriteNothing

-----------------------------------------------------------------------------
(* DeferredEntry implements DeferredTerms.                                  *)

Worker == [t \in Threads |-> IF Works(t) THEN th[t].gen ELSE 0]
Senders == {t \in Threads : AtPost(t)}

\* What a stage says of the row, without the case distinction.
StageFacts ==
    /\ Stage = "submitted" <=> row.status = "SUBMITTED"
    /\ Stage = "ended" <=> row.status = "ended"
    /\ Stage = "waiting" <=> Pending /\ row.life \in {Waiting, "RETRY_WAIT"}
    /\ Stage = "selecting" <=> Pending /\ row.life = "MATERIALIZING" /\ row.lease
    /\ Stage = "lapsed" <=> Pending /\ row.life = "MATERIALIZING" /\ ~row.lease
    /\ Stage = "ready" <=> Pending /\ row.life = "BROKER_READY"
    /\ Stage = "unproven" <=> Pending /\ row.life = "PRE_SUBMIT_PROOF_RETRY"
    /\ Stage = "sending" <=> Pending /\ row.life = "SUBMITTING"

LEMMA Stages == ASSUME Typed PROVE StageFacts
<1>1. /\ row.status \in {"PENDING_TRIGGER", "SUBMITTED", "ended"}
      /\ row.life \in {Waiting, "MATERIALIZING", "RETRY_WAIT", "BROKER_READY",
                       "PRE_SUBMIT_PROOF_RETRY", "SUBMITTING"}
      /\ row.lease \in BOOLEAN
  BY RowFields DEF Lives, Ready
<1> QED
  BY <1>1 DEF Stage, StageFacts, Pending, Waiting

LEMMA StagesNext == ASSUME Typed' PROVE StageFacts'
<1>1. /\ row'.status \in {"PENDING_TRIGGER", "SUBMITTED", "ended"}
      /\ row'.life \in {Waiting, "MATERIALIZING", "RETRY_WAIT", "BROKER_READY",
                        "PRE_SUBMIT_PROOF_RETRY", "SUBMITTING"}
      /\ row'.lease \in BOOLEAN
  BY DEF Typed, Row, Lives, Ready
<1> QED
  BY <1>1 DEF Stage, StageFacts, Pending, Waiting

\* Only thread t moves, and when it still works, it does under term n.
Moved(t, n) ==
    /\ \A u \in Threads \ {t} : th'[u] = th[u]
    /\ Works(t)' => th'[t].gen = n
\* It is not about to send the order, before the step or after.
Aside(t) == ~AtPost(t) /\ ~AtPost(t)'

LEMMA Going ==
    ASSUME NEW t \in Threads, NEW n, Moved(t, n) PROVE Terms!Goes(t, n)
<1>1. \A u \in Threads \ {t} : Works(u)' <=> Works(u)
  BY DEF Moved, Works
<1>2. Worker' \in {[Worker EXCEPT ![t] = n], [Worker EXCEPT ![t] = 0]}
  BY <1>1 DEF Moved, Worker
<1> QED
  BY <1>2 DEF Worker, Terms!Goes

LEMMA SendersStay ==
    ASSUME NEW t \in Threads, NEW n, Moved(t, n), Aside(t) PROVE Senders' = Senders
BY DEF Moved, Aside, Senders, AtPost

\* The steps of the abstraction, by what they take here.
LEMMA Begins ==
    ASSUME NEW t \in Threads, Moved(t, row.gen + 1), Aside(t), UNCHANGED broker,
           row'.gen = row.gen + 1,
           \/ Stage \in {"waiting", "lapsed"} /\ Stage' = "selecting"
           \/ Stage = "unproven" /\ Stage' = "ready"
    PROVE  Terms!Next
<1>1. Terms!Goes(t, row.gen + 1) /\ Senders' = Senders
  BY Going, SendersStay DEF Moved, Terms!Goes
<1>2. Terms!Begin(t)
  BY <1>1 DEF Terms!Begin, Senders, AtPost
<1> QED
  BY <1>2 DEF Terms!Next

LEMMA Advances ==
    ASSUME NEW t \in Threads, Moved(t, row.gen), Aside(t), UNCHANGED broker,
           row'.gen = row.gen, Works(t), th[t].gen = row.gen,
           \/ Stage \in {"selecting", "lapsed"} /\ Stage' \in {"waiting", "ready"}
           \/ Stage = "ready" /\ Stage' = "unproven"
    PROVE  Terms!Next
<1>1. Terms!Goes(t, row.gen) /\ Senders' = Senders
  BY Going, SendersStay DEF Moved, Terms!Goes
<1>2. Worker[t] = row.gen
  BY DEF Worker
<1>3. Terms!Release(t) \/ Terms!Offer(t) \/ Terms!Doubt(t)
  BY <1>1, <1>2 DEF Terms!Release, Terms!Offer, Terms!Doubt, Terms!Advance, Senders,
     AtPost, Worker
<1> QED
  BY <1>3 DEF Terms!Next

LEMMA Decides ==
    ASSUME NEW t \in Threads, Moved(t, row.gen), UNCHANGED broker,
           row'.gen = row.gen, Works(t), th[t].gen = row.gen,
           Stage = "ready", Stage' = "sending", \A u \in Threads : ~AtPost(u)
    PROVE  Terms!Next
<1>1. Terms!Goes(t, row.gen)
  BY Going DEF Moved, Terms!Goes
<1>2. Worker[t] = row.gen
  BY DEF Worker
<1>3. Senders' \in {{t}, {}}
  BY DEF Moved, Senders, AtPost
<1>4. Terms!Decide(t)
  BY <1>1, <1>2, <1>3 DEF Terms!Decide, Terms!Advance, Senders, AtPost, Worker
<1> QED
  BY <1>4 DEF Terms!Next

LEMMA Joins ==
    ASSUME NEW t \in Threads, Moved(t, row.gen), Works(t)', Aside(t), UNCHANGED broker,
           row'.gen = row.gen, Stage = "ready", Stage' = Stage
    PROVE  Terms!Next
<1>1. Senders' = Senders
  BY SendersStay
<1>2. \A u \in Threads \ {t} : Works(u)' <=> Works(u)
  BY DEF Moved, Works
<1>3. Worker' = [Worker EXCEPT ![t] = row.gen]
  BY <1>2 DEF Moved, Worker
<1>4. Terms!Join(t)
  BY <1>1, <1>3 DEF Terms!Join, Senders, AtPost, Worker
<1> QED
  BY <1>4 DEF Terms!Next

\* The order leaves the workers, and the thread may stop or go on.
LEMMA Leaves ==
    ASSUME NEW t \in Threads, Moved(t, th[t].gen), Works(t)' => Works(t), Aside(t),
           UNCHANGED broker, row'.gen = row.gen,
           \/ Stage \in Terms!Live /\ Stage' = "ended"
           \/ Stage = "sending" /\ Stage' = "submitted" /\ broker.order = "accepted"
    PROVE  Terms!Next
<1>1. Senders' = Senders
  BY SendersStay
<1>2. Terms!Goes(t, Worker[t])
  <2>1. Moved(t, Worker[t])
    BY DEF Moved, Worker
  <2> QED
    BY <2>1, Going DEF Moved, Terms!Goes
<1>3. Terms!End(t) \/ Terms!Accept(t)
  BY <1>1, <1>2 DEF Terms!End, Terms!Accept, Senders, AtPost, Worker
<1> QED
  BY <1>3 DEF Terms!Next

LEMMA Stops ==
    ASSUME NEW t \in Threads, Moved(t, th[t].gen), Works(t)' => Works(t), Aside(t),
           UNCHANGED broker, row'.gen = row.gen, Stage' = Stage
    PROVE  Terms!Next
<1>1. Senders' = Senders /\ t \notin Senders
  BY SendersStay DEF Aside, Senders
<1>2. \A u \in Threads \ {t} : Works(u)' <=> Works(u)
  BY DEF Moved, Works
<1> DEFINE gone == IF Works(t)' THEN {} ELSE {t}
<1>3. /\ gone \in SUBSET Threads
      /\ Senders' = Senders \ gone
      /\ Worker' = [u \in Threads |-> IF u \in gone THEN 0 ELSE Worker[u]]
  BY <1>1, <1>2 DEF Moved, Worker
<1> HIDE DEF gone
<1>4. Terms!Stop
  BY <1>3 DEF Terms!Stop, Senders, AtPost, Worker
<1> QED
  BY <1>4 DEF Terms!Next

\* The thread whose intent has landed sends the order, or never will.
LEMMA Sent ==
    ASSUME NEW t \in Threads, Moved(t, th[t].gen), Works(t), AtPost(t), ~AtPost(t)'
    PROVE  t \in Senders /\ Senders' = Senders \ {t} /\ Terms!Goes(t, Worker[t])
<1>1. t \in Senders /\ Senders' = Senders \ {t}
  BY DEF Moved, Senders, AtPost
<1>2. Moved(t, Worker[t])
  BY DEF Moved, Worker
<1> QED
  BY <1>1, <1>2, Going DEF Moved, Terms!Goes

LEMMA Withholds ==
    ASSUME NEW t \in Threads, Moved(t, th[t].gen), Works(t),
           th[t].at \in {"intended", "posting"},
           th'[t].at \in {"idle", "reporting", "recording"},
           UNCHANGED broker, row'.gen = row.gen, Stage' = Stage
    PROVE  Terms!Next
<1>1. AtPost(t) /\ ~AtPost(t)'
  BY DEF AtPost
<1>2. t \in Senders /\ Senders' = Senders \ {t} /\ Terms!Goes(t, Worker[t])
  BY <1>1, Sent
<1>3. Terms!Withhold(t)
  BY <1>2 DEF Terms!Withhold, Senders, AtPost, Worker
<1> QED
  BY <1>3 DEF Terms!Next

LEMMA SendsIt ==
    ASSUME NEW t \in Threads, Moved(t, th[t].gen), Works(t),
           th[t].at \in {"intended", "posting"},
           th'[t].at \in {"idle", "reporting", "recording"},
           \E order \in {"accepted", "rejected"} :
               broker' = [order |-> order, posts |-> broker.posts + 1],
           row'.gen = row.gen, Stage' = Stage
    PROVE  Terms!Next
<1>1. AtPost(t) /\ ~AtPost(t)'
  BY DEF AtPost
<1>2. t \in Senders /\ Senders' = Senders \ {t} /\ Terms!Goes(t, Worker[t])
  BY <1>1, Sent
<1>3. broker'.posts = broker.posts + 1 /\ broker'.order \in {"accepted", "rejected"}
  OBVIOUS
<1>4. Terms!Send(t)
  BY <1>2, <1>3 DEF Terms!Send, Senders, AtPost, Worker
<1> QED
  BY <1>4 DEF Terms!Next

-----------------------------------------------------------------------------
(* What the callbacks do.                                                   *)

LEMMA SameStage == ASSUME UNCHANGED row PROVE Stage' = Stage /\ row'.gen = row.gen
BY DEF Stage, Pending

LEMMA LiveStage == ASSUME Typed, Pending PROVE Stage \in Terms!Live
<1>1. StageFacts
  BY Stages
<1>2. row.life \in Lives /\ row.lease \in BOOLEAN
  BY RowFields
<1> QED
  BY <1>1, <1>2 DEF StageFacts, Terms!Live, Lives, Ready

LEMMA EndStage ==
    ASSUME Typed', row'.status = "ended" PROVE Stage' = "ended"
BY StagesNext DEF StageFacts

\* A callback that goes on works under the same claim.
LEMMA CallMoves ==
    ASSUME Typed, KindsFit, NEW t \in Threads, th[t].at \in Selecting \cup Submitting,
           NEW next, Become(t, next),
           \/ next \in {Idle, After(t)}
           \/ \E step \in Selecting \cup Submitting : next = To(t, step)
           \/ next = [To(t, "submitting") EXCEPT !.read = row.gen]
    PROVE  /\ Moved(t, th[t].gen) /\ Works(t) /\ th'[t] = next
           /\ next \in {Idle, After(t)} => th'[t].at \in {"idle", "reporting"}
           /\ \A step : next = To(t, step) => th'[t].at = step
<1>1. th'[t] = next /\ \A u \in Threads \ {t} : th'[u] = th[u]
  BY Became
<1>2. Works(t) /\ th[t].kind # "none"
  BY DEF KindsFit, KindOf, Works, Claiming, Selecting, Submitting
<1>3. CASE next \in {Idle, After(t)}
  <2>1. \/ th'[t].at = "idle" /\ th'[t].kind = "none"
        \/ th'[t].at = "reporting" /\ th'[t].gen = th[t].gen
    BY <1>1, <1>3, AfterFields, IdleFields
  <2>2. Works(t)' => th'[t].gen = th[t].gen
    BY <2>1 DEF Works
  <2>3. \A step : next = To(t, step) => th'[t].at = step
    BY <1>1, ToFields
  <2> QED
    BY <1>1, <1>2, <2>1, <2>2, <2>3 DEF Moved
<1>4. ASSUME NEW step \in Selecting \cup Submitting, next = To(t, step)
      PROVE  th'[t].at = step /\ th'[t].kind = th[t].kind /\ th'[t].gen = th[t].gen
  BY <1>1, <1>4, ToFields
<1>5. CASE \E step \in Selecting \cup Submitting : next = To(t, step)
  <2>1. next = Idle => FALSE
    BY <1>2, <1>4, <1>5, <1>1, IdleFields
  <2>2. next = After(t) => th'[t].at \in {"idle", "reporting"}
    BY <1>1, AfterFields, IdleFields
  <2>3. \A step : next = To(t, step) => th'[t].at = step
    BY <1>1, ToFields
  <2> QED
    BY <1>1, <1>2, <1>4, <1>5, <2>1, <2>2, <2>3 DEF Moved
<1>6. CASE next = [To(t, "submitting") EXCEPT !.read = row.gen]
  <2>1. /\ th'[t].at = "submitting" /\ th'[t].kind = th[t].kind /\ th'[t].gen = th[t].gen
    BY <1>1, <1>6 DEF To, Typed, Thread
  <2>2. Works(t)'
    BY <1>2, <2>1 DEF Works, Claiming
  <2>3. next # Idle /\ next # After(t)
    BY <1>1, <1>2, <2>1, AfterFields, IdleFields
  <2>4. \A step : next = To(t, step) => th'[t].at = step
    BY <1>1, ToFields
  <2> QED
    BY <1>1, <1>2, <2>1, <2>2, <2>3, <2>4 DEF Moved
<1> QED
  BY <1>3, <1>5, <1>6

\* The contract is selected, or is not.
LEMMA SelectingKeeps ==
    ASSUME Typed, Typed', KindsFit, NEW t \in Threads,
           Reject(t) \/ Schedule(t) \/ Rearm(t) \/ CopyBack(t) \/ Fail(t) \/ Report(t)
    PROVE  Terms!Next
<1>1. th[t].at \in Selecting /\ UNCHANGED broker
  BY DEF Reject, Schedule, Rearm, CopyBack, Fail, Report, Selecting
<1>2. \E next : /\ Become(t, next)
                /\ next \in {Idle, After(t), To(t, "failing"), To(t, "reversed"),
                             To(t, "ready"), To(t, "reporting")}
  BY DEF Reject, Schedule, Rearm, CopyBack, Fail, Report, Write, Go
<1>3. /\ Moved(t, th[t].gen) /\ Works(t)
      /\ th'[t].at \in {"idle", "reporting", "failing", "reversed", "ready"}
  <2>1. PICK next : /\ Become(t, next)
                    /\ next \in {Idle, After(t), To(t, "failing"), To(t, "reversed"),
                                 To(t, "ready"), To(t, "reporting")}
    BY <1>2
  <2>2. \/ next \in {Idle, After(t)}
        \/ \E step \in Selecting \cup Submitting : next = To(t, step)
    BY <2>1 DEF Selecting, Submitting
  <2>3. /\ Moved(t, th[t].gen) /\ Works(t)
        /\ next \in {Idle, After(t)} => th'[t].at \in {"idle", "reporting"}
        /\ \A step : next = To(t, step) => th'[t].at = step
    BY <1>1, <2>1, <2>2, CallMoves
  <2> QED
    BY <2>1, <2>3
<1>4. Aside(t)
  BY <1>1, <1>3 DEF Aside, AtPost, Selecting
<1>5. CASE UNCHANGED row
  BY <1>1, <1>3, <1>4, <1>5, SameStage, Stops
<1>6. CASE ~UNCHANGED row /\ ~Fail(t)
  <2>1. /\ Materializing(t)
        /\ row' \in {Scheduled(t), Rearmed(t),
                     [row EXCEPT !.life = "BROKER_READY", !.current = Name(t), !.lease = FALSE]}
    BY <1>6 DEF Reject, Schedule, Rearm, CopyBack, Report, Write
  <2>2. /\ row.status = "PENDING_TRIGGER" /\ row.life = "MATERIALIZING"
        /\ row.gen = th[t].gen /\ row.lease \in BOOLEAN
    BY <2>1, RowFields DEF Materializing, Pending, Owns
  <2>3. /\ row'.status = "PENDING_TRIGGER" /\ row'.gen = row.gen
        /\ row'.life \in {"RETRY_WAIT", Waiting, "BROKER_READY"}
    BY <2>1, <2>2 DEF Scheduled, Rearmed, Typed, Row
  <2>4. Stage \in {"selecting", "lapsed"} /\ Stage' \in {"waiting", "ready"}
    BY <2>2, <2>3, Stages, StagesNext DEF StageFacts, Pending
  <2> QED
    BY <1>1, <1>3, <1>4, <2>2, <2>3, <2>4, Advances
<1>7. CASE ~UNCHANGED row /\ Fail(t)
  <2>1. Pending /\ row' \in {Ended, EndedFenced}
    BY <1>7 DEF Fail, Write, Materializing
  <2>2. row'.status = "ended" /\ row'.gen = row.gen
    BY <2>1 DEF Ended, EndedFenced, Typed, Row
  <2> QED
    BY <1>1, <1>3, <1>4, <2>1, <2>2, LiveStage, EndStage, Leaves
<1> QED
  BY <1>5, <1>6, <1>7

\* It is ready, and may be refused, doubted or kept.
LEMMA ReadyKeeps ==
    ASSUME Typed, Typed', KindsFit, NEW t \in Threads,
           Refuse(t) \/ Terminalize(t) \/ Unproven(t) \/ Submit(t)
    PROVE  Terms!Next
<1>1. th[t].at \in {"ready", "rejecting"} /\ UNCHANGED broker
  BY DEF Refuse, Terminalize, Unproven, Submit
<1>2. \E next : /\ Become(t, next)
                /\ next \in {Idle, After(t), To(t, "rejecting"),
                             [To(t, "submitting") EXCEPT !.read = row.gen]}
  BY DEF Refuse, Terminalize, Unproven, Submit, Write, Go
<1>3. /\ Moved(t, th[t].gen) /\ Works(t)
      /\ th'[t].at \in {"idle", "reporting", "rejecting", "submitting"}
  <2>1. PICK next : /\ Become(t, next)
                    /\ next \in {Idle, After(t), To(t, "rejecting"),
                                 [To(t, "submitting") EXCEPT !.read = row.gen]}
    BY <1>2
  <2>2. \/ next \in {Idle, After(t)}
        \/ \E step \in Selecting \cup Submitting : next = To(t, step)
        \/ next = [To(t, "submitting") EXCEPT !.read = row.gen]
    BY <2>1 DEF Selecting, Submitting
  <2>3. th[t].at \in Selecting \cup Submitting
    BY <1>1 DEF Submitting
  <2>4. /\ Moved(t, th[t].gen) /\ Works(t) /\ th'[t] = next
        /\ next \in {Idle, After(t)} => th'[t].at \in {"idle", "reporting"}
        /\ \A step : next = To(t, step) => th'[t].at = step
    BY <2>1, <2>2, <2>3, CallMoves
  <2>5. [To(t, "submitting") EXCEPT !.read = row.gen].at = "submitting"
    BY DEF To, Typed, Thread
  <2> QED
    BY <2>1, <2>4, <2>5
<1>4. Aside(t)
  BY <1>1, <1>3 DEF Aside, AtPost
<1>5. CASE UNCHANGED row
  BY <1>1, <1>3, <1>4, <1>5, SameStage, Stops
<1>6. CASE ~UNCHANGED row /\ Unproven(t)
  <2>1. Deferrable(Name(t), th[t].gen) /\ row' = Deferred(1)
    BY <1>6 DEF Unproven, Write
  <2>2. /\ row.status = "PENDING_TRIGGER" /\ row.life = "BROKER_READY"
        /\ row.gen = th[t].gen
    BY <2>1 DEF Deferrable, Pending
  <2>3. /\ row'.status = "PENDING_TRIGGER" /\ row'.gen = row.gen
        /\ row'.life = "PRE_SUBMIT_PROOF_RETRY"
    BY <2>1, <2>2 DEF Deferred, Typed, Row
  <2>4. Stage = "ready" /\ Stage' = "unproven"
    BY <2>2, <2>3, Stages, StagesNext DEF StageFacts, Pending
  <2> QED
    BY <1>1, <1>3, <1>4, <2>2, <2>3, <2>4, Advances
<1>7. CASE ~UNCHANGED row /\ Terminalize(t)
  <2>1. /\ Pending
        /\ row' \in {[row EXCEPT !.status = "ended", !.life = Waiting, !.current = Terminal],
                     EndedFenced}
    BY <1>7 DEF Terminalize, Write, BrokerReady
  <2>2. row'.status = "ended" /\ row'.gen = row.gen
    BY <2>1 DEF Ended, EndedFenced, Typed, Row
  <2> QED
    BY <1>1, <1>3, <1>4, <2>1, <2>2, LiveStage, EndStage, Leaves
<1> QED
  BY <1>5, <1>6, <1>7 DEF Refuse, Submit

\* It is sent by the thread whose intent has landed.
LEMMA SubmittingKeeps ==
    ASSUME Typed, Typed', RowInv, KindsFit, ReadyInv, SubmitInv, NEW t \in Threads,
           Intend(t) \/ Prove(t) \/ Post(t) \/ Record(t)
    PROVE  Terms!Next
<1>1. th[t].at \in {"submitting", "intended", "posting", "recording"}
  BY DEF Intend, Prove, Post, Record
<1>2. \E next : /\ Become(t, next)
                /\ \/ next \in {Idle, After(t), To(t, "rejecting"), To(t, "intended")}
                   \/ next \in {To(t, "posting"), To(t, "recording")}
  BY DEF Intend, Prove, Post, Record, Write, Go
<1>3. /\ Moved(t, th[t].gen) /\ Works(t)
      /\ \A step : Become(t, To(t, step)) => th'[t].at = step /\ th'[t].kind = th[t].kind
      /\ \A next \in {Idle, After(t)} : Become(t, next) => th'[t].at \in {"idle", "reporting"}
  <2>1. PICK next : /\ Become(t, next)
                    /\ \/ next \in {Idle, After(t), To(t, "rejecting"), To(t, "intended")}
                       \/ next \in {To(t, "posting"), To(t, "recording")}
    BY <1>2
  <2>2. \/ next \in {Idle, After(t)}
        \/ \E step \in Selecting \cup Submitting : next = To(t, step)
    BY <2>1 DEF Submitting
  <2>3. th[t].at \in Selecting \cup Submitting
    BY <1>1 DEF Submitting
  <2>4. Moved(t, th[t].gen) /\ Works(t)
    BY <2>1, <2>2, <2>3, CallMoves
  <2>5. \A step : Become(t, To(t, step)) => th'[t].at = step /\ th'[t].kind = th[t].kind
    BY Became, ToFields
  <2>6. \A other \in {Idle, After(t)} :
            Become(t, other) => th'[t].at \in {"idle", "reporting"}
    BY Became, AfterFields, IdleFields
  <2> QED
    BY <2>4, <2>5, <2>6
<1>4. UNCHANGED row => Stage' = Stage /\ row'.gen = row.gen
  BY SameStage
<1>a. CASE Intend(t)
  <2>1. th[t].at = "submitting" /\ UNCHANGED broker
    BY <1>a DEF Intend
  <2>2. CASE UNCHANGED row /\ (Become(t, After(t)) \/ Become(t, To(t, "rejecting")))
    <3>1. th'[t].at \in {"idle", "reporting", "rejecting"}
      BY <1>3, <2>2
    <3>2. Aside(t)
      BY <2>1, <3>1 DEF Aside, AtPost
    <3> QED
      BY <1>3, <1>4, <2>1, <2>2, <3>2, Stops
  <2>3. CASE MayIntend(t) /\ row' = Intended
    <3>1. MayIntend(t) /\ row' = Intended
      BY <2>3
    <3>2. /\ row.status = "PENDING_TRIGGER" /\ row.life = "BROKER_READY" /\ ~row.intent
      BY <3>1 DEF MayIntend, BrokerReady, Pending
    <3>3. th[t].gen = row.gen
      <4>1. CASE th[t].kind = "recovered"
        BY <3>1, <4>1 DEF MayIntend, HoldsSubmit
      <4>2. CASE th[t].kind # "recovered"
        <5>1. Claimant(t)
          BY <2>1, <4>2, ThreadFields DEF KindsFit, KindOf, Submitting, Claimant, Claiming, Kinds
        <5> QED
          BY <2>1, <5>1 DEF ReadyInv, ReadyFor
      <4> QED
        BY <4>1, <4>2
    <3>4. /\ row'.status = "PENDING_TRIGGER" /\ row'.life = "SUBMITTING"
          /\ row'.gen = row.gen
      BY <3>1, <3>2 DEF Intended, Typed, Row
    <3>5. Stage = "ready" /\ Stage' = "sending"
      BY <3>2, <3>4, Stages, StagesNext DEF StageFacts, Pending
    <3>6. \A u \in Threads : ~AtPost(u)
      BY <3>2 DEF SubmitInv
    <3> QED
      BY <1>3, <2>1, <3>3, <3>4, <3>5, <3>6, Decides
  <2> QED
    BY <1>a, <2>2, <2>3 DEF Intend, Write, Go
<1>b. CASE Prove(t)
  <2>1. th[t].at = "intended" /\ UNCHANGED <<row, broker>>
    BY <1>b DEF Prove
  <2>2. CASE Become(t, To(t, "posting"))
    <3>1. th'[t].at = "posting" /\ th'[t].kind = th[t].kind
      BY <1>3, <2>2
    <3>2. AtPost(t) /\ AtPost(t)' /\ Works(t)'
      BY <1>3, <2>1, <3>1 DEF AtPost, Works, Claiming
    <3>3. Senders' = Senders /\ Worker' = Worker
      BY <1>3, <3>2 DEF Moved, Senders, Worker, Works, AtPost
    <3>4. Terms!Stop
      <4>1. /\ Senders' = Senders \ {}
            /\ Worker' = [u \in Threads |-> IF u \in {} THEN 0 ELSE Worker[u]]
        BY <3>3 DEF Worker
      <4>2. {} \in SUBSET Threads
        OBVIOUS
      <4> QED
        BY <1>4, <2>1, <4>1, <4>2 DEF Terms!Stop, Senders, AtPost, Worker
    <3> QED
      BY <3>4 DEF Terms!Next
  <2>3. CASE Become(t, After(t))
    <3>1. th'[t].at \in {"idle", "reporting"}
      BY <1>3, <2>3
    <3> QED
      BY <1>3, <1>4, <2>1, <3>1, Withholds
  <2> QED
    BY <1>b, <2>2, <2>3 DEF Prove
<1>c. CASE Post(t)
  <2>1. th[t].at = "posting" /\ UNCHANGED row
    BY <1>c DEF Post
  <2>2. th'[t].at \in {"idle", "reporting", "recording"}
    BY <1>3, <1>c DEF Post, Go
  <2>3. \/ UNCHANGED broker
        \/ \E order \in {"accepted", "rejected"} :
              broker' = [order |-> order, posts |-> broker.posts + 1]
    BY <1>c DEF Post
  <2> QED
    BY <1>3, <1>4, <2>1, <2>2, <2>3, Withholds, SendsIt
<1>d. CASE Record(t)
  <2>1. th[t].at = "recording" /\ UNCHANGED broker /\ Become(t, After(t))
    BY <1>d DEF Record
  <2>2. th'[t].at \in {"idle", "reporting"}
    BY <1>3, <2>1
  <2>3. Aside(t)
    BY <2>1, <2>2 DEF Aside, AtPost
  <2>4. CASE UNCHANGED row
    BY <1>3, <1>4, <2>1, <2>3, <2>4, Stops
  <2>5. CASE ~UNCHANGED row
    <3>1. /\ Pending
          /\ \/ broker.order = "accepted" /\ row' = [row EXCEPT !.status = "SUBMITTED"]
             \/ row' = [row EXCEPT !.status = "ended"]
      BY <1>d, <2>5 DEF Record
    <3>2. row'.gen = row.gen
      BY <3>1 DEF Typed, Row
    <3>3. CASE row' = [row EXCEPT !.status = "ended"]
      <4>1. row'.status = "ended"
        BY <3>3 DEF Typed, Row
      <4> QED
        BY <1>3, <2>1, <2>3, <3>1, <3>2, <4>1, LiveStage, EndStage, Leaves
    <3>4. CASE broker.order = "accepted" /\ row' = [row EXCEPT !.status = "SUBMITTED"]
      <4>1. row'.status = "SUBMITTED"
        BY <3>4 DEF Typed, Row
      <4>2. row.life = "SUBMITTING"
        BY <2>1, <3>1 DEF ReadyInv, ReadyFor, RowInv, IntentLocks
      <4>3. Stage = "sending" /\ Stage' = "submitted"
        BY <3>1, <4>1, <4>2, Stages, StagesNext DEF StageFacts
      <4> QED
        BY <1>3, <2>1, <2>3, <3>2, <3>4, <4>3, Leaves
    <3> QED
      BY <3>1, <3>3, <3>4
  <2> QED
    BY <2>4, <2>5
<1> QED
  BY <1>a, <1>b, <1>c, <1>d

-----------------------------------------------------------------------------
(* What watchers and recovery do.                                           *)

\* A thread that is idle, passes through the rows or is about to claim one
\* works under no claim.
Idles(t) ==
    \/ th'[t].kind = "none" /\ th'[t].at \in Resting \ {"proving", "deferring"}
    \/ th'[t].at \in Claiming

LEMMA Idling ==
    ASSUME NEW t \in Threads, th[t].at \in Resting \cup Claiming, Idles(t),
           \A u \in Threads \ {t} : th'[u] = th[u]
    PROVE  /\ Aside(t) /\ ~Works(t)'
           /\ Moved(t, th[t].gen) /\ Moved(t, row.gen) /\ Moved(t, row.gen + 1)
<1>1. ~Works(t)' /\ ~AtPost(t)' /\ ~AtPost(t)
  BY DEF Idles, Works, AtPost, Resting, Passing, Claiming
<1> QED
  BY <1>1 DEF Aside, Moved

\* What an idle or passing thread becomes, mostly.
LEMMA Passes ==
    ASSUME Typed, KindsFit, NEW t \in Threads, th[t].at \in Resting,
           NEW next, Become(t, next),
           \/ next = Idle
           \/ \E step \in Resting \ {"proving", "deferring"} : next = To(t, step)
    PROVE  Idles(t) /\ \A u \in Threads \ {t} : th'[u] = th[u]
<1>1. th'[t] = next /\ \A u \in Threads \ {t} : th'[u] = th[u]
  BY Became
<1>2. th[t].kind = "none"
  BY DEF KindsFit, KindOf
<1>3. CASE next = Idle
  BY <1>1, <1>3, IdleFields DEF Idles, Resting
<1>4. ASSUME NEW step \in Resting \ {"proving", "deferring"}, next = To(t, step)
      PROVE  Idles(t)
  BY <1>1, <1>2, <1>4, ToFields DEF Idles
<1> QED
  BY <1>1, <1>3, <1>4

LEMMA PassKeeps ==
    ASSUME NEW t \in Threads, th[t].at \in Resting \cup Claiming, Idles(t),
           \A u \in Threads \ {t} : th'[u] = th[u],
           UNCHANGED broker, row'.gen = row.gen, Stage' = Stage
    PROVE  Terms!Next
BY Idling, Stops

\* A step that writes nothing, and what no stage shows.
LEMMA SameFields ==
    ASSUME Typed, Typed', row'.status = row.status, row'.life = row.life,
           row'.lease = row.lease
    PROVE  Stage' = Stage
BY DEF Stage, Pending

\* A claim of the trigger, of a due retry, or of a proof.
LEMMA ClaimKeeps ==
    ASSUME Typed, Typed', NEW t \in Threads, th[t].at = "claiming", th[t].kind # "none",
           NEW who, NEW prior, NEW attempt, UNCHANGED broker,
           Write(t, Claimable(th[t].gen, prior), Claimed(who, th[t].gen, attempt),
                 To(t, "owned"), Idle)
    PROVE  Terms!Next
<1>1. /\ \A u \in Threads \ {t} : th'[u] = th[u]
      /\ th'[t] = Idle \/ th'[t] = To(t, "owned")
  BY Became DEF Write
<1>2. th'[t].at \in {"idle", "owned"} /\ (Works(t)' => th'[t].gen = th[t].gen)
  BY <1>1, ToFields, IdleFields DEF Works
<1>3. Aside(t) /\ Moved(t, th[t].gen)
  BY <1>1, <1>2 DEF Aside, AtPost, Moved
<1>4. CASE UNCHANGED row /\ th'[t] = Idle
  <2>1. ~Works(t)'
    BY <1>4, IdleFields DEF Works
  <2> QED
    BY <1>3, <1>4, <2>1, SameStage, Stops
<1>5. CASE /\ Claimable(th[t].gen, prior)
           /\ row' = Claimed(who, th[t].gen, attempt)
  <2>1. /\ row.status = "PENDING_TRIGGER" /\ row.life \notin Ready
        /\ row.life \in {Waiting, "RETRY_WAIT"} \/ ~row.lease
        /\ row.gen + 1 = th[t].gen
    BY <1>5 DEF Claimable, Pending
  <2>2. /\ row'.status = "PENDING_TRIGGER" /\ row'.life = "MATERIALIZING"
        /\ row'.lease = TRUE /\ row'.gen = row.gen + 1
    BY <1>5, <2>1 DEF Claimed, Typed, Row
  <2>3. Stage \in {"waiting", "lapsed"}
    <3>1. row.life \in {Waiting, "MATERIALIZING", "RETRY_WAIT"}
      BY <2>1, RowFields DEF Lives
    <3> QED
      BY <2>1, <3>1, Stages DEF StageFacts, Pending
  <2>4. Stage' = "selecting"
    BY <2>2, StagesNext DEF StageFacts, Pending
  <2>5. Moved(t, row.gen + 1)
    BY <1>3, <2>1 DEF Moved
  <2> QED
    BY <1>3, <2>2, <2>3, <2>4, <2>5, Begins
<1> QED
  BY <1>1, <1>4, <1>5, Became DEF Write

LEMMA WatchKeeps ==
    ASSUME Typed, Typed', KindsFit, NEW p \in Processes, Watch(p)
    PROVE  Terms!Next \/ UNCHANGED <<row, broker, th>>
<1> DEFINE t == Watcher(p)
<1>0. t \in Threads
  BY ThreadOf
<1> HIDE DEF t
<1>a. CASE Fire(p)
  <2>1. th[t].at = "idle" /\ UNCHANGED <<row, broker>>
    BY <1>a DEF Fire, t
  <2>2. CASE Become(t, [Idle EXCEPT !.at = "claiming", !.kind = "trigger",
                                    !.gen = row.gen + 1])
    <3>1. th'[t].at = "claiming" /\ \A u \in Threads \ {t} : th'[u] = th[u]
      BY <1>0, <2>2 DEF Become, Typed, Idle
    <3>2. Idles(t) /\ th[t].at \in Resting
      BY <2>1, <3>1 DEF Idles, Claiming, Resting
    <3> QED
      BY <1>0, <2>1, <3>1, <3>2, SameStage, PassKeeps
  <2> QED
    BY <1>a, <2>1, <2>2 DEF Fire, t
<1>b. CASE ClaimForTrigger(p)
  <2>1. th[t].at = "claiming" /\ UNCHANGED broker
    BY <1>b DEF ClaimForTrigger, t
  <2>2. th[t].kind # "none"
    BY <1>0, <2>1 DEF KindsFit, KindOf
  <2>3. Write(t, Claimable(th[t].gen, 0), Claimed(p, th[t].gen, 0), To(t, "owned"), Idle)
    BY <1>b DEF ClaimForTrigger, t
  <2> QED
    BY <1>0, <2>1, <2>2, <2>3, ClaimKeeps
<1>c. CASE GiveUp(p)
  <2>1. CASE UNCHANGED row
    BY <1>c, <2>1 DEF GiveUp
  <2>2. CASE Pending /\ row' = Ended
    <3>1. row'.status = "ended" /\ row'.gen = row.gen
      BY <2>2 DEF Ended, Typed, Row
    <3>2. th[t].at = "idle" /\ UNCHANGED <<th, broker>>
      BY <1>c DEF GiveUp, t
    <3>3. Moved(t, th[t].gen) /\ Aside(t) /\ (Works(t)' => Works(t))
      BY <3>2 DEF Moved, Aside, AtPost, Works
    <3> QED
      BY <1>0, <2>2, <3>1, <3>2, <3>3, LiveStage, EndStage, Leaves
  <2> QED
    BY <1>c, <2>1, <2>2 DEF GiveUp
<1>d. CASE Expire(p)
  <2>1. th[t].at = "idle" /\ UNCHANGED <<row, broker>>
        /\ Become(t, [Idle EXCEPT !.at = "expiring"])
    BY <1>d DEF Expire, t
  <2>2. /\ th'[t].at = "expiring" /\ th'[t].kind = "none"
        /\ \A u \in Threads \ {t} : th'[u] = th[u]
    BY <1>0, <2>1, Became DEF Idle
  <2>3. Idles(t) /\ th[t].at \in Resting
    BY <2>1, <2>2 DEF Idles, Resting, Passing
  <2> QED
    BY <1>0, <2>1, <2>2, <2>3, SameStage, PassKeeps
<1>e. CASE ExpireRow(p)
  <2>1. th[t].at = "expiring" /\ UNCHANGED broker /\ Become(t, Idle)
    BY <1>e DEF ExpireRow, Write, t
  <2>2. th[t].at \in Resting
    BY <2>1 DEF Resting, Passing
  <2>3. Idles(t) /\ \A u \in Threads \ {t} : th'[u] = th[u]
    BY <1>0, <2>1, <2>2, Passes
  <2>4. CASE UNCHANGED row
    BY <1>0, <2>1, <2>2, <2>3, <2>4, SameStage, PassKeeps
  <2>5. CASE Pending /\ row' = [row EXCEPT !.status = "ended"]
    <3>1. row'.status = "ended" /\ row'.gen = row.gen
      BY <2>5 DEF Typed, Row
    <3>2. Aside(t) /\ ~Works(t)' /\ Moved(t, th[t].gen)
      BY <1>0, <2>2, <2>3, Idling
    <3> QED
      BY <1>0, <2>1, <2>5, <3>1, <3>2, LiveStage, EndStage, Leaves
  <2> QED
    BY <1>e, <2>4, <2>5 DEF ExpireRow, Write
<1> QED
  BY <1>a, <1>b, <1>c, <1>d, <1>e DEF Watch

\* What recovery writes about the row without touching its stage, and what it
\* only decides.
LEMMA LooksKeep ==
    ASSUME Typed, Typed', KindsFit, NEW p \in Processes,
           \/ Scan(p) \/ Resume(p) \/ Retry(p) \/ Stranded(p) \/ Unwatchable(p)
           \/ Rewatch(p) \/ Retain(p) \/ AdoptRetry(p)
    PROVE  Terms!Next \/ UNCHANGED <<row, broker, th>>
<1> DEFINE t == Recovery(p)
<1>0. t \in Threads
  BY ThreadOf
<1> HIDE DEF t
<1>1. UNCHANGED broker
  BY DEF Scan, Resume, Retry, Stranded, Unwatchable, Rewatch, Retain, AdoptRetry
<1>2. Stage' = Stage /\ row'.gen = row.gen
  <2>1. CASE UNCHANGED row
    BY <2>1, SameStage
  <2>2. CASE row' \in {[row EXCEPT !.recovery = Scheduler], [row EXCEPT !.current = p, !.token = p]}
    <3>1. /\ row'.status = row.status /\ row'.life = row.life /\ row'.lease = row.lease
          /\ row'.gen = row.gen
      BY <2>2 DEF Typed, Row
    <3> QED
      BY <3>1, SameFields
  <2> QED
    BY <2>1, <2>2 DEF Scan, Resume, Retry, Stranded, Unwatchable, Rewatch, Retain,
       AdoptRetry, Write
<1>3. CASE th[t].at \in Resting /\ th' # th
  <2>1. \/ /\ Become(t, [Idle EXCEPT !.at = "scanned", !.gen = row.gen,
                           !.attempt = row.attempt, !.life = row.life, !.proofs = row.proofs])
        \/ /\ Become(t, [Idle EXCEPT !.at = "claimingSubmit", !.kind = "recovered",
                                     !.gen = row.gen])
        \/ /\ Become(t, [Idle EXCEPT !.at = "claiming", !.kind = "retry",
                             !.gen = th[t].gen + 1, !.attempt = th[t].attempt + 1])
        \/ Become(t, Idle) \/ Become(t, To(t, "ending")) \/ Become(t, To(t, "retaining"))
        \/ Become(t, To(t, "fencing"))
    BY <1>3 DEF Scan, Resume, Retry, Stranded, Unwatchable, Rewatch, Retain, AdoptRetry,
       Write, Go, Finish, t
  <2>2. Idles(t) /\ \A u \in Threads \ {t} : th'[u] = th[u]
    <3>1. th \in [Threads -> Thread]
      BY DEF Typed
    <3>4. CASE Become(t, [Idle EXCEPT !.at = "scanned", !.gen = row.gen,
                           !.attempt = row.attempt, !.life = row.life, !.proofs = row.proofs])
      <4>1. /\ th'[t].at = "scanned" /\ th'[t].kind = "none"
            /\ \A u \in Threads \ {t} : th'[u] = th[u]
        BY <1>0, <3>1, <3>4 DEF Become, Idle
      <4> QED
        BY <4>1 DEF Idles, Resting, Passing
    <3>5. CASE Become(t, [Idle EXCEPT !.at = "claimingSubmit", !.kind = "recovered",
                                      !.gen = row.gen])
      <4>1. /\ th'[t].at = "claimingSubmit"
            /\ \A u \in Threads \ {t} : th'[u] = th[u]
        BY <1>0, <3>1, <3>5 DEF Become, Idle
      <4> QED
        BY <4>1 DEF Idles, Claiming
    <3>6. CASE Become(t, [Idle EXCEPT !.at = "claiming", !.kind = "retry",
                             !.gen = th[t].gen + 1, !.attempt = th[t].attempt + 1])
      <4>1. /\ th'[t].at = "claiming"
            /\ \A u \in Threads \ {t} : th'[u] = th[u]
        BY <1>0, <3>1, <3>6 DEF Become, Idle
      <4> QED
        BY <4>1 DEF Idles, Claiming
    <3>2. ASSUME NEW step \in {"ending", "retaining", "fencing"}, Become(t, To(t, step))
          PROVE  Idles(t) /\ \A u \in Threads \ {t} : th'[u] = th[u]
      <4>1. step \in Resting \ {"proving", "deferring"}
        BY <3>2 DEF Resting, Passing
      <4> QED
        BY <1>0, <1>3, <3>2, <4>1, Passes
    <3>3. CASE Become(t, Idle)
      BY <1>0, <1>3, <3>3, Passes
    <3> QED
      BY <2>1, <3>2, <3>3, <3>4, <3>5, <3>6
  <2> QED
    BY <1>0, <1>1, <1>2, <1>3, <2>2, PassKeeps
<1>4. CASE UNCHANGED th
  <2>1. Moved(t, th[t].gen) /\ (Works(t)' => Works(t)) /\ (AtPost(t)' <=> AtPost(t))
    BY <1>4 DEF Moved, Works, AtPost
  <2>2. CASE ~AtPost(t)
    BY <1>0, <1>1, <1>2, <2>1, <2>2, Stops DEF Aside
  <2>3. CASE AtPost(t)
    <3>1. ~(\/ Seen(p, Waiting) \/ th[t].at \in {"idle", "scanned", "resuming", "retaining"})
      BY <2>3 DEF Seen, AtPost, t
    <3>2. FALSE
      BY <3>1 DEF Scan, Resume, Retry, Stranded, Unwatchable, Rewatch, Retain, AdoptRetry,
         Seen, t
    <3> QED
      BY <3>2
  <2> QED
    BY <2>2, <2>3
<1>5. th[t].at \in Resting
  BY DEF Scan, Resume, Retry, Stranded, Unwatchable, Rewatch, Retain, AdoptRetry, Seen,
     Resting, Passing, t
<1> QED
  BY <1>3, <1>4, <1>5

\* It ends the row, or finds at the broker what became of it.
LEMMA EndsKeep ==
    ASSUME Typed, Typed', RowInv, KindsFit, NEW p \in Processes,
           Overdue(p) \/ EndUnowned(p) \/ Fence(p) \/ Reconcile(p)
    PROVE  Terms!Next
<1> DEFINE t == Recovery(p)
<1>0. t \in Threads
  BY ThreadOf
<1> HIDE DEF t
<1>1. th[t].at \in {"scanned", "ending", "fencing"} /\ UNCHANGED broker
  BY DEF Overdue, EndUnowned, Fence, Reconcile, Seen, t
<1>2. Become(t, Idle) \/ Become(t, To(t, "retaining"))
  BY DEF Overdue, EndUnowned, Fence, Reconcile, Write, t
<1>3. th[t].at \in Resting /\ "retaining" \in Resting \ {"proving", "deferring"}
  BY <1>1 DEF Resting, Passing
<1>4. Idles(t) /\ \A u \in Threads \ {t} : th'[u] = th[u]
  BY <1>0, <1>2, <1>3, Passes
<1>5. Aside(t) /\ ~Works(t)' /\ Moved(t, th[t].gen)
  BY <1>0, <1>3, <1>4, Idling
<1>6. CASE UNCHANGED row
  BY <1>0, <1>1, <1>5, <1>6, SameStage, Stops
<1>7. CASE /\ Pending
           /\ row' \in {Ended, [row EXCEPT !.status = "ended"]}
  <2>1. row'.status = "ended" /\ row'.gen = row.gen
    BY <1>7 DEF Ended, Typed, Row
  <2> QED
    BY <1>0, <1>1, <1>5, <1>7, <2>1, LiveStage, EndStage, Leaves
<1>8. CASE /\ Pending /\ row.intent /\ broker.order = "accepted"
           /\ row' = [row EXCEPT !.status = "SUBMITTED"]
  <2>1. row'.status = "SUBMITTED" /\ row'.gen = row.gen
    BY <1>8 DEF Typed, Row
  <2>2. row.life = "SUBMITTING"
    BY <1>8 DEF RowInv, IntentLocks
  <2>3. Stage = "sending" /\ Stage' = "submitted"
    BY <1>8, <2>1, <2>2, Stages, StagesNext DEF StageFacts
  <2> QED
    BY <1>0, <1>1, <1>5, <1>8, <2>1, <2>3, Leaves
<1> QED
  BY <1>6, <1>7, <1>8 DEF Overdue, EndUnowned, Fence, Reconcile, RetryUnchanged, Write

\* It claims the submission of a row that is ready.
LEMMA JoinKeeps ==
    ASSUME Typed, Typed', KindsFit, NEW p \in Processes, ClaimSubmit(p)
    PROVE  Terms!Next
<1> DEFINE t == Recovery(p)
<1>0. t \in Threads
  BY ThreadOf
<1> HIDE DEF t
<1>1. th[t].at = "claimingSubmit" /\ UNCHANGED broker
  BY DEF ClaimSubmit, t
<1>2. th[t].kind = "recovered"
  BY <1>0, <1>1 DEF KindsFit, KindOf
<1>3. Become(t, Idle) \/ Become(t, To(t, "ready"))
  BY DEF ClaimSubmit, Write, t
<1>4. \A u \in Threads \ {t} : th'[u] = th[u]
  BY <1>0, <1>3, Became
<1>5. Stage' = Stage /\ row'.gen = row.gen
  <2>1. CASE UNCHANGED row
    BY <2>1, SameStage
  <2>2. CASE row' = [row EXCEPT !.current = RecoverySubmit, !.submitter = p,
                                !.submitLease = TRUE]
    <3>1. /\ row'.status = row.status /\ row'.life = row.life /\ row'.lease = row.lease
          /\ row'.gen = row.gen
      BY <2>2 DEF Typed, Row
    <3> QED
      BY <3>1, SameFields
  <2> QED
    BY <2>1, <2>2 DEF ClaimSubmit, Write
<1>6. CASE Become(t, Idle)
  <2>1. th'[t].at = "idle" /\ th'[t].kind = "none"
    BY <1>0, <1>6, Became, IdleFields
  <2>2. Idles(t) /\ th[t].at \in Claiming
    BY <1>1, <2>1 DEF Idles, Resting, Claiming
  <2> QED
    BY <1>0, <1>1, <1>4, <1>5, <2>2, PassKeeps
<1>7. CASE Become(t, To(t, "ready")) /\ SubmitClaimable(t)
  <2>1. th'[t].at = "ready" /\ th'[t].kind = "recovered" /\ th'[t].gen = th[t].gen
    BY <1>0, <1>2, <1>7, Became, ToFields
  <2>2. th[t].gen = row.gen /\ row.status = "PENDING_TRIGGER" /\ row.life = "BROKER_READY"
    BY <1>7 DEF SubmitClaimable, BrokerReady, Pending
  <2>3. Works(t)' /\ Aside(t) /\ Moved(t, row.gen)
    BY <1>1, <1>4, <2>1, <2>2 DEF Works, Aside, AtPost, Moved, Claiming
  <2>4. Stage = "ready"
    BY <2>2, Stages DEF StageFacts, Pending
  <2> QED
    BY <1>0, <1>1, <1>5, <2>3, <2>4, Joins
<1>8. \/ Become(t, Idle)
      \/ Become(t, To(t, "ready")) /\ SubmitClaimable(t)
  BY DEF ClaimSubmit, Write, t
<1> QED
  BY <1>6, <1>7, <1>8

\* It takes a row that waits for its proof, and proves or doubts it.
LEMMA ProofKeeps ==
    ASSUME Typed, Typed', KindsFit, NEW p \in Processes,
           ClaimProof(p) \/ Reprove(p) \/ Defer(p)
    PROVE  Terms!Next
<1> DEFINE t == Recovery(p)
<1>0. t \in Threads /\ th \in [Threads -> Thread]
  BY ThreadOf DEF Typed
<1> HIDE DEF t
<1>1. th[t].at \in {"scanned", "proving", "deferring"} /\ UNCHANGED broker
  BY DEF ClaimProof, Reprove, Defer, Seen, t
<1>2. th[t].at \in Resting
  BY <1>1 DEF Resting, Passing
<1>3. ASSUME UNCHANGED row,
             \/ Become(t, Idle)
             \/ \E step \in {"ending", "resuming"} : Become(t, To(t, step))
      PROVE  Terms!Next
  <2>1. {"ending", "resuming"} \subseteq Resting \ {"proving", "deferring"}
    BY DEF Resting, Passing
  <2>2. Idles(t) /\ \A u \in Threads \ {t} : th'[u] = th[u]
    BY <1>0, <1>2, <1>3, <2>1, Passes
  <2> QED
    BY <1>0, <1>1, <1>2, <1>3, <2>2, SameStage, PassKeeps
<1>a. CASE ClaimProof(p)
  <2> DEFINE next == [To(t, "proving") EXCEPT !.gen = th[t].gen + 1, !.proofs = th[t].proofs + 1]
             new == [row EXCEPT !.life = "BROKER_READY", !.owner = ProofOwner,
                                !.current = ProofOwner, !.gen = th[t].gen + 1,
                                !.proofs = th[t].proofs + 1]
  <2>1. th[t].at = "scanned"
    BY <1>a DEF ClaimProof, Seen, t
  <2>2. CASE ProofClaimable(t) /\ row' = new
    <3>1. /\ row.status = "PENDING_TRIGGER" /\ row.life = "PRE_SUBMIT_PROOF_RETRY"
          /\ row.gen = th[t].gen
      BY <2>2 DEF ProofClaimable, Pending
    <3>2. /\ row'.status = "PENDING_TRIGGER" /\ row'.life = "BROKER_READY"
          /\ row'.gen = row.gen + 1
      BY <2>2, <3>1 DEF Typed, Row
    <3>3. Stage = "unproven" /\ Stage' = "ready"
      BY <3>1, <3>2, Stages, StagesNext DEF StageFacts, Pending
    <3>4. CASE Become(t, Idle)
      <4>1. Idles(t) /\ \A u \in Threads \ {t} : th'[u] = th[u]
        BY <1>0, <1>2, <3>4, Passes
      <4>2. Aside(t) /\ Moved(t, row.gen + 1)
        BY <1>0, <1>2, <4>1, Idling
      <4> QED
        BY <1>0, <1>1, <3>2, <3>3, <4>2, Begins
    <3>5. CASE Become(t, next)
      <4>1. /\ th'[t].at = "proving" /\ th'[t].gen = row.gen + 1
            /\ \A u \in Threads \ {t} : th'[u] = th[u]
        BY <1>0, <3>1, <3>5 DEF Become, To, Thread
      <4>2. Aside(t) /\ Moved(t, row.gen + 1)
        BY <2>1, <4>1 DEF Aside, AtPost, Moved
      <4> QED
        BY <1>0, <1>1, <3>2, <3>3, <4>2, Begins
    <3> QED
      BY <1>a, <2>2, <3>4, <3>5, <1>3 DEF ClaimProof, Write, Go, t
  <2> QED
    BY <1>a, <1>3, <2>2 DEF ClaimProof, Write, Go, t
<1>b. CASE Reprove(p)
  <2>1. th[t].at = "proving" /\ UNCHANGED row
    BY <1>b DEF Reprove, t
  <2>2. CASE Become(t, To(t, "deferring"))
    <3>1. /\ th'[t].at = "deferring" /\ th'[t].gen = th[t].gen
          /\ \A u \in Threads \ {t} : th'[u] = th[u]
      BY <1>0, <2>2, Became, ToFields
    <3>2. Aside(t) /\ Moved(t, th[t].gen) /\ Works(t)
      BY <2>1, <3>1 DEF Aside, AtPost, Moved, Works
    <3> QED
      BY <1>0, <1>1, <2>1, <3>2, SameStage, Stops
  <2> QED
    BY <1>b, <1>3, <2>1, <2>2 DEF Reprove, Go, t
<1>c. CASE Defer(p)
  <2>1. th[t].at = "deferring" /\ (Become(t, Idle) \/ Become(t, To(t, "ending")))
    BY <1>c DEF Defer, Write, t
  <2>2. CASE UNCHANGED row
    BY <1>3, <2>1, <2>2
  <2>3. CASE Deferrable(ProofOwner, th[t].gen) /\ row' = Deferred(th[t].proofs)
    <3>1. "ending" \in Resting \ {"proving", "deferring"}
      BY DEF Resting, Passing
    <3>2. Idles(t) /\ \A u \in Threads \ {t} : th'[u] = th[u]
      BY <1>0, <1>2, <2>1, <3>1, Passes
    <3>3. Aside(t) /\ Moved(t, row.gen) /\ Works(t)
      BY <1>0, <1>2, <2>1, <3>2, Idling DEF Works
    <3>4. /\ row.status = "PENDING_TRIGGER" /\ row.life = "BROKER_READY"
          /\ row.gen = th[t].gen
      BY <2>3 DEF Deferrable, Pending
    <3>5. /\ row'.status = "PENDING_TRIGGER" /\ row'.gen = row.gen
          /\ row'.life = "PRE_SUBMIT_PROOF_RETRY"
      BY <2>3, <3>4 DEF Deferred, Typed, Row
    <3>6. Stage = "ready" /\ Stage' = "unproven"
      BY <3>4, <3>5, Stages, StagesNext DEF StageFacts, Pending
    <3> QED
      BY <1>0, <1>1, <3>3, <3>4, <3>5, <3>6, Advances
  <2> QED
    BY <1>c, <2>2, <2>3 DEF Defer, Write, t
<1> QED
  BY <1>a, <1>b, <1>c

LEMMA RetryKeeps ==
    ASSUME Typed, Typed', KindsFit, NEW p \in Processes, ClaimForRetry(p)
    PROVE  Terms!Next
<1> DEFINE t == Recovery(p)
<1>0. t \in Threads
  BY ThreadOf
<1> HIDE DEF t
<1>1. th[t].at = "claiming" /\ UNCHANGED broker
  BY DEF ClaimForRetry, t
<1>2. th[t].kind # "none"
  BY <1>0, <1>1 DEF KindsFit, KindOf
<1>3. Write(t, Claimable(th[t].gen, th[t].attempt - 1),
            Claimed(RetryOwner, th[t].gen, th[t].attempt), To(t, "owned"), Idle)
  BY DEF ClaimForRetry, t
<1> QED
  BY <1>0, <1>1, <1>2, <1>3, ClaimKeeps

\* A watcher adopts what recovery has found reversed.
LEMMA AdoptKeeps ==
    ASSUME Typed, Typed', KindsFit, NEW p \in Processes, Adopt(p)
    PROVE  Terms!Next
<1> DEFINE t == Recovery(p)
<1>0. t \in Threads
  BY ThreadOf
<1> HIDE DEF t
<1>1. th[t].at = "reversed" /\ UNCHANGED broker /\ Become(t, Idle)
  BY DEF Adopt, Finish, t
<1>2. /\ th'[t].at = "idle" /\ th'[t].kind = "none"
      /\ \A u \in Threads \ {t} : th'[u] = th[u]
  BY <1>0, <1>1, Became, IdleFields
<1>3. Aside(t) /\ Moved(t, th[t].gen) /\ ~Works(t)'
  BY <1>1, <1>2 DEF Aside, AtPost, Moved, Works
<1>4. Stage' = Stage /\ row'.gen = row.gen
  <2>1. CASE UNCHANGED row
    BY <2>1, SameStage
  <2>2. CASE row' = [row EXCEPT !.current = p, !.token = p, !.recovery = Nobody]
    <3>1. /\ row'.status = row.status /\ row'.life = row.life /\ row'.lease = row.lease
          /\ row'.gen = row.gen
      BY <2>2 DEF Typed, Row
    <3> QED
      BY <3>1, SameFields
  <2> QED
    BY <2>1, <2>2 DEF Adopt
<1> QED
  BY <1>0, <1>1, <1>3, <1>4, Stops

-----------------------------------------------------------------------------
(* Leases lapse, processes die, and the refinement.                         *)

TermsVars == <<row.gen, Stage, Worker, Senders, broker.posts, broker.order>>

LEMMA LapseKeeps ==
    ASSUME Typed, Typed', LapseLease \/ LapseSubmit
    PROVE  Terms!Next \/ UNCHANGED TermsVars
<1>1. UNCHANGED <<th, broker>> /\ Worker' = Worker /\ Senders' = Senders
  BY DEF LapseLease, LapseSubmit, Worker, Senders, Works, AtPost
<1>2. row'.gen = row.gen /\ row'.status = row.status /\ row'.life = row.life
  BY DEF LapseLease, LapseSubmit, Typed, Row
<1>3. CASE LapseSubmit \/ Stage # "selecting"
  <2>1. Stage' = Stage
    <3>1. CASE LapseSubmit
      <4>1. row'.lease = row.lease
        BY <3>1 DEF LapseSubmit, Typed, Row
      <4> QED
        BY <1>2, <4>1, SameFields
    <3>2. CASE LapseLease /\ Stage # "selecting"
      <4>1. row.lease
        BY <3>2 DEF LapseLease
      <4>2. ~(row.status = "PENDING_TRIGGER" /\ row.life = "MATERIALIZING")
        BY <3>2, <4>1, Stages DEF StageFacts, Pending
      <4>3. /\ row.status \in {"PENDING_TRIGGER", "SUBMITTED", "ended"}
            /\ row.life \in {Waiting, "MATERIALIZING", "RETRY_WAIT", "BROKER_READY",
                             "PRE_SUBMIT_PROOF_RETRY", "SUBMITTING"}
        BY RowFields DEF Lives, Ready
      <4> QED
        BY <1>2, <4>2, <4>3, Stages, StagesNext DEF StageFacts, Pending
    <3> QED
      BY <1>3, <3>1, <3>2
  <2> QED
    BY <1>1, <1>2, <2>1 DEF TermsVars
<1>4. CASE LapseLease /\ Stage = "selecting"
  <2>1. ~row'.lease
    BY <1>4 DEF LapseLease, Typed, Row
  <2>2. Stage' = "lapsed"
    BY <1>2, <1>4, <2>1, Stages, StagesNext DEF StageFacts, Pending
  <2>3. Terms!Lapse
    BY <1>1, <1>2, <1>4, <2>2 DEF Terms!Lapse, Worker, Senders, AtPost
  <2> QED
    BY <2>3 DEF Terms!Next
<1> QED
  BY <1>3, <1>4

LEMMA CrashKeeps ==
    ASSUME Typed, NEW p \in Processes, Crash(p) PROVE Terms!Next
<1> DEFINE gone == {t \in Threads : t[1] = p}
<1>1. /\ \A t \in Threads : th'[t] = IF t \in gone THEN Idle ELSE th[t]
      /\ UNCHANGED <<row, broker>>
  BY DEF Crash
<1>2. gone \in SUBSET Threads
  OBVIOUS
<1> HIDE DEF gone
<1>3. \A t \in Threads : /\ Works(t)' <=> t \notin gone /\ Works(t)
                         /\ AtPost(t)' <=> t \notin gone /\ AtPost(t)
  BY <1>1, IdleFields DEF Works, AtPost
<1>4. /\ Worker' = [t \in Threads |-> IF t \in gone THEN 0 ELSE Worker[t]]
      /\ Senders' = Senders \ gone
  BY <1>1, <1>3 DEF Worker, Senders
<1>5. Terms!Stop
  BY <1>1, <1>2, <1>4, SameStage DEF Terms!Stop, Worker, Senders, AtPost
<1> QED
  BY <1>5 DEF Terms!Next

LEMMA StepKeeps ==
    ASSUME Typed, Typed', RowInv, KindsFit, ReadyInv, SubmitInv, [Next]_vars
    PROVE  Terms!Next \/ UNCHANGED TermsVars
<1>1. UNCHANGED <<row, broker, th>> => UNCHANGED TermsVars
  BY SameStage DEF TermsVars, Worker, Senders, Works, AtPost
<1>2. ASSUME NEW t \in Threads, Call(t) PROVE Terms!Next
  BY <1>2, SelectingKeeps, ReadyKeeps, SubmittingKeeps DEF Call
<1>3. ASSUME NEW p \in Processes, Recover(p) PROVE Terms!Next \/ UNCHANGED <<row, broker, th>>
  BY <1>3, LooksKeep, EndsKeep, JoinKeeps, ProofKeeps, RetryKeeps, AdoptKeeps DEF Recover
<1>4. UNCHANGED vars => UNCHANGED <<row, broker, th>>
  BY DEF vars
<1> QED
  BY <1>1, <1>2, <1>3, <1>4, WatchKeeps, LapseKeeps, CrashKeeps DEF Next

LEMMA TermsInit == Init => Terms!Init
<1> SUFFICES ASSUME Init PROVE Terms!Init
  OBVIOUS
<1>1. /\ row.status = "PENDING_TRIGGER" /\ row.life = Waiting /\ row.gen = 0
      /\ broker.posts = 0 /\ broker.order = "none"
      /\ \A t \in Threads : th[t] = Idle
  BY DEF Init
<1>2. Stage = "waiting"
  BY <1>1, TypedInit, Stages DEF StageFacts, Pending
<1>3. \A t \in Threads : ~Works(t) /\ ~AtPost(t)
  BY <1>1, IdleFields DEF Works, AtPost
<1> QED
  BY <1>1, <1>2, <1>3 DEF Terms!Init, AtPost

\* Whatever lapses, crashes or is written unnoticed, the watchers and the
\* recoveries of all processes together do to the order what DeferredTerms
\* allows: one term after another, one decision, one submission.
THEOREM EntriesKeepTerms == Spec => KeepsTerms
<1>1. Typed /\ Typed' /\ RowInv /\ KindsFit /\ ReadyInv /\ SubmitInv /\ [Next]_vars
          => [Terms!Next]_TermsVars
  BY StepKeeps
<1>2. [Terms!Next]_TermsVars <=> [Terms!Next]_<<row.gen, Stage,
          [t \in Threads |-> IF Works(t) THEN th[t].gen ELSE 0],
          {t \in Threads : th[t].at \in {"intended", "posting"}},
          broker.posts, broker.order>>
  BY DEF TermsVars, Worker, Senders, AtPost
<1> QED
  BY <1>1, <1>2, TermsInit, TypedStep, AlwaysTyped, AlwaysRowInv, AlwaysKindsFit, AlwaysReadyInv,
     AlwaysSubmitInv, PTL DEF Spec, KeepsTerms, Terms!Spec

=============================================================================
