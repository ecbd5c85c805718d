-------------------------- MODULE TradeQueueProofs --------------------------
(***************************************************************************)
(* Proofs about TradeQueue, for any number of processes, signals, keys and *)
(* orders: types, that a signal never has two live ENTRY orders, and that  *)
(* a deferred job has its ap_signals row.                                  *)
(***************************************************************************)
EXTENDS TradeQueue, TLAPS

LEMMA StepMembers ==
    /\ Dispatching \subseteq Steps
    /\ {"check", "plan", "log", "arm", "watch", "submit", "mark"} \subseteq Dispatching
    /\ Deferring \subseteq Dispatching
    /\ {"idle", "logRejection", "reset", "rearm"} \subseteq Steps
    /\ {"idle", "logRejection", "reset", "rearm"} \cap Dispatching = {}
    /\ {"read", "write", "reread", "failCas", "watchCas", "revert"} = Deferring
BY DEF Dispatching, Steps, Deferring

LEMMA OutcomeMembers ==
    /\ {"refused", "dropped", "failed", "duplicate", "armed", "submitted",
        "deferred", "none"} \subseteq Outcomes
    /\ "none" \in SignalStatuses /\ "WATCHING" \in SignalStatuses
    /\ "queued" \in SignalStatuses /\ "rejected" \in SignalStatuses
    /\ "ERROR" \in SignalStatuses /\ "received" \in SignalStatuses
BY DEF Outcomes, Rejections, SignalStatuses

-----------------------------------------------------------------------------
(* Processes. *)

\* What _mark_job() is told, and what each step of a dispatch has in hand.
Told == Rejections \cup {"failed", "armed", "submitted"}
Ordering == {"log", "arm", "watch", "submit"}
Proper(p) ==
    /\ p.pc \in Dispatching \cup {"logRejection"} => p.job \in Jobs
    /\ p.pc \in Ordering => p.order \in Orders
    /\ p.pc = "mark" => p.next \in Told /\ (p.next = "armed" => p.order \in Orders)
Staff ==
    /\ worker \in [Workers -> Process]
    /\ \A w \in Workers : Proper(worker[w])

LEMMA ToldMembers ==
    /\ Told \subseteq Outcomes
    /\ {"refused", "dropped", "failed", "duplicate", "armed", "submitted"} \subseteq Told
    /\ "none" \notin Told /\ "deferred" \notin Told
BY DEF Told, Outcomes, Rejections

LEMMA ProcessIsRecord ==
    ASSUME NEW p \in Process
    PROVE  /\ p.pc \in Steps /\ p.job \in Jobs \cup {NoJob}
           /\ p.order \in Orders \cup {NoOrder} /\ p.next \in Outcomes
           /\ p.seen \in SignalStatuses
           /\ \A step \in Steps : [p EXCEPT !.pc = step] \in Process
           /\ \A step \in Steps, why \in Outcomes :
                 [p EXCEPT !.pc = step, !.next = why] \in Process
           /\ \A step \in Steps, o \in Orders :
                 [p EXCEPT !.pc = step, !.order = o] \in Process
           /\ \A step \in Steps, j \in Jobs :
                 [p EXCEPT !.pc = step, !.job = j] \in Process
           /\ \A step \in Steps, s \in SignalStatuses :
                 [p EXCEPT !.pc = step, !.seen = s] \in Process
BY DEF Process

LEMMA IdleIsRecord ==
    ASSUME NEW step \in Steps
    PROVE  IdleAt(step) \in Process
BY OutcomeMembers DEF IdleAt, Process

\* A process that does something keeps the others as they are.
Only(w) == \A v \in Workers \ {w} : worker'[v] = worker[v]

LEMMA Going ==
    ASSUME Staff, NEW w \in Workers, NEW step \in Steps, Go(w, step), step # "mark",
           step \in Dispatching \cup {"logRejection"} => worker[w].job \in Jobs,
           step \in Ordering => worker[w].order \in Orders
    PROVE  /\ Staff' /\ Only(w)
           /\ worker'[w].pc = step /\ worker'[w].job = worker[w].job
<1>1. worker[w] \in Process
  BY DEF Staff
<1>2. worker' = [worker EXCEPT ![w] = [worker[w] EXCEPT !.pc = step]]
  BY DEF Go
<1>3. [worker[w] EXCEPT !.pc = step] \in Process
  BY <1>1, ProcessIsRecord
<1>4. /\ worker' \in [Workers -> Process] /\ Only(w)
      /\ worker'[w] = [worker[w] EXCEPT !.pc = step]
  BY <1>2, <1>3 DEF Staff, Only
<1>5. /\ worker'[w].pc = step /\ worker'[w].job = worker[w].job
      /\ worker'[w].order = worker[w].order
  BY <1>1, <1>4 DEF Process
<1>6. Proper(worker'[w])
  BY <1>5 DEF Proper
<1>. QED  BY <1>4, <1>5, <1>6 DEF Staff, Only

LEMMA Marking ==
    ASSUME Staff, NEW w \in Workers, NEW why \in Told, MarkNext(w, why),
           worker[w].job \in Jobs, why = "armed" => worker[w].order \in Orders
    PROVE  /\ Staff' /\ Only(w)
           /\ worker'[w].pc = "mark" /\ worker'[w].job = worker[w].job
<1>1. worker[w] \in Process /\ "mark" \in Steps /\ why \in Outcomes
  BY StepMembers, ToldMembers DEF Staff
<1>2. worker' = [worker EXCEPT ![w] = [worker[w] EXCEPT !.pc = "mark", !.next = why]]
  BY DEF MarkNext
<1>3. [worker[w] EXCEPT !.pc = "mark", !.next = why] \in Process
  BY <1>1, ProcessIsRecord
<1>4. /\ worker' \in [Workers -> Process] /\ Only(w)
      /\ worker'[w] = [worker[w] EXCEPT !.pc = "mark", !.next = why]
  BY <1>2, <1>3 DEF Staff, Only
<1>5. /\ worker'[w].pc = "mark" /\ worker'[w].job = worker[w].job
      /\ worker'[w].order = worker[w].order /\ worker'[w].next = why
  BY <1>1, <1>4 DEF Process
<1>6. "mark" \notin Ordering
  BY DEF Ordering
<1>7. Proper(worker'[w])
  BY <1>5, <1>6 DEF Proper
<1>. QED  BY <1>4, <1>5, <1>7 DEF Staff, Only

LEMMA Resting ==
    ASSUME Staff, NEW w \in Workers, NEW step \in {"idle", "reset"},
           worker' = [worker EXCEPT ![w] = IdleAt(step)]
    PROVE  /\ Staff' /\ Only(w) /\ worker'[w].pc = step
<1>1. step \in Steps /\ step \notin Dispatching \cup {"logRejection"}
  BY StepMembers
<1>2. IdleAt(step) \in Process
  BY <1>1, IdleIsRecord
<1>3. worker' \in [Workers -> Process] /\ Only(w) /\ worker'[w] = IdleAt(step)
  BY <1>2 DEF Staff, Only
<1>4. step \notin Ordering /\ step # "mark"
  BY DEF Ordering
<1>5. Proper(IdleAt(step))
  BY <1>1, <1>4 DEF Proper, IdleAt
<1>. QED  BY <1>3, <1>5 DEF Staff, Only, IdleAt

LEMMA Standing ==
    ASSUME Staff, UNCHANGED worker
    PROVE  Staff'
BY DEF Staff

-----------------------------------------------------------------------------
(* Rows. *)

Rows ==
    /\ mode \in {"LIVE", "PAPER"}
    /\ queue \in [Jobs -> Job]
    /\ signal \in [Signals -> SignalRow]
    /\ order \in [Orders -> EntryOrder]
    /\ watched \subseteq Workers \X Orders
    /\ latest \in [Signals -> Jobs \cup {NoJob}]
    /\ restarts \in 0..MaxRestarts
    /\ doubtful \subseteq Signals

Sorted == Rows /\ Staff

LEMMA SortedIsTyped == Sorted => TypeOK
BY DEF Sorted, Rows, Staff, TypeOK

LEMMA JobHasSignal == \A j \in Jobs : SignalOf(j) \in Signals
BY DEF Jobs, SignalOf

LEMMA StatusForType == \A why \in Outcomes : StatusFor[why] \in JobStatuses
<1>1. {"REJECTED", "ERROR", "SUBMITTED", "WATCHING", "none"} \subseteq JobStatuses
  BY DEF JobStatuses, ActiveJobs
<1>2. SUFFICES ASSUME NEW why \in Outcomes PROVE StatusFor[why] \in JobStatuses
  OBVIOUS
<1>3. \/ why \in Rejections
      \/ why \notin Rejections /\ why = "failed"
      \/ why \notin Rejections /\ why = "submitted"
      \/ why \notin Rejections /\ why \in {"armed", "deferred"}
      \/ why \notin Rejections /\ why = "none"
  BY DEF Outcomes
<1>. QED  BY <1>1, <1>3 DEF StatusFor

LEMMA StatusForValues ==
    /\ \A why \in Rejections : StatusFor[why] = "REJECTED"
    /\ StatusFor["failed"] = "ERROR" /\ StatusFor["submitted"] = "SUBMITTED"
    /\ StatusFor["armed"] = "WATCHING" /\ StatusFor["deferred"] = "WATCHING"
    /\ Logged \subseteq Rejections
BY DEF StatusFor, Outcomes, Rejections, Logged

LEMMA MarkedJobType ==
    ASSUME queue \in [Jobs -> Job], NEW j \in Jobs, NEW why \in Outcomes
    PROVE  /\ MarkedJob(j, why) \in [Jobs -> Job]
           /\ MarkedJob(j, why)[j].status = StatusFor[why]
           /\ MarkedJob(j, why)[j].why = why
           /\ MarkedJob(j, why)[j].stale = FALSE
           /\ \A k \in Jobs \ {j} : MarkedJob(j, why)[k] = queue[k]
<1>1. StatusFor[why] \in JobStatuses
  BY StatusForType
<1>2. queue[j].rescued \in BOOLEAN
  BY DEF Job
<1>3. [status |-> StatusFor[why], why |-> why, stale |-> FALSE,
       rescued |-> queue[j].rescued] \in Job
  BY <1>1, <1>2 DEF Job
<1>. QED  BY <1>3 DEF MarkedJob

LEMMA LiveStatuses ==
    /\ Live \subseteq OrderStatuses
    /\ {"none", "ended"} \subseteq OrderStatuses
    /\ {"CREATED", "PENDING_TRIGGER", "SUBMITTED", "FILLED"} = Live
    /\ "none" \notin Live /\ "ended" \notin Live
    /\ Unsubmitted \subseteq Live
BY DEF Live, OrderStatuses, Unsubmitted

\* No order becomes live.
NoBirth ==
    \A o \in Orders : order'[o].status \in Live =>
        order[o].status \in Live /\ order'[o].signal = order[o].signal

LEMMA SetOrderIsNoBirth ==
    ASSUME order \in [Orders -> EntryOrder], NEW o \in Orders,
           NEW status \in OrderStatuses, SetOrder(o, status),
           order[o].status \in Live \/ status \notin Live
    PROVE  order' \in [Orders -> EntryOrder] /\ NoBirth
<1>1. [order[o] EXCEPT !.status = status] \in EntryOrder
  BY DEF EntryOrder
<1>2. order' = [order EXCEPT ![o] = [order[o] EXCEPT !.status = status]]
  BY DEF SetOrder
<1>3. /\ order'[o].status = status /\ order'[o].signal = order[o].signal
      /\ \A p \in Orders \ {o} : order'[p] = order[p]
  BY <1>2 DEF EntryOrder
<1>. QED  BY <1>1, <1>2, <1>3 DEF NoBirth

LEMMA CleanUpIsNoBirth ==
    ASSUME order \in [Orders -> EntryOrder], NEW o \in Orders, CleanUp(o)
    PROVE  order' \in [Orders -> EntryOrder] /\ NoBirth
<1>1. CASE UNCHANGED order
  BY <1>1 DEF NoBirth
<1>2. CASE SetOrder(o, "ended")
  BY <1>2, LiveStatuses, SetOrderIsNoBirth
<1>. QED  BY <1>1, <1>2 DEF CleanUp

LEMMA SameOrdersIsNoBirth == UNCHANGED order => NoBirth
BY DEF NoBirth

LEMMA SignalRowWritten ==
    ASSUME signal \in [Signals -> SignalRow], NEW s \in Signals,
           NEW status \in SignalStatuses, NEW j \in Jobs \cup {NoJob},
           signal' = [signal EXCEPT ![s] = [status |-> status, job |-> j]]
    PROVE  /\ signal' \in [Signals -> SignalRow]
           /\ signal'[s] = [status |-> status, job |-> j]
           /\ \A t \in Signals \ {s} : signal'[t] = signal[t]
BY DEF SignalRow

-----------------------------------------------------------------------------
(* What one step does.  Calm: no row of the queue changes and no order       *)
(* becomes live.  Acts(w): process w goes on in its dispatch, or leaves it.  *)

Speaks(w) == worker[w].pc \in Dispatching \cup {"logRejection"}
Own(j) == [status |-> "WATCHING", job |-> j]

Calm == queue' = queue /\ doubtful \subseteq doubtful' /\ NoBirth

SpeaksForItself(w) ==
    \/ signal' = signal
    \/ Speaks(w) /\ \A s \in Signals \ {SignalFor(w)} : signal'[s] = signal[s]

Acts(w) ==
    /\ Only(w)
    /\ SpeaksForItself(w)
    /\ worker'[w].pc # "logRejection"
    /\ worker'[w].pc \in Dispatching =>
          worker[w].pc \in Dispatching /\ worker'[w].job = worker[w].job
    /\ worker'[w].pc = "plan" =>
          \/ SignalFor(w) \in doubtful'
          \/ order' = order /\ ~Duplicate(JobOf(w))
    /\ worker'[w].pc = "watchCas" => signal'[SignalFor(w)] = Own(JobOf(w))

Settles(w) ==
    /\ Only(w) /\ worker[w].pc \in Dispatching
    /\ signal' = signal /\ NoBirth /\ doubtful \subseteq doubtful'
    /\ worker'[w].pc \notin {"plan", "watchCas"}
    /\ worker'[w].pc \in Dispatching =>
          SignalFor(w) \in doubtful' /\ worker'[w].job = worker[w].job
    /\ \E why \in Outcomes :
          /\ queue' = MarkedJob(JobOf(w), why)
          /\ why # "none"
          /\ why = "deferred" => worker[w].pc = "watchCas"
          /\ worker'[w].pc = "logRejection" =>
                why \in Rejections /\ worker'[w].job = worker[w].job

LEMMA Employee ==
    ASSUME Staff, NEW w \in Workers
    PROVE  /\ worker[w] \in Process /\ Proper(worker[w])
           /\ Speaks(w) => JobOf(w) \in Jobs /\ SignalFor(w) \in Signals
BY JobHasSignal DEF Staff, Proper, Speaks, JobOf, SignalFor

\* Steps that only decide where w goes next.
LEMMA Moving ==
    ASSUME Sorted, NEW w \in Workers, NEW step \in Steps, Go(w, step), At(w, "check") \/
              At(w, "plan") \/ At(w, "log") \/ worker[w].pc \in Deferring,
           UNCHANGED <<mode, queue, order, watched, latest, restarts>>,
           step \notin {"mark", "logRejection"},
           step \in Ordering => worker[w].order \in Orders,
           signal' \in [Signals -> SignalRow], SpeaksForItself(w),
           doubtful' = doubtful \/ doubtful' = doubtful \cup {SignalFor(w)},
           step = "plan" => SignalFor(w) \in doubtful' \/ ~Duplicate(JobOf(w)),
           step = "watchCas" => signal'[SignalFor(w)] = Own(JobOf(w))
    PROVE  Sorted' /\ Calm /\ Acts(w)
<1>1. worker[w].pc \in Dispatching
  BY StepMembers DEF At
<1>2. JobOf(w) \in Jobs /\ SignalFor(w) \in Signals /\ Speaks(w)
  BY <1>1, Employee DEF Sorted, Speaks
<1>3. /\ Staff' /\ Only(w)
      /\ worker'[w].pc = step /\ worker'[w].job = worker[w].job
  BY <1>2, Going DEF Sorted, JobOf
<1>4. Rows'
  BY <1>2 DEF Sorted, Rows
<1>5. Calm
  BY SameOrdersIsNoBirth DEF Calm
<1>6. Acts(w)
  BY <1>1, <1>3 DEF Acts
<1>. QED  BY <1>3, <1>4, <1>5, <1>6 DEF Sorted

LEMMA Answering ==
    ASSUME Sorted, NEW w \in Workers, NEW why \in Told, MarkNext(w, why),
           worker[w].pc \in Dispatching, why # "armed",
           UNCHANGED <<mode, queue, signal, watched, latest, restarts>>,
           order' \in [Orders -> EntryOrder],
           doubtful' = doubtful
    PROVE  /\ Sorted' /\ Acts(w) /\ queue' = queue /\ doubtful \subseteq doubtful'
           /\ NoBirth => Calm
<1>1. JobOf(w) \in Jobs /\ SignalFor(w) \in Signals
  BY Employee DEF Sorted, Speaks
<1>2. /\ Staff' /\ Only(w)
      /\ worker'[w].pc = "mark" /\ worker'[w].job = worker[w].job
  BY <1>1, Marking DEF Sorted, JobOf
<1>3. Rows'
  BY DEF Sorted, Rows
<1>4. Acts(w)
  BY <1>2 DEF Acts, SpeaksForItself
<1>. QED  BY <1>2, <1>3, <1>4 DEF Sorted, Calm

LEMMA Leaving ==
    ASSUME Sorted, NEW w \in Workers, NEW step \in {"idle", "reset"},
           worker' = [worker EXCEPT ![w] = IdleAt(step)],
           UNCHANGED <<mode, queue, order, latest, doubtful>>,
           watched' \subseteq watched, restarts' \in 0..MaxRestarts,
           signal' \in [Signals -> SignalRow], SpeaksForItself(w)
    PROVE  Sorted' /\ Calm /\ Acts(w)
<1>1. Staff' /\ Only(w) /\ worker'[w].pc = step
  BY Resting DEF Sorted
<1>2. step \notin Dispatching /\ step \notin {"plan", "watchCas", "logRejection"}
  BY StepMembers
<1>3. Rows'
  BY DEF Sorted, Rows
<1>4. Acts(w)
  BY <1>1, <1>2 DEF Acts
<1>5. Calm
  BY SameOrdersIsNoBirth DEF Calm
<1>. QED  BY <1>1, <1>3, <1>4, <1>5 DEF Sorted

LEMMA CheckingStep ==
    ASSUME Sorted, NEW w \in Workers,
           TurnedAway(w) \/ Evaluate(w) \/ EvaluateBlind(w) \/ PlanRefused(w)
    PROVE  Sorted' /\ Calm /\ Acts(w)
<1>1. /\ At(w, "check") \/ At(w, "plan")
      /\ UNCHANGED <<mode, queue, signal, order, watched, latest, restarts>>
  BY DEF TurnedAway, Evaluate, EvaluateBlind, PlanRefused
<1>2. /\ worker[w].pc \in Dispatching
      /\ signal' \in [Signals -> SignalRow] /\ order' \in [Orders -> EntryOrder]
      /\ SpeaksForItself(w) /\ NoBirth
  BY <1>1, StepMembers, SameOrdersIsNoBirth DEF At, Sorted, Rows, SpeaksForItself
<1>3. \/ doubtful' = doubtful /\ Go(w, "read")
      \/ doubtful' = doubtful /\ Go(w, "plan") /\ ~Duplicate(JobOf(w))
      \/ doubtful' = doubtful \cup {SignalFor(w)} /\ Go(w, "plan")
      \/ doubtful' = doubtful /\ \E why \in {"refused", "dropped", "failed", "duplicate"} :
            MarkNext(w, why)
  BY DEF TurnedAway, Evaluate, EvaluateBlind, PlanRefused, Doubt
<1>4. "read" \in Steps /\ "plan" \in Steps
  BY StepMembers
<1>5. {"read", "plan"} \cap {"mark", "logRejection", "log", "arm", "watch", "submit"} = {}
  OBVIOUS
<1>6. CASE doubtful' = doubtful /\ Go(w, "read")
  BY <1>1, <1>2, <1>4, <1>5, <1>6, Moving DEF Ordering
<1>7. CASE /\ doubtful' = doubtful \/ doubtful' = doubtful \cup {SignalFor(w)}
           /\ Go(w, "plan") /\ (SignalFor(w) \in doubtful' \/ ~Duplicate(JobOf(w)))
  BY <1>1, <1>2, <1>4, <1>5, <1>7, Moving DEF Ordering
<1>8. ASSUME doubtful' = doubtful, NEW why \in {"refused", "dropped", "failed", "duplicate"},
             MarkNext(w, why)
      PROVE  Sorted' /\ Calm /\ Acts(w)
  <2>1. why \in Told /\ why # "armed"
    BY ToldMembers
  <2>. QED  BY <1>1, <1>2, <1>8, <2>1, Answering
<1>. QED  BY <1>3, <1>6, <1>7, <1>8

LEMMA LogQueuedStep ==
    ASSUME Sorted, NEW w \in Workers, LogQueued(w)
    PROVE  Sorted' /\ Calm /\ Acts(w)
<1>1. /\ At(w, "log")
      /\ UNCHANGED <<mode, queue, order, watched, latest, restarts, doubtful>>
      /\ \/ signal' = [signal EXCEPT ![SignalFor(w)] = [status |-> "queued", job |-> NoJob]]
         \/ UNCHANGED signal
      /\ \E step \in {"arm", "submit"} : Go(w, step)
  BY DEF LogQueued
<1>2. /\ Speaks(w) /\ SignalFor(w) \in Signals /\ worker[w].order \in Orders
  <2>1. worker[w].pc = "log"
    BY <1>1 DEF At
  <2>2. "log" \in Dispatching /\ "log" \in Ordering
    BY StepMembers DEF Ordering
  <2>. QED  BY <2>1, <2>2, Employee DEF Speaks, Sorted, Proper
<1>3. signal' \in [Signals -> SignalRow] /\ SpeaksForItself(w)
  <2>1. CASE UNCHANGED signal
    BY <2>1 DEF Sorted, Rows, SpeaksForItself
  <2>2. CASE signal' = [signal EXCEPT ![SignalFor(w)] = [status |-> "queued", job |-> NoJob]]
    BY <1>2, <2>2, OutcomeMembers, SignalRowWritten DEF Sorted, Rows, SpeaksForItself
  <2>. QED  BY <1>1, <2>1, <2>2
<1>4. PICK step \in {"arm", "submit"} : Go(w, step)
  BY <1>1
<1>5. step \in Steps /\ step \notin {"mark", "logRejection", "plan", "watchCas"}
  BY StepMembers
<1>. QED  BY <1>1, <1>2, <1>3, <1>4, <1>5, Moving

\* The INSERT: one order becomes live, for a process that was at "plan".
LEMMA CreateStep ==
    ASSUME Sorted, NEW w \in Workers, Create(w)
    PROVE  /\ Sorted' /\ Acts(w) /\ worker[w].pc = "plan" /\ worker'[w].pc # "plan"
           /\ queue' = queue /\ signal' = signal /\ doubtful' = doubtful
           /\ \E o \in Orders :
                 /\ order'[o].signal = SignalFor(w)
                 /\ \A p \in Orders \ {o} : order'[p] = order[p]
<1>1. /\ worker[w].pc = "plan" /\ "plan" \in Dispatching
      /\ UNCHANGED <<mode, queue, signal, watched, latest, restarts, doubtful>>
  BY StepMembers DEF Create, At
<1>2. worker[w] \in Process /\ JobOf(w) \in Jobs /\ SignalFor(w) \in Signals
  BY <1>1, Employee DEF Sorted, Speaks
<1>3. PICK o \in Orders :
         /\ order' = [order EXCEPT ![o] = [status |-> "CREATED", signal |-> SignalFor(w)]]
         /\ \/ worker' = [worker EXCEPT ![w].pc = "log", ![w].order = o]
            \/ MarkNext(w, "failed")
  BY DEF Create
<1>4. [status |-> "CREATED", signal |-> SignalFor(w)] \in EntryOrder
  BY <1>2, LiveStatuses DEF EntryOrder
<1>5. /\ order' \in [Orders -> EntryOrder]
      /\ order'[o].signal = SignalFor(w)
      /\ \A p \in Orders \ {o} : order'[p] = order[p]
  BY <1>3, <1>4 DEF Sorted, Rows
<1>6. CASE MarkNext(w, "failed")
  <2>1. "failed" \in Told /\ "failed" # "armed"
    BY ToldMembers
  <2>2. Sorted' /\ Acts(w)
    BY <1>1, <1>5, <1>6, <2>1, Answering
  <2>3. worker'[w].pc = "mark"
    BY <1>2, <1>6, <2>1, Marking DEF Sorted, JobOf
  <2>. QED  BY <1>1, <1>5, <2>2, <2>3
<1>7. CASE worker' = [worker EXCEPT ![w].pc = "log", ![w].order = o]
  <2>1. /\ "log" \in Steps /\ "log" \in Dispatching
        /\ "log" \notin {"plan", "mark", "watchCas", "logRejection"}
    BY StepMembers
  <2>2. worker' = [worker EXCEPT ![w] = [worker[w] EXCEPT !.pc = "log", !.order = o]]
    BY <1>7
  <2>3. [worker[w] EXCEPT !.pc = "log", !.order = o] \in Process
    BY <1>2, <2>1, ProcessIsRecord
  <2>4. /\ worker' \in [Workers -> Process] /\ Only(w)
        /\ worker'[w] = [worker[w] EXCEPT !.pc = "log", !.order = o]
    BY <2>2, <2>3 DEF Sorted, Staff, Only
  <2>5. /\ worker'[w].pc = "log" /\ worker'[w].job = worker[w].job
        /\ worker'[w].order = o
    BY <1>2, <2>4 DEF Process
  <2>6. Proper(worker'[w])
    BY <1>2, <2>1, <2>5 DEF Proper, JobOf
  <2>7. Staff'
    BY <2>4, <2>6 DEF Sorted, Staff, Only
  <2>8. Rows'
    BY <1>1, <1>5 DEF Sorted, Rows
  <2>9. Acts(w)
    BY <1>1, <2>1, <2>4, <2>5 DEF Acts, SpeaksForItself
  <2>. QED  BY <1>1, <1>5, <2>1, <2>5, <2>7, <2>8, <2>9 DEF Sorted
<1>. QED  BY <1>3, <1>6, <1>7

LEMMA ArmStep ==
    ASSUME Sorted, NEW w \in Workers, Arm(w)
    PROVE  Sorted' /\ Calm /\ Acts(w)
<1>. DEFINE o == worker[w].order
<1>1. /\ worker[w].pc = "arm"
      /\ UNCHANGED <<mode, queue, signal, watched, latest, restarts, doubtful>>
      /\ \/ /\ order[o].status = "CREATED" /\ SetOrder(o, "PENDING_TRIGGER")
            /\ Go(w, "watch")
         \/ CleanUp(o) /\ MarkNext(w, "failed")
  BY DEF Arm, At
<1>2. /\ worker[w] \in Process /\ JobOf(w) \in Jobs /\ o \in Orders
      /\ "arm" \in Dispatching
  BY <1>1, StepMembers, Employee DEF Sorted, Speaks, Proper, Ordering
<1>3. CASE CleanUp(o) /\ MarkNext(w, "failed")
  <2>1. order' \in [Orders -> EntryOrder] /\ NoBirth
    BY <1>2, <1>3, CleanUpIsNoBirth DEF Sorted, Rows
  <2>2. "failed" \in Told /\ "failed" # "armed"
    BY ToldMembers
  <2>. QED  BY <1>1, <1>2, <1>3, <2>1, <2>2, Answering
<1>4. CASE order[o].status = "CREATED" /\ SetOrder(o, "PENDING_TRIGGER") /\ Go(w, "watch")
  <2>1. order' \in [Orders -> EntryOrder] /\ NoBirth
    BY <1>2, <1>4, LiveStatuses, SetOrderIsNoBirth DEF Sorted, Rows
  <2>2. "watch" \in Steps /\ "watch" \notin {"mark", "plan", "watchCas", "logRejection"}
    BY StepMembers
  <2>3. /\ Staff' /\ Only(w)
        /\ worker'[w].pc = "watch" /\ worker'[w].job = worker[w].job
    BY <1>2, <1>4, <2>2, Going DEF Sorted, JobOf
  <2>4. Rows'
    BY <1>1, <2>1 DEF Sorted, Rows
  <2>5. Acts(w)
    BY <1>1, <1>2, <2>2, <2>3 DEF Acts, SpeaksForItself
  <2>. QED  BY <1>1, <2>1, <2>3, <2>4, <2>5 DEF Sorted, Calm
<1>. QED  BY <1>1, <1>3, <1>4

LEMMA WatchStep ==
    ASSUME Sorted, NEW w \in Workers, Watch(w)
    PROVE  Sorted' /\ Calm /\ Acts(w)
<1>. DEFINE o == worker[w].order
<1>1. /\ worker[w].pc = "watch"
      /\ UNCHANGED <<mode, queue, signal, latest, restarts, doubtful>>
      /\ \/ watched' = watched \cup {<<w, o>>} /\ MarkNext(w, "armed") /\ UNCHANGED order
         \/ /\ CleanUp(o) /\ UNCHANGED watched
            /\ \E why \in {"dropped", "failed"} : MarkNext(w, why)
  BY DEF Watch, At
<1>2. /\ worker[w] \in Process /\ JobOf(w) \in Jobs /\ o \in Orders
      /\ "watch" \in Dispatching
  BY <1>1, StepMembers, Employee DEF Sorted, Speaks, Proper, Ordering
<1>3. ASSUME CleanUp(o), UNCHANGED watched, NEW why \in {"dropped", "failed"},
             MarkNext(w, why)
      PROVE  Sorted' /\ Calm /\ Acts(w)
  <2>1. order' \in [Orders -> EntryOrder] /\ NoBirth
    BY <1>2, <1>3, CleanUpIsNoBirth DEF Sorted, Rows
  <2>2. why \in Told /\ why # "armed"
    BY ToldMembers
  <2>. QED  BY <1>1, <1>2, <1>3, <2>1, <2>2, Answering
<1>4. CASE watched' = watched \cup {<<w, o>>} /\ MarkNext(w, "armed") /\ UNCHANGED order
  <2>1. "armed" \in Told /\ "mark" \notin {"plan", "watchCas", "logRejection"}
    BY ToldMembers
  <2>2. /\ Staff' /\ Only(w)
        /\ worker'[w].pc = "mark" /\ worker'[w].job = worker[w].job
    BY <1>2, <1>4, <2>1, Marking DEF Sorted, JobOf
  <2>3. <<w, o>> \in Workers \X Orders
    BY <1>2
  <2>4. Rows'
    BY <1>1, <1>4, <2>3 DEF Sorted, Rows
  <2>5. Acts(w)
    BY <1>1, <1>2, <2>1, <2>2 DEF Acts, SpeaksForItself
  <2>. QED  BY <1>1, <1>4, <2>2, <2>4, <2>5, SameOrdersIsNoBirth DEF Sorted, Calm
<1>. QED  BY <1>1, <1>3, <1>4

LEMMA SubmitStep ==
    ASSUME Sorted, NEW w \in Workers, Submit(w)
    PROVE  Sorted' /\ Calm /\ Acts(w)
<1>. DEFINE o == worker[w].order
<1>1. /\ worker[w].pc = "submit"
      /\ UNCHANGED <<mode, queue, signal, watched, latest, restarts, doubtful>>
      /\ \/ order[o].status = "CREATED" /\ SetOrder(o, "SUBMITTED")
         \/ CleanUp(o)
      /\ \E why \in {"submitted", "failed"} : MarkNext(w, why)
  BY DEF Submit, At
<1>2. /\ worker[w] \in Process /\ JobOf(w) \in Jobs /\ o \in Orders
      /\ "submit" \in Dispatching
  BY <1>1, StepMembers, Employee DEF Sorted, Speaks, Proper, Ordering
<1>3. order' \in [Orders -> EntryOrder] /\ NoBirth
  <2>1. CASE CleanUp(o)
    BY <1>2, <2>1, CleanUpIsNoBirth DEF Sorted, Rows
  <2>2. CASE order[o].status = "CREATED" /\ SetOrder(o, "SUBMITTED")
    BY <1>2, <2>2, LiveStatuses, SetOrderIsNoBirth DEF Sorted, Rows
  <2>. QED  BY <1>1, <2>1, <2>2
<1>4. PICK why \in {"submitted", "failed"} : MarkNext(w, why)
  BY <1>1
<1>5. why \in Told /\ why # "armed"
  BY ToldMembers
<1>. QED  BY <1>1, <1>2, <1>3, <1>4, <1>5, Answering

LEMMA LogRejectionStep ==
    ASSUME Sorted, NEW w \in Workers, LogRejection(w)
    PROVE  Sorted' /\ Calm /\ Acts(w)
<1>1. /\ worker[w].pc = "logRejection"
      /\ UNCHANGED <<mode, queue, order, watched, latest, restarts, doubtful>>
      /\ \/ signal' = [signal EXCEPT ![SignalFor(w)] = [status |-> "rejected", job |-> NoJob]]
         \/ UNCHANGED signal
      /\ worker' = [worker EXCEPT ![w] = IdleAt("idle")]
  BY DEF LogRejection, At, Finish
<1>2. Speaks(w) /\ SignalFor(w) \in Signals
  BY <1>1, Employee DEF Sorted, Speaks
<1>3. signal' \in [Signals -> SignalRow] /\ SpeaksForItself(w)
  <2>1. CASE UNCHANGED signal
    BY <2>1 DEF Sorted, Rows, SpeaksForItself
  <2>2. CASE signal' = [signal EXCEPT ![SignalFor(w)] = [status |-> "rejected", job |-> NoJob]]
    BY <1>2, <2>2, OutcomeMembers, SignalRowWritten DEF Sorted, Rows, SpeaksForItself
  <2>. QED  BY <1>1, <2>1, <2>2
<1>4. watched' \subseteq watched /\ restarts' \in 0..MaxRestarts
  BY <1>1 DEF Sorted, Rows
<1>. QED  BY <1>1, <1>3, <1>4, Leaving

LEMMA DeferCalmStep ==
    ASSUME Sorted, NEW w \in Workers,
           \/ ReadSignal(w) \/ WriteSignal(w) \/ RereadSignal(w)
           \/ ErrorCasFailed(w) \/ Compensate(w)
    PROVE  Sorted' /\ Calm /\ Acts(w)
<1>1. /\ worker[w].pc \in Deferring
      /\ UNCHANGED <<mode, queue, order, watched, latest, restarts, doubtful>>
  BY StepMembers DEF ReadSignal, WriteSignal, RereadSignal, ErrorCasFailed, Compensate, At
<1>2. /\ worker[w].pc \in Dispatching /\ Speaks(w) /\ worker[w] \in Process
      /\ JobOf(w) \in Jobs /\ SignalFor(w) \in Signals
  BY <1>1, StepMembers, Employee DEF Sorted, Speaks
<1>3. watched' \subseteq watched /\ restarts' \in 0..MaxRestarts
  BY <1>1 DEF Sorted, Rows
<1>4. Deferring \cap {"mark", "logRejection", "plan", "log", "arm", "watch", "submit"} = {}
  BY DEF Deferring
<1>5. ASSUME NEW step \in Deferring, Go(w, step),
             signal' \in [Signals -> SignalRow], SpeaksForItself(w),
             step = "watchCas" => signal'[SignalFor(w)] = Own(JobOf(w))
      PROVE  Sorted' /\ Calm /\ Acts(w)
  <2>1. step \in Steps /\ step \notin Ordering
    BY <1>4, StepMembers DEF Ordering
  <2>. QED  BY <1>1, <1>4, <1>5, <2>1, Moving
<1>6. ASSUME Finish(w), signal' \in [Signals -> SignalRow], SpeaksForItself(w)
      PROVE  Sorted' /\ Calm /\ Acts(w)
  BY <1>1, <1>3, <1>6, Leaving DEF Finish
<1>7. ASSUME UNCHANGED signal
      PROVE  signal' \in [Signals -> SignalRow] /\ SpeaksForItself(w)
  BY <1>7 DEF Sorted, Rows, SpeaksForItself
<1>8. CASE ReadSignal(w)
  <2>1. UNCHANGED signal
    BY <1>8 DEF ReadSignal
  <2>2. \/ OwnRow(w) /\ Go(w, "watchCas")
        \/ \E s \in SignalStatuses :
              worker' = [worker EXCEPT ![w].pc = "write", ![w].seen = s]
        \/ Go(w, "failCas")
    BY <1>8, OutcomeMembers DEF ReadSignal
  <2>3. CASE OwnRow(w) /\ Go(w, "watchCas")
    <3>1. signal'[SignalFor(w)] = Own(JobOf(w)) /\ "watchCas" \in Deferring
      BY <2>1, <2>3, StepMembers DEF OwnRow, Own
    <3>. QED  BY <1>5, <1>7, <2>1, <2>3, <3>1
  <2>4. CASE Go(w, "failCas")
    <3>1. "failCas" \in Deferring /\ "failCas" # "watchCas"
      BY StepMembers
    <3>. QED  BY <1>5, <1>7, <2>1, <2>4, <3>1
  <2>5. ASSUME NEW s \in SignalStatuses,
               worker' = [worker EXCEPT ![w].pc = "write", ![w].seen = s]
        PROVE  Sorted' /\ Calm /\ Acts(w)
    <3>1. /\ "write" \in Steps /\ "write" \in Dispatching
          /\ "write" \notin {"plan", "watchCas", "logRejection", "mark"}
          /\ "write" \notin Ordering
      BY StepMembers DEF Ordering
    <3>2. worker' = [worker EXCEPT ![w] = [worker[w] EXCEPT !.pc = "write", !.seen = s]]
      BY <2>5
    <3>3. [worker[w] EXCEPT !.pc = "write", !.seen = s] \in Process
      BY <1>2, <3>1, ProcessIsRecord
    <3>4. /\ worker' \in [Workers -> Process] /\ Only(w)
          /\ worker'[w] = [worker[w] EXCEPT !.pc = "write", !.seen = s]
      BY <3>2, <3>3 DEF Sorted, Staff, Only
    <3>5. worker'[w].pc = "write" /\ worker'[w].job = worker[w].job
      BY <1>2, <3>4 DEF Process
    <3>6. Proper(worker'[w])
      BY <1>2, <3>1, <3>5 DEF Proper, JobOf
    <3>7. Staff'
      BY <3>4, <3>6 DEF Sorted, Staff, Only
    <3>8. Rows'
      BY <1>1, <2>1 DEF Sorted, Rows
    <3>9. Acts(w)
      BY <1>2, <2>1, <3>1, <3>4, <3>5 DEF Acts, SpeaksForItself
    <3>. QED  BY <1>1, <3>7, <3>8, <3>9, SameOrdersIsNoBirth DEF Sorted, Calm
  <2>. QED  BY <2>2, <2>3, <2>4, <2>5
<1>9. CASE WriteSignal(w)
  <2>1. \/ /\ signal' = [signal EXCEPT ![SignalFor(w)] =
                           [status |-> "WATCHING", job |-> JobOf(w)]]
           /\ Go(w, "watchCas") \/ Go(w, "failCas")
        \/ UNCHANGED signal /\ (Go(w, "reread") \/ Go(w, "failCas"))
    BY <1>9 DEF WriteSignal
  <2>2. /\ "watchCas" \in Deferring /\ "failCas" \in Deferring /\ "reread" \in Deferring
        /\ "failCas" # "watchCas" /\ "reread" # "watchCas"
    BY StepMembers
  <2>3. CASE /\ signal' = [signal EXCEPT ![SignalFor(w)] =
                             [status |-> "WATCHING", job |-> JobOf(w)]]
             /\ Go(w, "watchCas") \/ Go(w, "failCas")
    <3>1. JobOf(w) \in Jobs \cup {NoJob}
      BY <1>2
    <3>2. /\ signal' \in [Signals -> SignalRow]
          /\ signal'[SignalFor(w)] = Own(JobOf(w))
          /\ \A t \in Signals \ {SignalFor(w)} : signal'[t] = signal[t]
      BY <1>2, <2>3, <3>1, OutcomeMembers, SignalRowWritten DEF Sorted, Rows, Own
    <3>3. SpeaksForItself(w)
      BY <1>2, <3>2 DEF SpeaksForItself
    <3>. QED  BY <1>5, <2>2, <2>3, <3>2, <3>3
  <2>4. CASE UNCHANGED signal /\ (Go(w, "reread") \/ Go(w, "failCas"))
    BY <1>5, <1>7, <2>2, <2>4
  <2>. QED  BY <2>1, <2>3, <2>4
<1>10. CASE RereadSignal(w)
  <2>1. /\ UNCHANGED signal
        /\ (OwnRow(w) /\ Go(w, "watchCas")) \/ Go(w, "failCas")
    BY <1>10 DEF RereadSignal
  <2>2. /\ "watchCas" \in Deferring /\ "failCas" \in Deferring
        /\ "failCas" # "watchCas"
        /\ OwnRow(w) => signal'[SignalFor(w)] = Own(JobOf(w))
    BY <2>1, StepMembers DEF OwnRow, Own
  <2>. QED  BY <1>5, <1>7, <2>1, <2>2
<1>11. CASE ErrorCasFailed(w)
  <2>1. UNCHANGED signal /\ Finish(w)
    BY <1>11 DEF ErrorCasFailed
  <2>. QED  BY <1>6, <1>7, <2>1
<1>12. CASE Compensate(w)
  <2>1. /\ Finish(w)
        /\ \/ signal' = [signal EXCEPT ![SignalFor(w)].status = "ERROR"]
           \/ UNCHANGED signal
    BY <1>12 DEF Compensate
  <2>2. CASE signal' = [signal EXCEPT ![SignalFor(w)].status = "ERROR"]
    <3>1. signal[SignalFor(w)] \in SignalRow
      BY <1>2 DEF Sorted, Rows
    <3>2. [signal[SignalFor(w)] EXCEPT !.status = "ERROR"] \in SignalRow
      BY <3>1, OutcomeMembers DEF SignalRow
    <3>3. signal' = [signal EXCEPT ![SignalFor(w)] =
                       [signal[SignalFor(w)] EXCEPT !.status = "ERROR"]]
      BY <2>2
    <3>4. signal' \in [Signals -> SignalRow] /\ SpeaksForItself(w)
      BY <1>2, <3>2, <3>3 DEF Sorted, Rows, SpeaksForItself
    <3>. QED  BY <1>6, <2>1, <3>4
  <2>3. CASE UNCHANGED signal
    BY <1>6, <1>7, <2>1, <2>3
  <2>. QED  BY <2>1, <2>2, <2>3
<1>. QED  BY <1>8, <1>9, <1>10, <1>11, <1>12

\* Steps that end a job, whether the database says so or not.
LEMMA Settling ==
    ASSUME Sorted, NEW w \in Workers, worker[w].pc \in Dispatching,
           NEW why \in Outcomes, why # "none", queue' = MarkedJob(JobOf(w), why),
           why = "deferred" => worker[w].pc = "watchCas",
           UNCHANGED <<mode, signal, watched, latest, restarts>>,
           order' \in [Orders -> EntryOrder], NoBirth,
           doubtful' = doubtful \/ doubtful' = doubtful \cup {SignalFor(w)},
           Staff', Only(w), worker'[w].pc \notin {"plan", "watchCas"},
           worker'[w].pc \in Dispatching =>
              SignalFor(w) \in doubtful' /\ worker'[w].job = worker[w].job,
           worker'[w].pc = "logRejection" =>
              why \in Rejections /\ worker'[w].job = worker[w].job
    PROVE  Sorted' /\ Settles(w)
<1>1. JobOf(w) \in Jobs /\ SignalFor(w) \in Signals
  BY Employee DEF Sorted, Speaks
<1>2. queue' \in [Jobs -> Job]
  BY <1>1, MarkedJobType DEF Sorted, Rows
<1>3. Rows'
  BY <1>1, <1>2 DEF Sorted, Rows
<1>. QED  BY <1>3 DEF Sorted, Settles

LEMMA FinishRests ==
    ASSUME Staff, NEW w \in Workers, Finish(w)
    PROVE  /\ Staff' /\ Only(w) /\ worker'[w].pc = "idle"
           /\ "idle" \notin Dispatching \cup {"plan", "watchCas", "logRejection"}
BY Resting, StepMembers DEF Finish

LEMMA MarkedStep ==
    ASSUME Sorted, NEW w \in Workers, Marked(w)
    PROVE  Sorted' /\ Settles(w)
<1>. DEFINE why == worker[w].next
<1>1. /\ worker[w].pc = "mark" /\ queue' = MarkedJob(JobOf(w), why)
      /\ UNCHANGED <<mode, signal, order, watched, latest, restarts, doubtful>>
      /\ \/ why \in Logged /\ Go(w, "logRejection")
         \/ Finish(w)
  BY DEF Marked, At
<1>2. /\ worker[w].pc \in Dispatching /\ JobOf(w) \in Jobs /\ why \in Told
      /\ why \in Outcomes /\ why # "none" /\ why # "deferred"
  BY <1>1, StepMembers, Employee, ToldMembers DEF Sorted, Speaks, Proper
<1>3. /\ order' \in [Orders -> EntryOrder] /\ NoBirth
  BY <1>1, SameOrdersIsNoBirth DEF Sorted, Rows
<1>4. CASE Finish(w)
  <2>1. /\ Staff' /\ Only(w) /\ worker'[w].pc = "idle"
        /\ "idle" \notin Dispatching \cup {"plan", "watchCas", "logRejection"}
    BY <1>4, FinishRests DEF Sorted
  <2>. QED  BY <1>1, <1>2, <1>3, <2>1, Settling
<1>5. CASE why \in Logged /\ Go(w, "logRejection")
  <2>1. /\ "logRejection" \in Steps
        /\ "logRejection" \notin Dispatching \cup {"plan", "watchCas", "mark"}
        /\ "logRejection" \notin Ordering /\ why \in Rejections
    BY <1>5, StepMembers, StatusForValues DEF Ordering
  <2>2. /\ Staff' /\ Only(w)
        /\ worker'[w].pc = "logRejection" /\ worker'[w].job = worker[w].job
    BY <1>2, <1>5, <2>1, Going DEF Sorted, JobOf
  <2>. QED  BY <1>1, <1>2, <1>3, <2>1, <2>2, Settling
<1>. QED  BY <1>1, <1>4, <1>5

LEMMA MarkFailedStep ==
    ASSUME Sorted, NEW w \in Workers, MarkFailed(w)
    PROVE  Sorted' /\ (Settles(w) \/ (Calm /\ Acts(w)))
<1>. DEFINE why == worker[w].next
<1>1. /\ worker[w].pc = "mark"
      /\ UNCHANGED <<mode, signal, watched, latest, restarts>>
      /\ \/ queue' = queue /\ doubtful' = doubtful
         \/ queue' = MarkedJob(JobOf(w), why) /\ doubtful' = doubtful \cup {SignalFor(w)}
      /\ Finish(w) \/ MarkNext(w, "failed")
  BY DEF MarkFailed, At, Doubt
<1>2. /\ worker[w].pc \in Dispatching /\ JobOf(w) \in Jobs /\ why \in Told
      /\ why \in Outcomes /\ why # "none" /\ why # "deferred"
      /\ why = "armed" => worker[w].order \in Orders
  BY <1>1, StepMembers, Employee, ToldMembers DEF Sorted, Speaks, Proper
<1>3. order' \in [Orders -> EntryOrder] /\ NoBirth
  <2>1. (why = "armed" /\ CleanUp(worker[w].order)) \/ UNCHANGED order
    BY DEF MarkFailed
  <2>. QED  BY <1>2, <2>1, CleanUpIsNoBirth, SameOrdersIsNoBirth DEF Sorted, Rows
<1>4. /\ Staff' /\ Only(w)
      /\ worker'[w].pc \notin {"plan", "watchCas", "logRejection"}
      /\ worker'[w].pc \in Dispatching => worker'[w].job = worker[w].job
  <2>1. CASE Finish(w)
    BY <2>1, FinishRests DEF Sorted
  <2>2. CASE MarkNext(w, "failed")
    <3>1. "failed" \in Told /\ "failed" # "armed"
      BY ToldMembers
    <3>. QED  BY <1>2, <2>2, <3>1, Marking DEF Sorted, JobOf
  <2>. QED  BY <1>1, <2>1, <2>2
<1>5. CASE queue' = queue /\ doubtful' = doubtful
  <2>1. Rows'
    BY <1>1, <1>3, <1>5 DEF Sorted, Rows
  <2>2. Calm /\ Acts(w)
    BY <1>1, <1>2, <1>3, <1>4, <1>5 DEF Calm, Acts, SpeaksForItself
  <2>. QED  BY <1>4, <2>1, <2>2 DEF Sorted
<1>6. CASE queue' = MarkedJob(JobOf(w), why) /\ doubtful' = doubtful \cup {SignalFor(w)}
  <2>1. SignalFor(w) \in doubtful'
    BY <1>6
  <2>2. worker'[w].pc \notin {"plan", "watchCas"} /\ worker'[w].pc # "logRejection"
    BY <1>4
  <2>. QED  BY <1>1, <1>2, <1>3, <1>4, <1>6, <2>1, <2>2, Settling
<1>. QED  BY <1>1, <1>5, <1>6

LEMMA DeferCasStep ==
    ASSUME Sorted, NEW w \in Workers,
           ErrorCas(w) \/ WatchingCas(w) \/ WatchingCasFailed(w)
    PROVE  Sorted' /\ (Settles(w) \/ (Calm /\ Acts(w)))
<1>1. /\ worker[w].pc \in {"failCas", "watchCas"}
      /\ UNCHANGED <<mode, signal, order, watched, latest, restarts>>
  BY DEF ErrorCas, WatchingCas, WatchingCasFailed, At
<1>2. /\ worker[w].pc \in Deferring /\ worker[w].pc \in Dispatching
      /\ JobOf(w) \in Jobs /\ SignalFor(w) \in Signals
  BY <1>1, StepMembers, Employee DEF Sorted, Speaks
<1>3. /\ order' \in [Orders -> EntryOrder] /\ NoBirth
      /\ signal' \in [Signals -> SignalRow] /\ SpeaksForItself(w)
      /\ watched' \subseteq watched /\ restarts' \in 0..MaxRestarts
  BY <1>1, SameOrdersIsNoBirth DEF Sorted, Rows, SpeaksForItself
<1>4. /\ "revert" \in Steps /\ "revert" \in Dispatching
      /\ "revert" \notin {"mark", "logRejection", "plan", "watchCas"}
      /\ "revert" \notin Ordering
      /\ "failed" \in Outcomes /\ "deferred" \in Outcomes
      /\ "failed" # "deferred" /\ "failed" # "none" /\ "deferred" # "none"
  BY StepMembers, OutcomeMembers DEF Ordering
<1>5. \/ queue' = queue /\ doubtful' = doubtful /\ (Finish(w) \/ Go(w, "revert"))
      \/ /\ queue' = MarkedJob(JobOf(w), "failed") /\ doubtful' = doubtful /\ Finish(w)
      \/ /\ queue' = MarkedJob(JobOf(w), "deferred") /\ worker[w].pc = "watchCas"
         /\ \/ doubtful' = doubtful /\ Finish(w)
            \/ doubtful' = doubtful \cup {SignalFor(w)} /\ Go(w, "revert")
  BY DEF ErrorCas, WatchingCas, WatchingCasFailed, At, Doubt
<1>6. Finish(w) => /\ Staff' /\ Only(w) /\ worker'[w].pc = "idle"
                   /\ "idle" \notin Dispatching \cup {"plan", "watchCas", "logRejection"}
  BY FinishRests DEF Sorted
<1>7. Go(w, "revert") => /\ Staff' /\ Only(w) /\ worker'[w].pc = "revert"
                         /\ worker'[w].job = worker[w].job
  BY <1>2, <1>4, Going DEF Sorted, JobOf
<1>8. CASE queue' = queue /\ doubtful' = doubtful /\ (Finish(w) \/ Go(w, "revert"))
  <2>1. CASE Finish(w)
    BY <1>1, <1>3, <1>8, <2>1, Leaving DEF Finish
  <2>2. CASE Go(w, "revert")
    BY <1>1, <1>2, <1>3, <1>4, <1>8, <2>2, Moving
  <2>. QED  BY <1>8, <2>1, <2>2
<1>9. CASE queue' = MarkedJob(JobOf(w), "failed") /\ doubtful' = doubtful /\ Finish(w)
  <2>1. /\ Staff' /\ Only(w) /\ worker'[w].pc \notin {"plan", "watchCas"}
        /\ worker'[w].pc \notin Dispatching /\ worker'[w].pc # "logRejection"
    BY <1>6, <1>9
  <2>2. UNCHANGED <<mode, signal, watched, latest, restarts>>
    BY <1>1
  <2>. QED  BY <1>2, <1>3, <1>4, <1>9, <2>1, <2>2, Settling
<1>10. CASE /\ queue' = MarkedJob(JobOf(w), "deferred") /\ worker[w].pc = "watchCas"
            /\ doubtful' = doubtful /\ Finish(w)
  <2>1. /\ Staff' /\ Only(w) /\ worker'[w].pc \notin {"plan", "watchCas"}
        /\ worker'[w].pc \notin Dispatching /\ worker'[w].pc # "logRejection"
    BY <1>6, <1>10
  <2>2. UNCHANGED <<mode, signal, watched, latest, restarts>>
    BY <1>1
  <2>. QED  BY <1>2, <1>3, <1>4, <1>10, <2>1, <2>2, Settling
<1>11. CASE /\ queue' = MarkedJob(JobOf(w), "deferred") /\ worker[w].pc = "watchCas"
            /\ doubtful' = doubtful \cup {SignalFor(w)} /\ Go(w, "revert")
  <2>1. /\ Staff' /\ Only(w) /\ worker'[w].pc \notin {"plan", "watchCas"}
        /\ worker'[w].pc # "logRejection" /\ worker'[w].job = worker[w].job
    BY <1>4, <1>7, <1>11
  <2>2. UNCHANGED <<mode, signal, watched, latest, restarts>>
    BY <1>1
  <2>3. SignalFor(w) \in doubtful'
    BY <1>11
  <2>. QED  BY <1>2, <1>3, <1>4, <1>11, <2>1, <2>2, <2>3, Settling
<1>. QED  BY <1>5, <1>8, <1>9, <1>10, <1>11

\* Steps outside a dispatch that leave the queue alone.
LEMMA OutsideCalm ==
    ASSUME Sorted,
           \/ \E w \in Workers : Restart(w) \/ Rearm(w)
           \/ \E w \in Workers, o \in Orders : WatchEnds(w, o) \/ Watchdog(w, o)
           \/ \E o \in Orders : BrokerEnds(o)
           \/ UNCHANGED vars
    PROVE  /\ Sorted' /\ Calm
           /\ (worker' = worker /\ signal' = signal) \/ \E w \in Workers : Acts(w)
<1>1. ASSUME NEW w \in Workers, Restart(w)
      PROVE  Sorted' /\ Calm /\ Acts(w)
  <2>1. /\ worker' = [worker EXCEPT ![w] = IdleAt("reset")]
        /\ UNCHANGED <<mode, queue, order, latest, doubtful>> /\ UNCHANGED signal
        /\ watched' \subseteq watched
    BY <1>1 DEF Restart
  <2>2. restarts' \in 0..MaxRestarts
    BY <1>1, QueueAssumption DEF Restart, Sorted, Rows
  <2>3. signal' \in [Signals -> SignalRow] /\ SpeaksForItself(w)
    BY <2>1 DEF Sorted, Rows, SpeaksForItself
  <2>. QED  BY <2>1, <2>2, <2>3, Leaving
<1>2. ASSUME NEW w \in Workers, Rearm(w)
      PROVE  Sorted' /\ Calm /\ ((worker' = worker /\ signal' = signal) \/ Acts(w))
  <2>1. UNCHANGED <<mode, queue, signal, order, latest, restarts, doubtful>>
    BY <1>2 DEF Rearm
  <2>2. CASE Finish(w) /\ UNCHANGED watched
    <3>1. /\ signal' \in [Signals -> SignalRow] /\ SpeaksForItself(w)
          /\ watched' \subseteq watched /\ restarts' \in 0..MaxRestarts
      BY <2>1, <2>2 DEF Sorted, Rows, SpeaksForItself
    <3>. QED  BY <2>1, <2>2, <3>1, Leaving DEF Finish
  <2>3. CASE (\E o \in Orders : watched' = watched \cup {<<w, o>>}) /\ UNCHANGED worker
    <3>1. PICK o \in Orders : watched' = watched \cup {<<w, o>>}
      BY <2>3
    <3>2. <<w, o>> \in Workers \X Orders
      OBVIOUS
    <3>3. Rows'
      BY <2>1, <3>1, <3>2 DEF Sorted, Rows
    <3>4. Staff'
      BY <2>3, Standing DEF Sorted
    <3>. QED  BY <2>1, <2>3, <3>3, <3>4, SameOrdersIsNoBirth DEF Sorted, Calm
  <2>. QED  BY <1>2, <2>2, <2>3 DEF Rearm
<1>3. ASSUME NEW o \in Orders, watched' \subseteq watched,
             UNCHANGED <<mode, queue, signal, worker, latest, restarts, doubtful>>,
             order' \in [Orders -> EntryOrder] /\ NoBirth
      PROVE  Sorted' /\ Calm
  <2>1. Staff'
    BY <1>3, Standing DEF Sorted
  <2>2. Rows'
    BY <1>3 DEF Sorted, Rows
  <2>. QED  BY <1>3, <2>1, <2>2 DEF Sorted, Calm
<1>4. /\ {"SUBMITTED", "FILLED", "ended"} \subseteq OrderStatuses
      /\ "PENDING_TRIGGER" \in Live /\ "SUBMITTED" \in Live
      /\ order \in [Orders -> EntryOrder]
  BY LiveStatuses DEF Sorted, Rows
<1>5. ASSUME NEW w \in Workers, NEW o \in Orders, WatchEnds(w, o)
      PROVE  Sorted' /\ Calm /\ worker' = worker /\ signal' = signal
  <2>1. /\ UNCHANGED <<mode, queue, signal, worker, latest, restarts, doubtful>>
        /\ watched' \subseteq watched
        /\ \/ order[o].status = "PENDING_TRIGGER" /\ SetOrder(o, "SUBMITTED")
           \/ CleanUp(o)
    BY <1>5 DEF WatchEnds
  <2>2. order' \in [Orders -> EntryOrder] /\ NoBirth
    BY <1>4, <2>1, SetOrderIsNoBirth, CleanUpIsNoBirth
  <2>. QED  BY <1>3, <2>1, <2>2
<1>6. ASSUME NEW w \in Workers, NEW o \in Orders, Watchdog(w, o)
      PROVE  Sorted' /\ Calm /\ worker' = worker /\ signal' = signal
  <2>1. /\ UNCHANGED <<mode, queue, signal, worker, latest, restarts, doubtful>>
        /\ watched' \subseteq watched
        /\ order[o].status = "PENDING_TRIGGER" /\ SetOrder(o, "ended")
    BY <1>6 DEF Watchdog
  <2>2. order' \in [Orders -> EntryOrder] /\ NoBirth
    BY <1>4, <2>1, SetOrderIsNoBirth
  <2>. QED  BY <1>3, <2>1, <2>2
<1>7. ASSUME NEW o \in Orders, BrokerEnds(o)
      PROVE  Sorted' /\ Calm /\ worker' = worker /\ signal' = signal
  <2>1. /\ UNCHANGED <<mode, queue, signal, worker, latest, restarts, doubtful>>
        /\ watched' \subseteq watched
        /\ order[o].status = "SUBMITTED"
        /\ SetOrder(o, "FILLED") \/ SetOrder(o, "ended")
    BY <1>7 DEF BrokerEnds
  <2>2. order' \in [Orders -> EntryOrder] /\ NoBirth
    BY <1>4, <2>1, SetOrderIsNoBirth
  <2>. QED  BY <1>3, <2>1, <2>2
<1>8. CASE UNCHANGED vars
  <2>1. Rows'
    BY <1>8 DEF vars, Sorted, Rows
  <2>2. Staff'
    BY <1>8, Standing DEF vars, Sorted
  <2>. QED  BY <1>8, <2>1, <2>2, SameOrdersIsNoBirth DEF vars, Sorted, Calm
<1>. QED  BY <1>1, <1>2, <1>5, <1>6, <1>7, <1>8

-----------------------------------------------------------------------------
(* Steps of the queue itself. *)

LEMMA JobMembers ==
    /\ {"NEW", "PROCESSING", "WATCHING", "none", "REJECTED"} \subseteq JobStatuses
    /\ ActiveJobs = {"NEW", "PROCESSING", "WATCHING"}
BY DEF JobStatuses, ActiveJobs, Waiting

LEMMA JobIsRecord ==
    ASSUME NEW q \in Job
    PROVE  /\ q.status \in JobStatuses /\ q.why \in Outcomes
           /\ q.stale \in BOOLEAN /\ q.rescued \in BOOLEAN
           /\ \A s \in JobStatuses : [q EXCEPT !.status = s] \in Job
           /\ \A s \in JobStatuses, b \in BOOLEAN :
                 /\ [q EXCEPT !.status = s, !.stale = b] \in Job
                 /\ [q EXCEPT !.status = s, !.rescued = b] \in Job
           /\ \A b \in BOOLEAN : [q EXCEPT !.stale = b] \in Job
BY DEF Job

LEMMA EnqueueStep ==
    ASSUME Sorted, NEW j \in Jobs, Enqueue(j)
    PROVE  /\ Sorted' /\ worker' = worker /\ signal' = signal /\ order' = order
           /\ doubtful' = doubtful
           /\ queue[j].status = "none" /\ queue'[j].status = "NEW"
           /\ queue'[j].stale = queue[j].stale
           /\ \A k \in Jobs \ {j} : queue'[k] = queue[k]
<1>1. /\ queue[j].status = "none"
      /\ queue' = [queue EXCEPT ![j].status = "NEW"]
      /\ latest' = [latest EXCEPT ![SignalOf(j)] = j]
      /\ UNCHANGED <<mode, signal, order, watched, worker, restarts, doubtful>>
  BY DEF Enqueue
<1>2. queue[j] \in Job /\ "NEW" \in JobStatuses /\ SignalOf(j) \in Signals
  BY JobMembers, JobHasSignal DEF Sorted, Rows
<1>3. [queue[j] EXCEPT !.status = "NEW"] \in Job
  BY <1>2, JobIsRecord
<1>4. queue' = [queue EXCEPT ![j] = [queue[j] EXCEPT !.status = "NEW"]]
  BY <1>1
<1>5. /\ queue' \in [Jobs -> Job]
      /\ queue'[j] = [queue[j] EXCEPT !.status = "NEW"]
      /\ \A k \in Jobs \ {j} : queue'[k] = queue[k]
  BY <1>3, <1>4 DEF Sorted, Rows
<1>6. latest' \in [Signals -> Jobs \cup {NoJob}]
  BY <1>1, <1>2 DEF Sorted, Rows
<1>7. Rows'
  BY <1>1, <1>5, <1>6 DEF Sorted, Rows
<1>8. Staff'
  BY <1>1, Standing DEF Sorted
<1>9. queue'[j].status = "NEW" /\ queue'[j].stale = queue[j].stale
  BY <1>2, <1>5 DEF Job
<1>. QED  BY <1>1, <1>5, <1>7, <1>8, <1>9 DEF Sorted

LEMMA AgesStep ==
    ASSUME Sorted, NEW j \in Jobs, Ages(j)
    PROVE  /\ Sorted' /\ worker' = worker /\ signal' = signal /\ order' = order
           /\ doubtful \subseteq doubtful'
           /\ Held(j) => SignalOf(j) \in doubtful'
           /\ queue[j].status = "PROCESSING"
           /\ queue'[j].status = queue[j].status /\ queue'[j].why = queue[j].why
           /\ \A k \in Jobs \ {j} : queue'[k] = queue[k]
<1>1. /\ queue[j].status = "PROCESSING"
      /\ queue' = [queue EXCEPT ![j].stale = TRUE]
      /\ UNCHANGED <<mode, signal, order, watched, worker, latest, restarts>>
      /\ \/ Held(j) /\ doubtful' = doubtful \cup {SignalOf(j)}
         \/ ~Held(j) /\ doubtful' = doubtful
  BY DEF Ages, Doubt
<1>2. queue[j] \in Job /\ SignalOf(j) \in Signals
  BY JobHasSignal DEF Sorted, Rows
<1>3. [queue[j] EXCEPT !.stale = TRUE] \in Job
  BY <1>2, JobIsRecord
<1>4. queue' = [queue EXCEPT ![j] = [queue[j] EXCEPT !.stale = TRUE]]
  BY <1>1
<1>5. /\ queue' \in [Jobs -> Job]
      /\ queue'[j] = [queue[j] EXCEPT !.stale = TRUE]
      /\ \A k \in Jobs \ {j} : queue'[k] = queue[k]
  BY <1>3, <1>4 DEF Sorted, Rows
<1>6. Rows'
  BY <1>1, <1>2, <1>5 DEF Sorted, Rows
<1>7. Staff'
  BY <1>1, Standing DEF Sorted
<1>8. queue'[j].status = queue[j].status /\ queue'[j].why = queue[j].why
  BY <1>2, <1>5 DEF Job
<1>. QED  BY <1>1, <1>5, <1>6, <1>7, <1>8 DEF Sorted

LEMMA ReclaimedRows ==
    ASSUME queue \in [Jobs -> Job]
    PROVE  /\ Reclaimed \in [Jobs -> Job]
           /\ \A j \in Jobs :
                 /\ Reclaimed[j].why = queue[j].why
                 /\ \/ Reclaimed[j] = queue[j]
                    \/ /\ queue[j].status = "PROCESSING" /\ queue[j].stale
                       /\ Reclaimed[j].status = "NEW" /\ ~Reclaimed[j].stale
<1>1. ASSUME NEW j \in Jobs
      PROVE  /\ Reclaimed[j] \in Job /\ Reclaimed[j].why = queue[j].why
             /\ \/ Reclaimed[j] = queue[j]
                \/ /\ queue[j].status = "PROCESSING" /\ queue[j].stale
                   /\ Reclaimed[j].status = "NEW" /\ ~Reclaimed[j].stale
  <2>1. queue[j] \in Job /\ "NEW" \in JobStatuses
    BY JobMembers
  <2>2. CASE queue[j].status = "PROCESSING" /\ queue[j].stale
    <3>1. Reclaimed[j] = [queue[j] EXCEPT !.status = "NEW", !.stale = FALSE]
      BY <2>2 DEF Reclaimed
    <3>2. [queue[j] EXCEPT !.status = "NEW", !.stale = FALSE] \in Job
      BY <2>1, JobIsRecord
    <3>3. /\ Reclaimed[j].status = "NEW" /\ Reclaimed[j].stale = FALSE
          /\ Reclaimed[j].why = queue[j].why
      BY <2>1, <3>1 DEF Job
    <3>. QED  BY <2>2, <3>1, <3>2, <3>3
  <2>3. CASE ~(queue[j].status = "PROCESSING" /\ queue[j].stale)
    <3>1. Reclaimed[j] = queue[j]
      BY <2>3 DEF Reclaimed
    <3>. QED  BY <2>1, <3>1
  <2>. QED  BY <2>2, <2>3
<1>2. Reclaimed = [j \in Jobs |-> Reclaimed[j]]
  BY DEF Reclaimed
<1>3. Reclaimed \in [Jobs -> Job]
  BY <1>1, <1>2
<1>. QED  BY <1>1, <1>3

\* Process w takes a job that waits, or there is none.
Takes(w, j) ==
    /\ Only(w) /\ worker'[w].pc = "check" /\ worker'[w].job = j
    /\ Reclaimed[j].status = "NEW"
    /\ queue'[j].status = "PROCESSING" /\ queue'[j].stale = Reclaimed[j].stale
    /\ \A k \in Jobs \ {j} : queue'[k] = Reclaimed[k]

LEMMA ClaimStep ==
    ASSUME Sorted, NEW w \in Workers, Claim(w)
    PROVE  /\ Sorted' /\ signal' = signal /\ order' = order /\ doubtful' = doubtful
           /\ worker[w].pc = "idle"
           /\ \/ worker' = worker /\ queue' = Reclaimed
              \/ \E j \in Jobs : Takes(w, j)
<1>1. /\ UNCHANGED <<mode, signal, order, watched, latest, restarts, doubtful>>
      /\ worker[w].pc = "idle"
  BY DEF Claim, At
<1>2. Reclaimed \in [Jobs -> Job] /\ worker[w] \in Process
  BY ReclaimedRows, Employee DEF Sorted, Rows
<1>3. CASE worker' = worker /\ queue' = Reclaimed
  <2>1. Staff' /\ Rows'
    BY <1>1, <1>2, <1>3, Standing DEF Sorted, Rows
  <2>. QED  BY <1>1, <1>3, <2>1 DEF Sorted
<1>4. ASSUME NEW j \in Jobs, Reclaimed[j].status = "NEW",
             queue' = [Reclaimed EXCEPT ![j].status = "PROCESSING"],
             worker' = [worker EXCEPT ![w].pc = "check", ![w].job = j]
      PROVE  Sorted' /\ Takes(w, j)
  <2>1. /\ "check" \in Steps /\ "check" # "mark" /\ "check" \notin Ordering
        /\ "PROCESSING" \in JobStatuses /\ Reclaimed[j] \in Job
    BY <1>2, StepMembers, JobMembers DEF Ordering
  <2>2. /\ [worker[w] EXCEPT !.pc = "check", !.job = j] \in Process
        /\ [Reclaimed[j] EXCEPT !.status = "PROCESSING"] \in Job
    BY <1>2, <2>1, ProcessIsRecord, JobIsRecord
  <2>3. /\ worker' = [worker EXCEPT ![w] = [worker[w] EXCEPT !.pc = "check", !.job = j]]
        /\ queue' = [Reclaimed EXCEPT ![j] = [Reclaimed[j] EXCEPT !.status = "PROCESSING"]]
    BY <1>4
  <2>4. /\ worker' \in [Workers -> Process] /\ Only(w)
        /\ worker'[w] = [worker[w] EXCEPT !.pc = "check", !.job = j]
    BY <2>2, <2>3 DEF Sorted, Staff, Only
  <2>5. worker'[w].pc = "check" /\ worker'[w].job = j
    BY <1>2, <2>4 DEF Process
  <2>6. Proper(worker'[w])
    BY <2>1, <2>5 DEF Proper
  <2>7. Staff'
    BY <2>4, <2>6 DEF Sorted, Staff, Only
  <2>8. /\ queue' \in [Jobs -> Job]
        /\ queue'[j] = [Reclaimed[j] EXCEPT !.status = "PROCESSING"]
        /\ \A k \in Jobs \ {j} : queue'[k] = Reclaimed[k]
    BY <1>2, <2>2, <2>3
  <2>9. queue'[j].status = "PROCESSING" /\ queue'[j].stale = Reclaimed[j].stale
    BY <2>1, <2>8 DEF Job
  <2>10. Rows'
    BY <1>1, <2>8 DEF Sorted, Rows
  <2>. QED  BY <1>4, <2>4, <2>5, <2>7, <2>8, <2>9, <2>10 DEF Sorted, Takes
<1>. QED  BY <1>1, <1>3, <1>4 DEF Claim

LEMMA ResetStep ==
    ASSUME Sorted, NEW w \in Workers, Reset(w)
    PROVE  /\ Sorted' /\ signal' = signal /\ order' = order /\ doubtful' = doubtful
           /\ Only(w) /\ worker'[w].pc \in {"idle", "rearm"}
           /\ \A j \in Jobs :
                 \/ queue'[j] = queue[j]
                 \/ /\ queue[j].status = "WATCHING" /\ queue'[j].status = "NEW"
                    /\ queue'[j].stale = queue[j].stale
<1>1. /\ UNCHANGED <<mode, signal, order, watched, latest, restarts, doubtful>>
      /\ \/ /\ queue' = [j \in Jobs |->
                 IF mode = "PAPER" /\ queue[j].status = "WATCHING" /\ ~PendingOrder(SignalOf(j))
                 THEN [queue[j] EXCEPT !.status = "NEW", !.rescued = TRUE]
                 ELSE queue[j]]
            /\ Go(w, "rearm")
         \/ Finish(w) /\ UNCHANGED queue
  BY DEF Reset
<1>2. Staff' /\ Only(w) /\ worker'[w].pc \in {"idle", "rearm"}
  <2>1. CASE Finish(w)
    BY <2>1, FinishRests DEF Sorted
  <2>2. CASE Go(w, "rearm")
    <3>1. /\ "rearm" \in Steps /\ "rearm" # "mark" /\ "rearm" \notin Ordering
          /\ "rearm" \notin Dispatching \cup {"logRejection"}
      BY StepMembers DEF Ordering
    <3>. QED  BY <2>2, <3>1, Going DEF Sorted
  <2>. QED  BY <1>1, <2>1, <2>2
<1>3. /\ queue' \in [Jobs -> Job]
      /\ \A j \in Jobs :
            \/ queue'[j] = queue[j]
            \/ /\ queue[j].status = "WATCHING" /\ queue'[j].status = "NEW"
               /\ queue'[j].stale = queue[j].stale
  <2>1. CASE UNCHANGED queue
    BY <2>1 DEF Sorted, Rows
  <2>2. CASE queue' = [j \in Jobs |->
                 IF mode = "PAPER" /\ queue[j].status = "WATCHING" /\ ~PendingOrder(SignalOf(j))
                 THEN [queue[j] EXCEPT !.status = "NEW", !.rescued = TRUE]
                 ELSE queue[j]]
    <3>1. ASSUME NEW j \in Jobs
          PROVE  /\ queue'[j] \in Job
                 /\ \/ queue'[j] = queue[j]
                    \/ /\ queue[j].status = "WATCHING" /\ queue'[j].status = "NEW"
                       /\ queue'[j].stale = queue[j].stale
      <4>1. queue[j] \in Job /\ "NEW" \in JobStatuses
        BY JobMembers DEF Sorted, Rows
      <4>2. [queue[j] EXCEPT !.status = "NEW", !.rescued = TRUE] \in Job
        BY <4>1, JobIsRecord
      <4>3. CASE queue'[j] = queue[j]
        BY <4>1, <4>3
      <4>4. CASE /\ queue[j].status = "WATCHING"
                 /\ queue'[j] = [queue[j] EXCEPT !.status = "NEW", !.rescued = TRUE]
        BY <4>1, <4>2, <4>4 DEF Job
      <4>. QED  BY <2>2, <4>3, <4>4
    <3>2. queue' = [j \in Jobs |-> queue'[j]]
      BY <2>2
    <3>3. queue' \in [Jobs -> Job]
      BY <3>1, <3>2
    <3>. QED  BY <3>1, <3>3
  <2>. QED  BY <1>1, <2>1, <2>2
<1>4. Rows'
  BY <1>1, <1>3 DEF Sorted, Rows
<1>. QED  BY <1>1, <1>2, <1>3, <1>4 DEF Sorted

-----------------------------------------------------------------------------
(* All steps. *)

LEMMA EveryStep ==
    ASSUME Sorted, [Next]_vars
    PROVE  /\ Sorted'
           /\ \/ Calm /\ ((worker' = worker /\ signal' = signal) \/ \E w \in Workers : Acts(w))
              \/ \E w \in Workers : Settles(w) \/ Create(w) \/ Claim(w) \/ Reset(w)
              \/ \E j \in Jobs : Enqueue(j) \/ Ages(j)
<1>1. ASSUME NEW w \in Workers, Work(w)
      PROVE  /\ Sorted'
             /\ \/ Calm /\ ((worker' = worker /\ signal' = signal) \/ \E v \in Workers : Acts(v))
                \/ Settles(w) \/ Create(w) \/ Claim(w) \/ Reset(w)
  <2>1. CASE Claim(w)
    BY <2>1, ClaimStep
  <2>2. CASE Dispatch(w)
    <3>1. CASE TurnedAway(w) \/ Evaluate(w) \/ EvaluateBlind(w) \/ PlanRefused(w)
      BY <3>1, CheckingStep
    <3>2. CASE Create(w)
      BY <3>2, CreateStep
    <3>3. CASE LogQueued(w) \/ Arm(w) \/ Watch(w) \/ Submit(w) \/ LogRejection(w)
      BY <3>3, LogQueuedStep, ArmStep, WatchStep, SubmitStep, LogRejectionStep
    <3>4. CASE Marked(w) \/ MarkFailed(w)
      BY <3>4, MarkedStep, MarkFailedStep
    <3>. QED  BY <2>2, <3>1, <3>2, <3>3, <3>4 DEF Dispatch
  <2>3. CASE Defer(w)
    <3>1. CASE \/ ReadSignal(w) \/ WriteSignal(w) \/ RereadSignal(w)
               \/ ErrorCasFailed(w) \/ Compensate(w)
      BY <3>1, DeferCalmStep
    <3>2. CASE ErrorCas(w) \/ WatchingCas(w) \/ WatchingCasFailed(w)
      BY <3>2, DeferCasStep
    <3>. QED  BY <2>3, <3>1, <3>2 DEF Defer
  <2>4. CASE Reset(w)
    BY <2>4, ResetStep
  <2>5. CASE Rearm(w)
    BY <2>5, OutsideCalm
  <2>. QED  BY <1>1, <2>1, <2>2, <2>3, <2>4, <2>5 DEF Work
<1>2. ASSUME NEW j \in Jobs, Enqueue(j) \/ Ages(j)
      PROVE  Sorted'
  BY <1>2, EnqueueStep, AgesStep
<1>3. CASE \/ \E w \in Workers : Restart(w)
           \/ \E w \in Workers, o \in Orders : WatchEnds(w, o) \/ Watchdog(w, o)
           \/ \E o \in Orders : BrokerEnds(o)
           \/ UNCHANGED vars
  BY <1>3, OutsideCalm
<1>. QED  BY <1>1, <1>2, <1>3 DEF Next

LEMMA InitSorted == Init => Sorted
<1>. SUFFICES ASSUME Init PROVE Sorted
  OBVIOUS
<1>1. Rows
  <2>1. queue \in [Jobs -> Job]
    BY JobMembers, OutcomeMembers DEF Init, Job
  <2>2. signal \in [Signals -> SignalRow]
    BY OutcomeMembers DEF Init, SignalRow
  <2>3. order \in [Orders -> EntryOrder]
    BY LiveStatuses DEF Init, EntryOrder
  <2>. QED  BY <2>1, <2>2, <2>3, QueueAssumption DEF Init, Rows
<1>2. Staff
  <2>1. "idle" \in Steps /\ "idle" \notin Dispatching \cup {"logRejection", "mark"}
        /\ "idle" \notin Ordering
    BY StepMembers DEF Ordering
  <2>2. IdleAt("idle") \in Process
    BY <2>1, IdleIsRecord
  <2>3. Proper(IdleAt("idle"))
    BY <2>1 DEF Proper, IdleAt
  <2>. QED  BY <2>2, <2>3 DEF Init, Staff
<1>. QED  BY <1>1, <1>2 DEF Sorted

\* Every variable keeps its type, for any number of processes and jobs: a
\* process has a job in hand whenever a step of _dispatch() uses one, and an
\* order whenever it arms, watches or submits one.
THEOREM TypeCorrect == Spec => []TypeOK
<1>1. Sorted /\ [Next]_vars => Sorted'
  BY EveryStep
<1>. QED  BY <1>1, InitSorted, SortedIsTyped, PTL DEF Spec

-----------------------------------------------------------------------------
(* Who holds a job.  Of a signal nothing went wrong with, the jobs in        *)
(* dispatch are PROCESSING, not stale, and each in one process's hands.      *)

Claimed ==
    \A w \in Workers :
        worker[w].pc \in Dispatching /\ SignalFor(w) \notin doubtful
        => queue[JobOf(w)].status = "PROCESSING" /\ ~queue[JobOf(w)].stale
Punctual == \A j \in Jobs : queue[j].stale => queue[j].status = "PROCESSING"
OneHolder ==
    \A w, v \in Workers :
        /\ w # v /\ JobOf(w) = JobOf(v) /\ SignalFor(w) \notin doubtful
        /\ worker[w].pc \in Dispatching
        => worker[v].pc \notin Dispatching
Holding == Sorted /\ Claimed /\ Punctual /\ OneHolder

\* A process that dispatches after the step did so before it, for the same job.
Continues ==
    \A w \in Workers : worker'[w].pc \in Dispatching =>
        worker[w].pc \in Dispatching /\ worker'[w].job = worker[w].job

LEMMA ActsContinues ==
    ASSUME NEW w \in Workers, Acts(w) \/ (worker' = worker)
    PROVE  Continues
BY DEF Acts, Only, Continues

LEMMA SettlesContinues ==
    ASSUME NEW w \in Workers, Settles(w)
    PROVE  Continues
BY DEF Settles, Only, Continues

LEMMA ContinuesOneHolder ==
    ASSUME Holding, Continues, doubtful \subseteq doubtful'
    PROVE  OneHolder'
<1>. SUFFICES ASSUME NEW w \in Workers, NEW v \in Workers, w # v,
                     worker'[w].job = worker'[v].job,
                     SignalOf(worker'[w].job) \notin doubtful',
                     worker'[w].pc \in Dispatching, worker'[v].pc \in Dispatching
              PROVE  FALSE
  BY DEF OneHolder, JobOf, SignalFor
<1>1. /\ worker[w].pc \in Dispatching /\ worker'[w].job = worker[w].job
      /\ worker[v].pc \in Dispatching /\ worker'[v].job = worker[v].job
  BY DEF Continues
<1>. QED  BY <1>1 DEF Holding, OneHolder, JobOf, SignalFor

LEMMA SameQueueClaimed ==
    ASSUME Holding, Continues, doubtful \subseteq doubtful',
           \A w \in Workers : worker[w].pc \in Dispatching /\ SignalFor(w) \notin doubtful' =>
              queue'[JobOf(w)] = queue[JobOf(w)]
    PROVE  Claimed'
<1>. SUFFICES ASSUME NEW w \in Workers, worker'[w].pc \in Dispatching,
                     SignalOf(worker'[w].job) \notin doubtful'
              PROVE  /\ queue'[worker'[w].job].status = "PROCESSING"
                     /\ ~queue'[worker'[w].job].stale
  BY DEF Claimed, JobOf, SignalFor
<1>1. worker[w].pc \in Dispatching /\ worker'[w].job = worker[w].job
  BY DEF Continues
<1>. QED  BY <1>1 DEF Holding, Claimed, JobOf, SignalFor

LEMMA StepHolding ==
    ASSUME Holding, [Next]_vars
    PROVE  Holding'
<1>1. Sorted /\ Sorted'
  BY EveryStep DEF Holding
<1>2. ASSUME NEW w \in Workers, worker[w].pc \in Dispatching
      PROVE  JobOf(w) \in Jobs
  BY <1>1, <1>2, Employee DEF Sorted, Speaks
<1>3. CASE Calm /\ ((worker' = worker /\ signal' = signal) \/ \E w \in Workers : Acts(w))
  <2>1. Continues
    BY <1>3, ActsContinues DEF Continues
  <2>2. queue' = queue /\ doubtful \subseteq doubtful'
    BY <1>3 DEF Calm
  <2>. QED  BY <1>1, <2>1, <2>2, SameQueueClaimed, ContinuesOneHolder DEF Holding, Punctual
<1>4. ASSUME NEW w \in Workers, Create(w)
      PROVE  Holding'
  <2>1. Continues /\ queue' = queue /\ doubtful \subseteq doubtful'
    BY <1>1, <1>4, CreateStep, ActsContinues
  <2>. QED  BY <1>1, <2>1, SameQueueClaimed, ContinuesOneHolder DEF Holding, Punctual
<1>5. ASSUME NEW w \in Workers, Settles(w)
      PROVE  Holding'
  <2>1. Continues /\ doubtful \subseteq doubtful' /\ JobOf(w) \in Jobs
    BY <1>2, <1>5, SettlesContinues DEF Settles
  <2>2. PICK why \in Outcomes : queue' = MarkedJob(JobOf(w), why)
    BY <1>5 DEF Settles
  <2>3. /\ queue'[JobOf(w)].stale = FALSE
        /\ \A k \in Jobs \ {JobOf(w)} : queue'[k] = queue[k]
    <3>1. queue \in [Jobs -> Job]
      BY <1>1 DEF Sorted, Rows
    <3>2. /\ MarkedJob(JobOf(w), why)[JobOf(w)].stale = FALSE
          /\ \A k \in Jobs \ {JobOf(w)} : MarkedJob(JobOf(w), why)[k] = queue[k]
      BY <2>1, <3>1, MarkedJobType
    <3>. QED  BY <2>2, <3>2
  <2>4. Punctual'
    BY <2>3 DEF Holding, Punctual
  <2>5. OneHolder'
    BY <2>1, ContinuesOneHolder
  <2>6. Claimed'
    <3>. SUFFICES ASSUME NEW v \in Workers, worker'[v].pc \in Dispatching,
                         SignalOf(worker'[v].job) \notin doubtful'
                  PROVE  /\ queue'[worker'[v].job].status = "PROCESSING"
                         /\ ~queue'[worker'[v].job].stale
      BY DEF Claimed, JobOf, SignalFor
    <3>1. /\ worker[v].pc \in Dispatching /\ worker'[v].job = worker[v].job
          /\ SignalFor(v) \notin doubtful'
      BY <2>1 DEF Continues, SignalFor, JobOf
    <3>2. v # w
      BY <1>5, <3>1 DEF Settles
    <3>3. JobOf(v) # JobOf(w)
      BY <1>5, <2>1, <3>1, <3>2 DEF Holding, OneHolder, Settles, SignalFor
    <3>4. queue'[JobOf(v)] = queue[JobOf(v)]
      BY <1>2, <2>3, <3>1, <3>3
    <3>. QED  BY <2>1, <3>1, <3>4 DEF Holding, Claimed, SignalFor, JobOf
  <2>. QED  BY <1>1, <2>4, <2>5, <2>6 DEF Holding
<1>6. ASSUME NEW w \in Workers, Claim(w)
      PROVE  Holding'
  <2>1. doubtful' = doubtful /\ worker[w].pc = "idle" /\ "idle" \notin Dispatching
    BY <1>1, <1>6, ClaimStep, StepMembers
  <2>2. \A v \in Workers : worker[v].pc \in Dispatching /\ SignalFor(v) \notin doubtful =>
           Reclaimed[JobOf(v)] = queue[JobOf(v)]
    BY <1>1, <1>2, ReclaimedRows DEF Holding, Claimed, Sorted, Rows
  <2>3. \A j \in Jobs : Reclaimed[j].stale => Reclaimed[j].status = "PROCESSING"
    BY <1>1, ReclaimedRows DEF Holding, Punctual, Sorted, Rows
  <2>4. CASE worker' = worker /\ queue' = Reclaimed
    <3>1. Continues
      BY <2>4 DEF Continues
    <3>2. Punctual'
      BY <2>3, <2>4 DEF Punctual
    <3>. QED  BY <1>1, <2>1, <2>2, <2>4, <3>1, <3>2, SameQueueClaimed, ContinuesOneHolder
              DEF Holding
  <2>5. ASSUME NEW j \in Jobs, Takes(w, j)
        PROVE  Holding'
    <3>1. \A v \in Workers \ {w} : worker'[v] = worker[v]
      BY <2>5 DEF Takes, Only
    <3>2. Reclaimed[j].status = "NEW" /\ ~Reclaimed[j].stale
      BY <2>3, <2>5 DEF Takes
    <3>3. /\ queue'[j].status = "PROCESSING" /\ ~queue'[j].stale
          /\ \A k \in Jobs \ {j} : queue'[k] = Reclaimed[k]
          /\ worker'[w].job = j
      BY <2>5, <3>2 DEF Takes
    <3>4. Punctual'
      BY <2>3, <3>3 DEF Punctual
    <3>5. ASSUME NEW v \in Workers, worker[v].pc \in Dispatching, SignalFor(v) \notin doubtful
          PROVE  JobOf(v) # j /\ queue'[JobOf(v)] = queue[JobOf(v)]
      <4>1. Reclaimed[JobOf(v)] = queue[JobOf(v)] /\ JobOf(v) \in Jobs
        BY <1>2, <2>2, <3>5
      <4>2. queue[JobOf(v)].status = "PROCESSING"
        BY <3>5 DEF Holding, Claimed
      <4>3. JobOf(v) # j
        BY <3>2, <4>1, <4>2
      <4>. QED  BY <3>3, <4>1, <4>3
    <3>6. Claimed'
      <4>. SUFFICES ASSUME NEW v \in Workers, worker'[v].pc \in Dispatching,
                           SignalOf(worker'[v].job) \notin doubtful'
                    PROVE  /\ queue'[worker'[v].job].status = "PROCESSING"
                           /\ ~queue'[worker'[v].job].stale
        BY DEF Claimed, JobOf, SignalFor
      <4>1. CASE v = w
        BY <3>3, <4>1
      <4>2. CASE v # w
        <5>1. worker[v].pc \in Dispatching /\ SignalFor(v) \notin doubtful
          BY <2>1, <3>1, <4>2 DEF SignalFor, JobOf
        <5>2. queue'[JobOf(v)] = queue[JobOf(v)]
          BY <3>5, <5>1
        <5>3. worker'[v].job = JobOf(v)
          BY <3>1, <4>2 DEF JobOf
        <5>. QED  BY <5>1, <5>2, <5>3 DEF Holding, Claimed
      <4>. QED  BY <4>1, <4>2
    <3>7. OneHolder'
      <4>. SUFFICES ASSUME NEW u \in Workers, NEW v \in Workers, u # v,
                           worker'[u].job = worker'[v].job,
                           SignalOf(worker'[u].job) \notin doubtful',
                           worker'[u].pc \in Dispatching, worker'[v].pc \in Dispatching
                    PROVE  FALSE
        BY DEF OneHolder, JobOf, SignalFor
      <4>1. CASE u = w
        <5>1. v # w /\ worker'[v] = worker[v] /\ worker'[v].job = j
          BY <3>1, <3>3, <4>1
        <5>. QED  BY <2>1, <3>5, <5>1 DEF JobOf, SignalFor
      <4>2. CASE v = w
        <5>1. u # w /\ worker'[u] = worker[u] /\ worker'[u].job = j
          BY <3>1, <3>3, <4>2
        <5>. QED  BY <2>1, <3>5, <5>1 DEF JobOf, SignalFor
      <4>3. CASE u # w /\ v # w
        <5>1. worker'[u] = worker[u] /\ worker'[v] = worker[v]
          BY <3>1, <4>3
        <5>. QED  BY <2>1, <5>1 DEF Holding, OneHolder, JobOf, SignalFor
      <4>. QED  BY <4>1, <4>2, <4>3
    <3>. QED  BY <1>1, <3>4, <3>6, <3>7 DEF Holding
  <2>. QED  BY <1>1, <1>6, <2>4, <2>5, ClaimStep
<1>7. ASSUME NEW w \in Workers, Reset(w)
      PROVE  Holding'
  <2>1. /\ doubtful' = doubtful /\ Only(w) /\ worker'[w].pc \in {"idle", "rearm"}
        /\ \A j \in Jobs :
                 \/ queue'[j] = queue[j]
                 \/ /\ queue[j].status = "WATCHING" /\ queue'[j].status = "NEW"
                    /\ queue'[j].stale = queue[j].stale
    BY <1>1, <1>7, ResetStep
  <2>2. {"idle", "rearm"} \cap Dispatching = {}
    BY StepMembers
  <2>3. Continues
    BY <2>1, <2>2 DEF Continues, Only
  <2>4. Punctual'
    BY <2>1 DEF Holding, Punctual
  <2>5. \A v \in Workers : worker[v].pc \in Dispatching /\ SignalFor(v) \notin doubtful' =>
           queue'[JobOf(v)] = queue[JobOf(v)]
    BY <1>2, <2>1 DEF Holding, Claimed
  <2>. QED  BY <1>1, <2>1, <2>3, <2>4, <2>5, SameQueueClaimed, ContinuesOneHolder DEF Holding
<1>8. ASSUME NEW j \in Jobs, Enqueue(j)
      PROVE  Holding'
  <2>1. /\ doubtful' = doubtful /\ worker' = worker
        /\ queue[j].status = "none" /\ queue'[j].status = "NEW"
        /\ queue'[j].stale = queue[j].stale
        /\ \A k \in Jobs \ {j} : queue'[k] = queue[k]
    BY <1>1, <1>8, EnqueueStep
  <2>2. Continues
    BY <2>1 DEF Continues
  <2>3. Punctual'
    BY <2>1 DEF Holding, Punctual
  <2>4. \A v \in Workers : worker[v].pc \in Dispatching /\ SignalFor(v) \notin doubtful' =>
           queue'[JobOf(v)] = queue[JobOf(v)]
    BY <1>2, <2>1 DEF Holding, Claimed
  <2>. QED  BY <1>1, <2>1, <2>2, <2>3, <2>4, SameQueueClaimed, ContinuesOneHolder DEF Holding
<1>9. ASSUME NEW j \in Jobs, Ages(j)
      PROVE  Holding'
  <2>1. /\ doubtful \subseteq doubtful' /\ worker' = worker
        /\ Held(j) => SignalOf(j) \in doubtful'
        /\ queue[j].status = "PROCESSING" /\ queue'[j].status = queue[j].status
        /\ \A k \in Jobs \ {j} : queue'[k] = queue[k]
    BY <1>1, <1>9, AgesStep
  <2>2. Continues
    BY <2>1 DEF Continues
  <2>3. Punctual'
    BY <2>1 DEF Holding, Punctual
  <2>4. ASSUME NEW v \in Workers, worker[v].pc \in Dispatching, SignalFor(v) \notin doubtful'
        PROVE  queue'[JobOf(v)] = queue[JobOf(v)]
    <3>1. JobOf(v) # j
      BY <2>1, <2>4 DEF Held, SignalFor
    <3>. QED  BY <1>2, <2>1, <2>4, <3>1
  <2>. QED  BY <1>1, <2>1, <2>2, <2>3, <2>4, SameQueueClaimed, ContinuesOneHolder DEF Holding
<1>. QED  BY <1>1, <1>3, <1>4, <1>5, <1>6, <1>7, <1>8, <1>9, EveryStep

-----------------------------------------------------------------------------
(* One live ENTRY order.  A process that may insert one has no rival: no     *)
(* order of the signal is live and no other process may insert one.          *)

NoRival ==
    \A w \in Workers :
        worker[w].pc = "plan" /\ SignalFor(w) \notin doubtful =>
            /\ ~LiveOrder(SignalFor(w))
            /\ \A v \in Workers \ {w} :
                  worker[v].pc = "plan" => SignalFor(v) # SignalFor(w)
EntryInv == Holding /\ NoRival /\ OneLiveEntry

LEMMA NoBirthOneLive ==
    ASSUME NoBirth, OneLiveEntry, doubtful \subseteq doubtful'
    PROVE  OneLiveEntry'
<1>. SUFFICES ASSUME NEW s \in Signals, s \notin doubtful',
                     NEW o \in Orders, NEW p \in Orders,
                     order'[o].signal = s, order'[o].status \in Live,
                     order'[p].signal = s, order'[p].status \in Live
              PROVE  o = p
  BY DEF OneLiveEntry
<1>1. /\ order[o].signal = s /\ order[o].status \in Live
      /\ order[p].signal = s /\ order[p].status \in Live
  BY DEF NoBirth
<1>. QED  BY <1>1 DEF OneLiveEntry

\* A step after which nobody plans who did not plan before.
LEMMA NoNewPlanner ==
    ASSUME EntryInv, NoBirth, doubtful \subseteq doubtful',
           \A w \in Workers : worker'[w].pc = "plan" =>
              worker[w].pc = "plan" /\ worker'[w].job = worker[w].job
    PROVE  NoRival' /\ OneLiveEntry'
<1>1. OneLiveEntry'
  BY NoBirthOneLive DEF EntryInv
<1>2. NoRival'
  <2>. SUFFICES ASSUME NEW w \in Workers, worker'[w].pc = "plan",
                       SignalOf(worker'[w].job) \notin doubtful'
                PROVE  /\ \A o \in Orders : order'[o].signal = SignalOf(worker'[w].job) =>
                             order'[o].status \notin Live
                       /\ \A v \in Workers \ {w} : worker'[v].pc = "plan" =>
                             SignalOf(worker'[v].job) # SignalOf(worker'[w].job)
    BY DEF NoRival, SignalFor, JobOf, LiveOrder
  <2>1. /\ worker[w].pc = "plan" /\ SignalOf(worker'[w].job) = SignalFor(w)
        /\ SignalFor(w) \notin doubtful
    BY DEF SignalFor, JobOf
  <2>2. /\ ~LiveOrder(SignalFor(w))
        /\ \A v \in Workers \ {w} : worker[v].pc = "plan" => SignalFor(v) # SignalFor(w)
    BY <2>1 DEF EntryInv, NoRival
  <2>3. \A o \in Orders : order'[o].signal = SignalFor(w) => order'[o].status \notin Live
    BY <2>2 DEF NoBirth, LiveOrder
  <2>4. ASSUME NEW v \in Workers \ {w}, worker'[v].pc = "plan"
        PROVE  SignalOf(worker'[v].job) # SignalFor(w)
    <3>1. worker[v].pc = "plan" /\ SignalOf(worker'[v].job) = SignalFor(v)
      BY <2>4 DEF SignalFor, JobOf
    <3>. QED  BY <2>2, <3>1
  <2>. QED  BY <2>1, <2>3, <2>4
<1>. QED  BY <1>1, <1>2

\* Who passes the duplicate check finds no other process that passed it.
LEMMA PlannerIsAlone ==
    ASSUME EntryInv, NEW w \in Workers, NEW v \in Workers, w # v,
           worker[w].pc \in Dispatching, worker[v].pc = "plan",
           SignalFor(v) = SignalFor(w), SignalFor(w) \notin doubtful
    PROVE  Duplicate(JobOf(w))
<1>1. worker[v].pc \in Dispatching
  BY StepMembers
<1>2. JobOf(w) \in Jobs /\ JobOf(v) \in Jobs
  BY <1>1, Employee DEF EntryInv, Holding, Sorted, Speaks
<1>3. JobOf(v) # JobOf(w)
  BY <1>1 DEF EntryInv, Holding, OneHolder
<1>4. queue[JobOf(v)].status = "PROCESSING"
  BY <1>1 DEF EntryInv, Holding, Claimed
<1>5. "PROCESSING" \in ActiveJobs
  BY JobMembers
<1>. QED  BY <1>2, <1>3, <1>4, <1>5 DEF Duplicate, OtherActiveJob, SignalFor

LEMMA ActingEntry ==
    ASSUME EntryInv, NEW a \in Workers, Calm, Acts(a)
    PROVE  NoRival' /\ OneLiveEntry'
<1>1. /\ doubtful \subseteq doubtful' /\ NoBirth
      /\ \A v \in Workers \ {a} : worker'[v] = worker[v]
  BY DEF Calm, Acts, Only
<1>2. CASE worker'[a].pc # "plan"
  BY <1>1, <1>2, NoNewPlanner
<1>3. CASE worker'[a].pc = "plan"
  <2>1. OneLiveEntry'
    BY <1>1, NoBirthOneLive DEF EntryInv
  <2>2. /\ worker[a].pc \in Dispatching /\ worker'[a].job = worker[a].job
        /\ \/ SignalFor(a) \in doubtful'
           \/ order' = order /\ ~Duplicate(JobOf(a))
    BY <1>3, StepMembers DEF Acts
  <2>3. ASSUME NEW w \in Workers \ {a}, worker'[w].pc = "plan",
               SignalFor(w) \notin doubtful'
        PROVE  SignalFor(a) # SignalFor(w)
    <3>1. worker[w].pc = "plan" /\ SignalFor(w) \notin doubtful
      BY <1>1, <2>3
    <3>2. SUFFICES ASSUME SignalFor(a) = SignalFor(w) PROVE FALSE
      OBVIOUS
    <3>3. Duplicate(JobOf(a))
      BY <2>2, <3>1, <3>2, PlannerIsAlone
    <3>. QED  BY <2>2, <2>3, <3>2, <3>3
  <2>4. NoRival'
    <3>. SUFFICES ASSUME NEW w \in Workers, worker'[w].pc = "plan",
                         SignalOf(worker'[w].job) \notin doubtful'
                  PROVE  /\ \A o \in Orders : order'[o].signal = SignalOf(worker'[w].job) =>
                               order'[o].status \notin Live
                         /\ \A v \in Workers \ {w} : worker'[v].pc = "plan" =>
                               SignalOf(worker'[v].job) # SignalOf(worker'[w].job)
      BY DEF NoRival, SignalFor, JobOf, LiveOrder
    <3>1. \A v \in Workers : SignalOf(worker'[v].job) = SignalFor(v)
      BY <1>1, <2>2 DEF SignalFor, JobOf
    <3>2. SignalFor(w) \notin doubtful' /\ SignalFor(w) \notin doubtful
      BY <1>1, <3>1
    <3>3. CASE w = a
      <4>1. order' = order /\ ~Duplicate(JobOf(a))
        BY <2>2, <3>2, <3>3
      <4>2. ~LiveOrder(SignalFor(a))
        BY <4>1 DEF Duplicate, SignalFor
      <4>3. \A v \in Workers \ {a} : worker'[v].pc = "plan" => SignalFor(v) # SignalFor(a)
        BY <2>3, <3>2, <3>3
      <4>. QED  BY <3>1, <3>3, <4>1, <4>2, <4>3 DEF LiveOrder
    <3>4. CASE w # a
      <4>1. worker[w].pc = "plan"
        BY <1>1, <3>4
      <4>2. /\ ~LiveOrder(SignalFor(w))
            /\ \A v \in Workers \ {w} : worker[v].pc = "plan" => SignalFor(v) # SignalFor(w)
        BY <3>2, <4>1 DEF EntryInv, NoRival
      <4>3. \A o \in Orders : order'[o].signal = SignalFor(w) => order'[o].status \notin Live
        BY <1>1, <4>2 DEF NoBirth, LiveOrder
      <4>4. \A v \in Workers \ {w} : worker'[v].pc = "plan" => SignalFor(v) # SignalFor(w)
        BY <1>1, <2>3, <3>2, <3>4, <4>2
      <4>. QED  BY <3>1, <4>3, <4>4
    <3>. QED  BY <3>3, <3>4
  <2>. QED  BY <2>1, <2>4
<1>. QED  BY <1>2, <1>3

LEMMA CreatingEntry ==
    ASSUME EntryInv, NEW a \in Workers, Create(a)
    PROVE  NoRival' /\ OneLiveEntry'
<1>1. /\ Acts(a) /\ worker[a].pc = "plan" /\ worker'[a].pc # "plan"
      /\ doubtful' = doubtful
  BY CreateStep DEF EntryInv, Holding
<1>2. PICK o \in Orders :
         /\ order'[o].signal = SignalFor(a)
         /\ \A p \in Orders \ {o} : order'[p] = order[p]
  BY CreateStep DEF EntryInv, Holding
<1>3. \A v \in Workers \ {a} : worker'[v] = worker[v]
  BY <1>1 DEF Acts, Only
<1>4. SignalFor(a) \notin doubtful =>
         /\ ~LiveOrder(SignalFor(a))
         /\ \A v \in Workers \ {a} : worker[v].pc = "plan" => SignalFor(v) # SignalFor(a)
  BY <1>1 DEF EntryInv, NoRival
<1>5. OneLiveEntry'
  <2>. SUFFICES ASSUME NEW s \in Signals, s \notin doubtful,
                       NEW p \in Orders, NEW q \in Orders,
                       order'[p].signal = s, order'[p].status \in Live,
                       order'[q].signal = s, order'[q].status \in Live
                PROVE  p = q
    BY <1>1 DEF OneLiveEntry
  <2>1. CASE s = SignalFor(a)
    BY <1>2, <1>4, <2>1 DEF LiveOrder
  <2>2. CASE s # SignalFor(a)
    <3>1. order'[p] = order[p] /\ order'[q] = order[q]
      BY <1>2, <2>2
    <3>. QED  BY <3>1 DEF EntryInv, OneLiveEntry
  <2>. QED  BY <2>1, <2>2
<1>6. NoRival'
  <2>. SUFFICES ASSUME NEW w \in Workers, worker'[w].pc = "plan",
                       SignalOf(worker'[w].job) \notin doubtful
                PROVE  /\ \A p \in Orders : order'[p].signal = SignalOf(worker'[w].job) =>
                             order'[p].status \notin Live
                       /\ \A v \in Workers \ {w} : worker'[v].pc = "plan" =>
                             SignalOf(worker'[v].job) # SignalOf(worker'[w].job)
    BY <1>1 DEF NoRival, SignalFor, JobOf, LiveOrder
  <2>1. w # a /\ worker'[w] = worker[w]
    BY <1>1, <1>3
  <2>2. /\ ~LiveOrder(SignalFor(w)) /\ SignalFor(w) # SignalFor(a)
        /\ \A v \in Workers \ {w} : worker[v].pc = "plan" => SignalFor(v) # SignalFor(w)
    BY <1>1, <2>1 DEF EntryInv, NoRival, SignalFor, JobOf
  <2>3. ASSUME NEW p \in Orders, order'[p].signal = SignalFor(w)
        PROVE  order'[p].status \notin Live
    <3>1. p # o
      BY <1>2, <2>2, <2>3
    <3>. QED  BY <1>2, <2>2, <2>3, <3>1 DEF LiveOrder
  <2>4. ASSUME NEW v \in Workers \ {w}, worker'[v].pc = "plan"
        PROVE  SignalOf(worker'[v].job) # SignalFor(w)
    <3>1. v # a /\ worker'[v] = worker[v]
      BY <1>1, <1>3, <2>4
    <3>. QED  BY <2>2, <2>4, <3>1 DEF SignalFor, JobOf
  <2>. QED  BY <2>1, <2>3, <2>4 DEF SignalFor, JobOf
<1>. QED  BY <1>5, <1>6

LEMMA StepEntry ==
    ASSUME EntryInv, [Next]_vars
    PROVE  EntryInv'
<1>1. Sorted /\ Holding'
  BY StepHolding DEF EntryInv, Holding
<1>2. ASSUME Calm, worker' = worker
      PROVE  NoRival' /\ OneLiveEntry'
  BY <1>2, NoNewPlanner DEF Calm
<1>3. ASSUME NEW w \in Workers, Settles(w)
      PROVE  NoRival' /\ OneLiveEntry'
  <2>1. /\ doubtful \subseteq doubtful' /\ NoBirth /\ worker'[w].pc # "plan"
        /\ \A v \in Workers \ {w} : worker'[v] = worker[v]
    BY <1>3 DEF Settles, Only
  <2>. QED  BY <2>1, NoNewPlanner
<1>4. ASSUME NEW w \in Workers, Claim(w)
      PROVE  NoRival' /\ OneLiveEntry'
  <2>1. /\ order' = order /\ doubtful' = doubtful
        /\ worker' = worker \/ \E j \in Jobs : Takes(w, j)
    BY <1>1, <1>4, ClaimStep
  <2>2. \A v \in Workers : worker'[v].pc = "plan" =>
              worker[v].pc = "plan" /\ worker'[v].job = worker[v].job
    BY <2>1 DEF Takes, Only
  <2>. QED  BY <2>1, <2>2, SameOrdersIsNoBirth, NoNewPlanner
<1>5. ASSUME NEW w \in Workers, Reset(w)
      PROVE  NoRival' /\ OneLiveEntry'
  <2>1. /\ order' = order /\ doubtful' = doubtful
        /\ Only(w) /\ worker'[w].pc \in {"idle", "rearm"}
    BY <1>1, <1>5, ResetStep
  <2>2. \A v \in Workers : worker'[v].pc = "plan" =>
              worker[v].pc = "plan" /\ worker'[v].job = worker[v].job
    BY <2>1 DEF Only
  <2>. QED  BY <2>1, <2>2, SameOrdersIsNoBirth, NoNewPlanner
<1>6. ASSUME NEW j \in Jobs, Enqueue(j) \/ Ages(j)
      PROVE  NoRival' /\ OneLiveEntry'
  <2>1. order' = order /\ doubtful \subseteq doubtful' /\ worker' = worker
    BY <1>1, <1>6, EnqueueStep, AgesStep
  <2>. QED  BY <2>1, SameOrdersIsNoBirth, NoNewPlanner
<1>7. NoRival' /\ OneLiveEntry'
  BY <1>1, <1>2, <1>3, <1>4, <1>5, <1>6, EveryStep, ActingEntry, CreatingEntry
<1>. QED  BY <1>1, <1>7 DEF EntryInv

LEMMA InitEntry == Init => EntryInv
<1>. SUFFICES ASSUME Init PROVE EntryInv
  OBVIOUS
<1>1. Sorted
  BY InitSorted
<1>2. \A w \in Workers : worker[w].pc \notin Dispatching /\ worker[w].pc # "plan"
  BY StepMembers DEF Init, IdleAt
<1>3. Claimed /\ OneHolder /\ NoRival
  BY <1>2 DEF Claimed, OneHolder, NoRival
<1>4. Punctual
  BY DEF Init, Punctual
<1>5. \A o \in Orders : order[o].status \notin Live
  BY LiveStatuses DEF Init
<1>6. OneLiveEntry
  BY <1>5 DEF OneLiveEntry
<1>. QED  BY <1>1, <1>3, <1>4, <1>6 DEF EntryInv, Holding

\* A signal whose dispatches keep their claims, hear from the database and are
\* told of their commits never has two live ENTRY orders, however many
\* processes dispatch its jobs and wherever they die.  The invariant: a job in
\* dispatch stays PROCESSING, so of two processes past the duplicate check the
\* second would have seen the first one's job.
THEOREM OneLiveEntryPerSignal == Spec => []OneLiveEntry
<1>1. EntryInv /\ [Next]_vars => EntryInv'
  BY StepEntry
<1>2. EntryInv => OneLiveEntry
  BY DEF EntryInv
<1>. QED  BY <1>1, <1>2, InitEntry, PTL DEF Spec

-----------------------------------------------------------------------------
(* The two rows of a deferral.  Nobody writes the ap_signals row of a signal *)
(* behind the back of its only job: who writes it holds a job of the signal  *)
(* that is PROCESSING, or was just REJECTED.                                 *)

Rejecting ==
    \A w \in Workers :
        worker[w].pc = "logRejection" /\ SignalFor(w) \notin doubtful
        => queue[JobOf(w)].status = "REJECTED"
Founded ==
    \A w \in Workers :
        /\ worker[w].pc = "watchCas" /\ SignalFor(w) \notin doubtful
        /\ OnlyJob(JobOf(w))
        => signal[SignalFor(w)] = Own(JobOf(w))
RowInv == Holding /\ Rejecting /\ Founded /\ DeferredIsFound

LEMMA StatusForDone ==
    \A why \in Outcomes : why # "none" =>
        /\ StatusFor[why] # "none"
        /\ StatusFor[why] = "WATCHING" => why \in {"armed", "deferred"}
<1>1. \A why \in Outcomes :
         \/ why \in Rejections \/ why = "failed" \/ why = "armed"
         \/ why = "submitted" \/ why = "deferred" \/ why = "none"
  BY DEF Outcomes
<1>. QED  BY <1>1, StatusForValues

\* No row of the queue is ever taken away.
Stays == \A j \in Jobs : queue[j].status # "none" => queue'[j].status # "none"

LEMMA OnlyJobBefore ==
    ASSUME Stays, NEW j \in Jobs,
           \A k \in Jobs \ {j} : SignalOf(k) = SignalOf(j) => queue'[k].status = "none"
    PROVE  OnlyJob(j)
BY DEF Stays, OnlyJob

LEMMA SpeakerJob ==
    ASSUME RowInv, NEW a \in Workers, Speaks(a), SignalFor(a) \notin doubtful,
           NEW j \in Jobs, OnlyJob(j), SignalOf(j) = SignalFor(a)
    PROVE  /\ JobOf(a) = j
           /\ \/ worker[a].pc \in Dispatching /\ queue[j].status = "PROCESSING"
              \/ worker[a].pc = "logRejection" /\ queue[j].status = "REJECTED"
<1>1. JobOf(a) \in Jobs
  BY Employee DEF RowInv, Holding, Sorted
<1>2. \/ worker[a].pc \in Dispatching /\ queue[JobOf(a)].status = "PROCESSING"
      \/ worker[a].pc = "logRejection" /\ queue[JobOf(a)].status = "REJECTED"
  BY DEF RowInv, Holding, Claimed, Rejecting, Speaks
<1>3. queue[JobOf(a)].status # "none"
  BY <1>2
<1>4. JobOf(a) = j
  BY <1>1, <1>3 DEF OnlyJob, SignalFor
<1>. QED  BY <1>2, <1>4

\* The queue stays as it is: what matters is who writes which ap_signals row.
LEMMA ActingRow ==
    ASSUME RowInv, NEW a \in Workers, Acts(a), queue' = queue,
           doubtful \subseteq doubtful'
    PROVE  Rejecting' /\ Founded' /\ DeferredIsFound'
<1>1. \A v \in Workers \ {a} : worker'[v] = worker[v]
  BY DEF Acts, Only
<1>2. Rejecting'
  <2>. SUFFICES ASSUME NEW w \in Workers, worker'[w].pc = "logRejection",
                       SignalOf(worker'[w].job) \notin doubtful'
                PROVE  queue[worker'[w].job].status = "REJECTED"
    BY DEF Rejecting, SignalFor, JobOf
  <2>1. worker'[w] = worker[w] /\ SignalFor(w) \notin doubtful
    BY <1>1 DEF Acts, SignalFor, JobOf
  <2>. QED  BY <2>1 DEF RowInv, Rejecting, JobOf
<1>3. ASSUME NEW j \in Jobs, OnlyJob(j), SignalOf(j) \notin doubtful,
             signal[SignalOf(j)] = Own(j),
             Speaks(a) /\ SignalFor(a) = SignalOf(j) => FALSE
      PROVE  signal'[SignalOf(j)] = Own(j)
  <2>1. SignalOf(j) \in Signals
    BY JobHasSignal
  <2>. QED  BY <1>3, <2>1 DEF Acts, SpeaksForItself
<1>4. Founded'
  <2>. SUFFICES ASSUME NEW w \in Workers, worker'[w].pc = "watchCas",
                       SignalOf(worker'[w].job) \notin doubtful',
                       \A k \in Jobs \ {worker'[w].job} :
                          SignalOf(k) = SignalOf(worker'[w].job) => queue[k].status = "none"
                PROVE  signal'[SignalOf(worker'[w].job)] = Own(worker'[w].job)
    BY DEF Founded, SignalFor, JobOf, OnlyJob
  <2>1. worker'[w].pc \in Dispatching
    BY StepMembers
  <2>2. CASE w = a
    BY <2>1, <2>2 DEF Acts, SignalFor, JobOf
  <2>3. CASE w # a
    <3>1. worker'[w] = worker[w] /\ worker[w].pc \in Dispatching
      BY <1>1, <2>1, <2>3
    <3>2. JobOf(w) \in Jobs
      BY <3>1, Employee DEF RowInv, Holding, Sorted, Speaks
    <3>3. OnlyJob(JobOf(w)) /\ SignalFor(w) \notin doubtful
      BY <3>1 DEF OnlyJob, SignalFor, JobOf
    <3>4. signal[SignalFor(w)] = Own(JobOf(w)) /\ queue[JobOf(w)].status = "PROCESSING"
      BY <3>1, <3>3 DEF RowInv, Founded, Holding, Claimed
    <3>5. ~(Speaks(a) /\ SignalFor(a) = SignalFor(w))
      <4>. SUFFICES ASSUME Speaks(a), SignalFor(a) = SignalFor(w) PROVE FALSE
        OBVIOUS
      <4>1. /\ JobOf(a) = JobOf(w)
            /\ \/ worker[a].pc \in Dispatching
               \/ queue[JobOf(w)].status = "REJECTED"
        BY <3>2, <3>3, SpeakerJob DEF SignalFor
      <4>2. worker[a].pc \in Dispatching
        BY <3>4, <4>1
      <4>. QED  BY <2>3, <3>1, <3>3, <4>1, <4>2 DEF RowInv, Holding, OneHolder
    <3>6. signal'[SignalFor(w)] = Own(JobOf(w))
      BY <1>3, <3>2, <3>3, <3>4, <3>5 DEF SignalFor
    <3>. QED  BY <3>1, <3>6 DEF SignalFor, JobOf
  <2>. QED  BY <2>2, <2>3
<1>5. DeferredIsFound'
  <2>. SUFFICES ASSUME NEW j \in Jobs, queue[j].status = "WATCHING",
                       queue[j].why = "deferred", OnlyJob(j),
                       SignalOf(j) \notin doubtful'
                PROVE  signal'[SignalOf(j)] = Own(j)
    BY DEF DeferredIsFound, OnlyJob, Own
  <2>1. SignalOf(j) \notin doubtful /\ signal[SignalOf(j)] = Own(j)
    BY DEF RowInv, DeferredIsFound, Own
  <2>2. ~(Speaks(a) /\ SignalFor(a) = SignalOf(j))
    BY <2>1, SpeakerJob
  <2>. QED  BY <1>3, <2>1, <2>2
<1>. QED  BY <1>2, <1>4, <1>5

\* The ap_signals rows stay as they are: what matters is how the queue changes.
LEMMA QueueRow ==
    ASSUME RowInv, Sorted', signal' = signal, doubtful \subseteq doubtful', Stays,
           \A w \in Workers : worker'[w].pc = "watchCas" =>
              worker[w].pc = "watchCas" /\ worker'[w].job = worker[w].job,
           \A w \in Workers :
              worker'[w].pc = "logRejection" /\ SignalOf(worker'[w].job) \notin doubtful'
              => queue'[worker'[w].job].status = "REJECTED",
           \A j \in Jobs :
              /\ queue'[j].status = "WATCHING" /\ queue'[j].why = "deferred"
              /\ SignalOf(j) \notin doubtful' /\ OnlyJob(j)
              => signal[SignalOf(j)] = Own(j)
    PROVE  Rejecting' /\ Founded' /\ DeferredIsFound'
<1>1. Rejecting'
  BY DEF Rejecting, SignalFor, JobOf
<1>2. Founded'
  <2>. SUFFICES ASSUME NEW w \in Workers, worker'[w].pc = "watchCas",
                       SignalOf(worker'[w].job) \notin doubtful',
                       \A k \in Jobs \ {worker'[w].job} :
                          SignalOf(k) = SignalOf(worker'[w].job) => queue'[k].status = "none"
                PROVE  signal'[SignalOf(worker'[w].job)] = Own(worker'[w].job)
    BY DEF Founded, SignalFor, JobOf, OnlyJob
  <2>1. worker[w].pc = "watchCas" /\ worker'[w].job = JobOf(w)
    BY DEF JobOf
  <2>2. worker[w].pc \in Dispatching
    BY <2>1, StepMembers
  <2>3. JobOf(w) \in Jobs
    BY <2>2, Employee DEF RowInv, Holding, Sorted, Speaks
  <2>4. OnlyJob(JobOf(w))
    BY <2>1, <2>3, OnlyJobBefore
  <2>5. signal[SignalFor(w)] = Own(JobOf(w))
    BY <2>1, <2>4 DEF RowInv, Founded, SignalFor
  <2>. QED  BY <2>1, <2>5 DEF SignalFor
<1>3. DeferredIsFound'
  <2>. SUFFICES ASSUME NEW j \in Jobs, queue'[j].status = "WATCHING",
                       queue'[j].why = "deferred", SignalOf(j) \notin doubtful',
                       \A k \in Jobs \ {j} :
                          SignalOf(k) = SignalOf(j) => queue'[k].status = "none"
                PROVE  signal'[SignalOf(j)] = Own(j)
    BY DEF DeferredIsFound, OnlyJob, Own
  <2>1. OnlyJob(j)
    BY OnlyJobBefore
  <2>. QED  BY <2>1
<1>. QED  BY <1>1, <1>2, <1>3

LEMMA WasFound ==
    ASSUME RowInv, NEW j \in Jobs, queue[j].status = "WATCHING",
           queue[j].why = "deferred", SignalOf(j) \notin doubtful, OnlyJob(j)
    PROVE  signal[SignalOf(j)] = Own(j)
BY DEF RowInv, DeferredIsFound, Own

LEMMA RejectedBefore ==
    ASSUME RowInv, NEW w \in Workers, worker[w].pc = "logRejection",
           SignalFor(w) \notin doubtful
    PROVE  JobOf(w) \in Jobs /\ queue[JobOf(w)].status = "REJECTED"
BY Employee DEF RowInv, Holding, Sorted, Speaks, Rejecting

LEMMA SettlingRow ==
    ASSUME RowInv, Sorted', NEW a \in Workers, Settles(a)
    PROVE  Rejecting' /\ Founded' /\ DeferredIsFound'
<1>1. PICK why \in Outcomes :
          /\ queue' = MarkedJob(JobOf(a), why) /\ why # "none"
          /\ why = "deferred" => worker[a].pc = "watchCas"
          /\ worker'[a].pc = "logRejection" =>
                why \in Rejections /\ worker'[a].job = worker[a].job
  BY DEF Settles
<1>2. /\ signal' = signal /\ doubtful \subseteq doubtful'
      /\ \A v \in Workers \ {a} : worker'[v] = worker[v]
      /\ worker[a].pc \in Dispatching /\ worker'[a].pc # "watchCas"
  BY DEF Settles, Only
<1>3. JobOf(a) \in Jobs /\ queue \in [Jobs -> Job]
  BY <1>2, Employee DEF RowInv, Holding, Sorted, Rows, Speaks
<1>4. /\ queue'[JobOf(a)].status = StatusFor[why] /\ queue'[JobOf(a)].why = why
      /\ \A k \in Jobs \ {JobOf(a)} : queue'[k] = queue[k]
  <2>1. /\ MarkedJob(JobOf(a), why)[JobOf(a)].status = StatusFor[why]
        /\ MarkedJob(JobOf(a), why)[JobOf(a)].why = why
        /\ \A k \in Jobs \ {JobOf(a)} : MarkedJob(JobOf(a), why)[k] = queue[k]
    BY <1>3, MarkedJobType
  <2>. QED  BY <1>1, <2>1
<1>5. Stays
  BY <1>1, <1>4, StatusForDone DEF Stays
<1>6. \A w \in Workers : worker'[w].pc = "watchCas" =>
              worker[w].pc = "watchCas" /\ worker'[w].job = worker[w].job
  BY <1>2
<1>7. ASSUME NEW w \in Workers, worker'[w].pc = "logRejection",
             SignalOf(worker'[w].job) \notin doubtful'
      PROVE  queue'[worker'[w].job].status = "REJECTED"
  <2>1. CASE w = a
    <3>1. why \in Rejections /\ worker'[w].job = JobOf(a)
      BY <1>1, <1>7, <2>1 DEF JobOf
    <3>. QED  BY <1>4, <3>1, StatusForValues
  <2>2. CASE w # a
    <3>1. worker'[w].job = JobOf(w) /\ worker[w].pc = "logRejection"
      BY <1>2, <1>7, <2>2 DEF JobOf
    <3>2. JobOf(w) \in Jobs /\ queue[JobOf(w)].status = "REJECTED"
      BY <1>2, <1>7, <3>1, RejectedBefore DEF SignalFor
    <3>3. JobOf(w) # JobOf(a)
      <4>1. JobOf(w) = JobOf(a) => queue[JobOf(a)].status = "PROCESSING"
        BY <1>2, <1>7, <3>1 DEF RowInv, Holding, Claimed, SignalFor
      <4>. QED  BY <3>2, <4>1
    <3>. QED  BY <1>4, <3>1, <3>2, <3>3
  <2>. QED  BY <2>1, <2>2
<1>8. ASSUME NEW j \in Jobs, queue'[j].status = "WATCHING", queue'[j].why = "deferred",
             SignalOf(j) \notin doubtful', OnlyJob(j)
      PROVE  signal[SignalOf(j)] = Own(j)
  <2>1. CASE j = JobOf(a)
    <3>1. worker[a].pc = "watchCas" /\ SignalFor(a) \notin doubtful
      BY <1>1, <1>2, <1>4, <1>8, <2>1 DEF SignalFor
    <3>. QED  BY <1>8, <2>1, <3>1 DEF RowInv, Founded, SignalFor
  <2>2. CASE j # JobOf(a)
    BY <1>2, <1>4, <1>8, <2>2, WasFound
  <2>. QED  BY <2>1, <2>2
<1>. QED  BY <1>2, <1>5, <1>6, <1>7, <1>8, QueueRow

\* Steps of the queue that nobody dispatching takes: rows that were REJECTED
\* stay so, and none becomes WATCHING.
LEMMA QuietRow ==
    ASSUME RowInv, Sorted', signal' = signal, doubtful \subseteq doubtful',
           \A w \in Workers : worker'[w].pc \in {"watchCas", "logRejection"} =>
              worker'[w].pc = worker[w].pc /\ worker'[w].job = worker[w].job,
           Stays,
           \A j \in Jobs :
              /\ queue[j].status = "REJECTED" => queue'[j].status = "REJECTED"
              /\ queue'[j].status = "WATCHING" =>
                    queue[j].status = "WATCHING" /\ queue'[j].why = queue[j].why
    PROVE  Rejecting' /\ Founded' /\ DeferredIsFound'
<1>1. ASSUME NEW w \in Workers, worker'[w].pc = "logRejection",
             SignalOf(worker'[w].job) \notin doubtful'
      PROVE  queue'[worker'[w].job].status = "REJECTED"
  <2>1. worker[w].pc = "logRejection" /\ worker'[w].job = JobOf(w)
    BY <1>1 DEF JobOf
  <2>2. JobOf(w) \in Jobs /\ queue[JobOf(w)].status = "REJECTED"
    BY <1>1, <2>1, RejectedBefore DEF SignalFor
  <2>. QED  BY <2>1, <2>2
<1>2. ASSUME NEW j \in Jobs, queue'[j].status = "WATCHING", queue'[j].why = "deferred",
             SignalOf(j) \notin doubtful', OnlyJob(j)
      PROVE  signal[SignalOf(j)] = Own(j)
  BY <1>2, WasFound
<1>3. \A w \in Workers : worker'[w].pc = "watchCas" =>
              worker[w].pc = "watchCas" /\ worker'[w].job = worker[w].job
  OBVIOUS
<1>. QED  BY <1>1, <1>2, <1>3, QueueRow

LEMMA StepRow ==
    ASSUME RowInv, [Next]_vars
    PROVE  RowInv'
<1>1. Sorted /\ Sorted' /\ Holding'
  BY StepHolding DEF RowInv, Holding
<1>2. ASSUME Calm, worker' = worker, signal' = signal
      PROVE  Rejecting' /\ Founded' /\ DeferredIsFound'
  <2>1. queue' = queue /\ doubtful \subseteq doubtful' /\ Stays
    BY <1>2 DEF Calm, Stays
  <2>. QED  BY <1>1, <1>2, <2>1, QuietRow
<1>3. ASSUME NEW w \in Workers, Calm, Acts(w)
      PROVE  Rejecting' /\ Founded' /\ DeferredIsFound'
  BY <1>3, ActingRow DEF Calm
<1>4. ASSUME NEW w \in Workers, Create(w)
      PROVE  Rejecting' /\ Founded' /\ DeferredIsFound'
  BY <1>1, <1>4, CreateStep, ActingRow
<1>5. ASSUME NEW w \in Workers, Settles(w)
      PROVE  Rejecting' /\ Founded' /\ DeferredIsFound'
  BY <1>1, <1>5, SettlingRow
<1>6. ASSUME NEW w \in Workers, Claim(w)
      PROVE  Rejecting' /\ Founded' /\ DeferredIsFound'
  <2>1. /\ signal' = signal /\ doubtful' = doubtful
        /\ (worker' = worker /\ queue' = Reclaimed) \/ \E j \in Jobs : Takes(w, j)
    BY <1>1, <1>6, ClaimStep
  <2>2. \A v \in Workers : worker'[v].pc \in {"watchCas", "logRejection"} =>
              worker'[v].pc = worker[v].pc /\ worker'[v].job = worker[v].job
    BY <2>1 DEF Takes, Only
  <2>3. \A j \in Jobs :
           /\ Reclaimed[j].why = queue[j].why
           /\ \/ Reclaimed[j] = queue[j]
              \/ queue[j].status = "PROCESSING" /\ Reclaimed[j].status = "NEW"
    BY <1>1, ReclaimedRows DEF Sorted, Rows
  <2>4. \A j \in Jobs :
           \/ queue'[j] = Reclaimed[j]
           \/ Reclaimed[j].status = "NEW" /\ queue'[j].status = "PROCESSING"
    BY <2>1 DEF Takes
  <2>5. Stays
    BY <2>3, <2>4 DEF Stays
  <2>6. \A j \in Jobs :
              /\ queue[j].status = "REJECTED" => queue'[j].status = "REJECTED"
              /\ queue'[j].status = "WATCHING" =>
                    queue[j].status = "WATCHING" /\ queue'[j].why = queue[j].why
    BY <2>3, <2>4
  <2>. QED  BY <1>1, <2>1, <2>2, <2>5, <2>6, QuietRow
<1>7. ASSUME NEW w \in Workers, Reset(w)
      PROVE  Rejecting' /\ Founded' /\ DeferredIsFound'
  <2>1. /\ signal' = signal /\ doubtful' = doubtful
        /\ Only(w) /\ worker'[w].pc \in {"idle", "rearm"}
        /\ \A j \in Jobs :
                 \/ queue'[j] = queue[j]
                 \/ queue[j].status = "WATCHING" /\ queue'[j].status = "NEW"
    BY <1>1, <1>7, ResetStep
  <2>2. \A v \in Workers : worker'[v].pc \in {"watchCas", "logRejection"} =>
              worker'[v].pc = worker[v].pc /\ worker'[v].job = worker[v].job
    BY <2>1 DEF Only
  <2>3. Stays
    BY <2>1 DEF Stays
  <2>. QED  BY <1>1, <2>1, <2>2, <2>3, QuietRow
<1>8. ASSUME NEW j \in Jobs, Enqueue(j)
      PROVE  Rejecting' /\ Founded' /\ DeferredIsFound'
  <2>1. /\ signal' = signal /\ doubtful' = doubtful /\ worker' = worker
        /\ queue[j].status = "none" /\ queue'[j].status = "NEW"
        /\ \A k \in Jobs \ {j} : queue'[k] = queue[k]
    BY <1>1, <1>8, EnqueueStep
  <2>2. Stays
    BY <2>1 DEF Stays
  <2>. QED  BY <1>1, <2>1, <2>2, QuietRow
<1>9. ASSUME NEW j \in Jobs, Ages(j)
      PROVE  Rejecting' /\ Founded' /\ DeferredIsFound'
  <2>1. /\ signal' = signal /\ doubtful \subseteq doubtful' /\ worker' = worker
        /\ queue'[j].status = queue[j].status /\ queue'[j].why = queue[j].why
        /\ \A k \in Jobs \ {j} : queue'[k] = queue[k]
    BY <1>1, <1>9, AgesStep
  <2>2. Stays
    BY <2>1 DEF Stays
  <2>. QED  BY <1>1, <2>1, <2>2, QuietRow
<1>10. Rejecting' /\ Founded' /\ DeferredIsFound'
  BY <1>1, <1>2, <1>3, <1>4, <1>5, <1>6, <1>7, <1>8, <1>9, EveryStep
<1>. QED  BY <1>1, <1>10 DEF RowInv

LEMMA InitRow == Init => RowInv
<1>. SUFFICES ASSUME Init PROVE RowInv
  OBVIOUS
<1>1. Holding
  BY InitEntry DEF EntryInv
<1>2. Rejecting /\ Founded
  BY DEF Init, IdleAt, Rejecting, Founded
<1>3. DeferredIsFound
  BY DEF Init, DeferredIsFound
<1>. QED  BY <1>1, <1>2, <1>3 DEF RowInv

\* A job _persist_watching_deferral() left WATCHING has its ap_signals row,
\* for any number of processes, restarts and failed statements, if its signal
\* has no other job and nobody's claim, reading or commit was lost.
THEOREM DeferralsAreFound == Spec => []DeferredIsFound
<1>1. RowInv /\ [Next]_vars => RowInv'
  BY StepRow
<1>2. RowInv => DeferredIsFound
  BY DEF RowInv
<1>. QED  BY <1>1, <1>2, InitRow, PTL DEF Spec

=============================================================================
