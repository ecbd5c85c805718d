--------------------------- MODULE OrderLifecycle ---------------------------
(***************************************************************************)
(* The orders table and everybody who writes to it through the order state *)
(* machine: the watcher, the submit path, the fill monitor, the            *)
(* reconciler, the pending-trigger watchdog and the exit safety guard, all *)
(* threads of one client's process (or of two processes during a restart). *)
(*                                                                         *)
(* Nobody holds a lock.  A call of transition() reads the row, decides in  *)
(* Python, and then issues an UPDATE that is guarded by what it read; each *)
(* of these database statements is an action here, so every interleaving   *)
(* of the statements of several calls is a behaviour.                      *)
(***************************************************************************)
EXTENDS OrderStateMachine, FiniteSets

CONSTANTS
    Workers,       \* threads that run calls of the order state machine
    Orders         \* rows of the table

ASSUME OrdersAssumption == Orders # {}

VARIABLES
    orders,       \* the orders table
    executed,     \* contracts the broker has executed for a row's order
    submissions,  \* how often a row's order was sent to the broker
    pc,           \* the next statement of each worker
    job,          \* arguments and local variables of each worker's call
    told          \* <<row, identity>> pairs for which a call returned True

vars == <<orders, executed, submissions, pc, job, told>>

-----------------------------------------------------------------------------
(* The call a worker is executing.  "by" is who made it, "read" the row as *)
(* transition() found it.                                                  *)

Callers == {"nobody", "watcher", "cleanup", "watchdog", "fallback", "guard",
            "submitter", "reconciler", "monitor"}

Job == [by : Callers, order : Orders, req : Request, read : Row]

NoJob == [by |-> "nobody", order |-> CHOOSE o \in Orders : TRUE,
          req |-> MoveTo("CREATED"), read |-> NewRow("ENTRY")]

Statements == {"idle", "check", "prove", "post", "read", "update", "reread",
               "record", "flag", "resolve"}

TypeOK ==
    /\ orders \in [Orders -> Row]
    /\ executed \in [Orders -> 0..Qty]
    /\ submissions \in [Orders -> Nat]
    /\ pc \in [Workers -> Statements]
    /\ job \in [Workers -> Job]
    /\ told \subseteq Orders \X BrokerIds

Init ==
    /\ orders \in [Orders -> {NewRow("ENTRY"), NewRow("EXIT")}]
    /\ executed = [o \in Orders |-> 0]
    /\ submissions = [o \in Orders |-> 0]
    /\ pc = [w \in Workers |-> "idle"]
    /\ job = [w \in Workers |-> NoJob]
    /\ told = {}

Row_(w) == orders[job[w].order]

Write(w, row) == orders' = [orders EXCEPT ![job[w].order] = row]

Goto(w, statement) ==
    /\ pc' = [pc EXCEPT ![w] = statement]
    /\ UNCHANGED job

Start(w, statement, by, o, req) ==
    /\ pc[w] = "idle"
    /\ pc' = [pc EXCEPT ![w] = statement]
    /\ job' = [job EXCEPT ![w] = [by |-> by, order |-> o, req |-> req,
                                  read |-> NoJob.read]]

Leave(w) ==
    /\ pc' = [pc EXCEPT ![w] = "idle"]
    /\ job' = [job EXCEPT ![w] = NoJob]

\* transition() returned True: the caller goes on relying on the identity.
ReturnTrue(w) ==
    /\ Leave(w)
    /\ told' = told \cup
          {p \in {<<job[w].order, job[w].req.bid>>} : p[2] # NoBroker}

\* transition() returned False.  The watchdog tries again without the checks
\* of expire_pending_entry(); a submitter that already has the broker's
\* identity quarantines the row; nobody else does anything.
ReturnFalse(w) ==
    /\ UNCHANGED told
    /\ \/ /\ job[w].by = "watchdog"
          /\ pc' = [pc EXCEPT ![w] = "read"]
          /\ job' = [job EXCEPT ![w].by = "fallback"]
       \/ /\ job[w].by = "submitter"
          /\ job[w].req.bid # NoBroker
          /\ Goto(w, "flag")
       \/ /\ ~(job[w].by = "watchdog")
          /\ ~(job[w].by = "submitter" /\ job[w].req.bid # NoBroker)
          /\ Leave(w)

-----------------------------------------------------------------------------
(* Callers. *)

Why(req) == [req EXCEPT !.why = TRUE]

\* mark_entry_pending_trigger(), once it has found the row CREATED.
Arm(w, o) ==
    /\ orders[o].kind = "ENTRY"
    /\ orders[o].status = "CREATED"
    /\ Start(w, "read", "watcher", o, MoveTo("PENDING_TRIGGER"))
    /\ UNCHANGED <<orders, executed, submissions, told>>

\* The entry watcher gives a row up: cancel_pending_entry() for a signal
\* that was invalidated, expire_pending_entry() for one that got too old.
GiveUp(w, o) ==
    /\ orders[o].kind = "ENTRY"
    /\ \E status \in {"CANCELED", "EXPIRED"} :
          Start(w, "check", "cleanup", o, Why(MoveTo(status)))
    /\ UNCHANGED <<orders, executed, submissions, told>>

\* The order monitor finds an over-age PENDING_TRIGGER row that no watcher
\* owns and nothing was submitted for.
Watchdog(w, o) ==
    /\ orders[o].status = "PENDING_TRIGGER"
    /\ orders[o].broker = NoBroker
    /\ ~orders[o].submitted
    /\ Start(w, "check", "watchdog", o, Why(MoveTo("EXPIRED")))
    /\ UNCHANGED <<orders, executed, submissions, told>>

\* What cancel_pending_entry() and expire_pending_entry() read before they
\* call transition().
CheckPending(w) ==
    /\ pc[w] = "check"
    /\ LET row == Row_(w) IN
       \/ /\ row.status \in PreTrade
          /\ ~HasSubmitOwner(row)
          /\ Goto(w, "read")
          /\ UNCHANGED told
       \/ /\ row.status = job[w].req.new
          /\ ReturnTrue(w)
       \/ /\ row.status # job[w].req.new
          /\ row.status \in PreTrade => HasSubmitOwner(row)
          /\ ReturnFalse(w)
    /\ UNCHANGED <<orders, executed, submissions>>

\* submit_exit(): the terminal guard or the safety gate refuses the exit
\* after create_exit_order() handed back the active EXIT row.
ExitGuard(w, o) ==
    /\ orders[o].status = "EXIT_REQUESTED"
    /\ Start(w, "read", "guard", o, Why(MoveTo("CANCELED")))
    /\ UNCHANGED <<orders, executed, submissions, told>>

\* The submit path claims the row: the intent is durable before any byte
\* leaves the process.
Intend(w, o) ==
    /\ IntentMatches(orders[o], orders[o].status)
    /\ orders' = [orders EXCEPT ![o] = IntentPersisted(@)]
    /\ Start(w, "prove", "submitter", o, MoveTo("CREATED"))
    /\ UNCHANGED <<executed, submissions, told>>

\* The last read before the POST: the row must still show the intent and
\* nothing else that could mean a broker order.
Prove(w) ==
    /\ pc[w] = "prove"
    /\ LET row == Row_(w)
           proven == /\ row.status \in PreTrade \cup {"EXIT_REQUESTED"}
                     /\ row.broker = NoBroker
                     /\ ~row.submitted
                     /\ row.intent
                     /\ ~row.quarantine
                     /\ row.kind = "ENTRY" => row.error # "SPLIT_BRAIN"
       IN \/ proven /\ Goto(w, "post")
          \/ ~proven /\ Leave(w)
    /\ UNCHANGED <<orders, executed, submissions, told>>

Submitted(kind, bid) ==
    [MoveTo(IF kind = "ENTRY" THEN "SUBMITTED" ELSE "EXIT_SUBMITTED")
        EXCEPT !.bid = bid, !.stamp = TRUE]

\* The POST and the classification of its answer: accepted, an unknown
\* status that comes with an identity, a definite rejection, or no usable
\* answer (also: the process dies here), which leaves the row as it is.
Post(w) ==
    /\ pc[w] = "post"
    /\ submissions' = [submissions EXCEPT ![job[w].order] = @ + 1]
    /\ LET kind == Row_(w).kind IN
       \/ \E bid \in BrokerIds, statement \in {"read", "flag"} :
            /\ pc' = [pc EXCEPT ![w] = statement]
            /\ job' = [job EXCEPT ![w].req = Submitted(kind, bid)]
       \/ /\ pc' = [pc EXCEPT ![w] = "read"]
          /\ job' = [job EXCEPT ![w].req =
                        [Why(MoveTo("ERROR")) EXCEPT !.owner = (kind = "ENTRY")]]
       \/ Leave(w)
    /\ UNCHANGED <<orders, executed, told>>

\* A later attempt finds evidence of an earlier submission and looks the
\* order up by its tag instead of sending it again: submit_existing_entry()
\* for ENTRY rows, reconcile_exit_broker_intent() for EXIT rows.
AdoptByTag(w, o) ==
    /\ submissions[o] > 0
    /\ ~orders[o].quarantine /\ orders[o].error # "SPLIT_BRAIN"
    /\ orders[o].intent
    /\ \/ orders[o].status \in PreTrade
       \/ orders[o].kind = "EXIT" /\ orders[o].broker = NoBroker
    /\ \E bid \in BrokerIds :
          Start(w, "read", IF orders[o].kind = "ENTRY" THEN "submitter"
                           ELSE "reconciler",
                o, Submitted(orders[o].kind, bid))
    /\ UNCHANGED <<orders, executed, submissions, told>>

\* What the broker can say now of a row's order: working, executed in part or
\* whole (with or without a usable time), or over.
Answer(o, status) == [MoveTo(status) EXCEPT !.bid = orders[o].broker]

FillAnswer(o, status, timed) ==
    [Answer(o, status) EXCEPT !.fill = executed[o], !.timed = timed]

Answers(o) ==
    LET exit == orders[o].kind = "EXIT"
        working == IF exit THEN "EXIT_ACKNOWLEDGED" ELSE "ACKNOWLEDGED"
        part == IF exit THEN "EXIT_PARTIAL_FILL" ELSE "PARTIAL_FILL"
        whole == IF exit THEN "EXIT_FILLED" ELSE "FILLED"
    IN CASE executed[o] = Qty -> {FillAnswer(o, whole, t) : t \in BOOLEAN}
         [] executed[o] = 0 ->
                {Answer(o, s) : s \in {working} \ {orders[o].status}}
                \cup {Why(Answer(o, s)) : s \in Failures \ {"ERROR"}}
         [] OTHER ->
                {FillAnswer(o, part, t) : t \in BOOLEAN}
                \cup {Why(Answer(o, s)) : s \in Failures \ {"ERROR"}}

\* The fill monitor: it asks the broker about a row that has an identity and
\* reports what the broker said, whatever has become of the row since.
Monitor(w, o) ==
    /\ orders[o].broker # NoBroker
    /\ orders[o].status \notin Terminal \cup PreTrade \cup {"EXIT_REQUESTED"}
    /\ executed[o] >= orders[o].filled
    /\ \E req \in Answers(o) : Start(w, "read", "monitor", o, req)
    /\ UNCHANGED <<orders, executed, submissions, told>>

\* The reconciler knows the broker's state of a flagged row that is still
\* open; PENDING_TRIGGER is not among the statuses it selects.
Reconciler(w, o) ==
    /\ orders[o].status \in (EntryActive \cup ExitActive) \ {"PENDING_TRIGGER"}
    /\ orders[o].broker # NoBroker
    /\ orders[o].quarantine \/ orders[o].error = "SPLIT_BRAIN"
    /\ Start(w, "resolve", "reconciler", o,
             [MoveTo("CREATED") EXCEPT !.bid = orders[o].broker])
    /\ UNCHANGED <<orders, executed, submissions, told>>

-----------------------------------------------------------------------------
(* The statements of transition(). *)

Read(w) ==
    /\ pc[w] = "read"
    /\ LET row == Row_(w)
           req == job[w].req
       IN \/ Refused(row, req) /\ ReturnFalse(w)
          \/ ~Refused(row, req) /\ AlreadyThere(row, req) /\ ReturnTrue(w)
          \/ /\ ~Refused(row, req) /\ ~AlreadyThere(row, req)
             /\ ~Legal(row, req)
             /\ Goto(w, "record")
             /\ UNCHANGED told
          \/ /\ ~Refused(row, req) /\ ~AlreadyThere(row, req)
             /\ Legal(row, req)
             /\ pc' = [pc EXCEPT ![w] = "update"]
             /\ job' = [job EXCEPT ![w].read = row]
             /\ UNCHANGED told
    /\ UNCHANGED <<orders, executed, submissions>>

Update(w) ==
    /\ pc[w] = "update"
    /\ \/ /\ UpdateMatches(Row_(w), job[w].read, job[w].req)
          /\ Write(w, Updated(Row_(w), job[w].req))
          /\ ReturnTrue(w)
       \/ /\ ~UpdateMatches(Row_(w), job[w].read, job[w].req)
          /\ Goto(w, "reread")
          /\ UNCHANGED <<orders, told>>
    /\ UNCHANGED <<executed, submissions>>

Reread(w) ==
    /\ pc[w] = "reread"
    /\ \/ MissAccepted(Row_(w), job[w].req) /\ ReturnTrue(w)
       \/ /\ ~MissAccepted(Row_(w), job[w].req)
          /\ Goto(w, "record")
          /\ UNCHANGED told
    /\ UNCHANGED <<orders, executed, submissions>>

RecordError(w) ==
    /\ pc[w] = "record"
    /\ Write(w, ErrorRecorded(Row_(w)))
    /\ ReturnFalse(w)
    /\ UNCHANGED <<executed, submissions>>

-----------------------------------------------------------------------------
(* The other writers. *)

Flag(w) ==
    /\ pc[w] = "flag"
    /\ LET bid == job[w].req.bid IN
          IF FlagMatches(Row_(w), bid)
             THEN Write(w, Flagged(Row_(w), bid))
             ELSE UNCHANGED orders
    /\ Leave(w)
    /\ UNCHANGED <<executed, submissions, told>>

Resolve(w) ==
    /\ pc[w] = "resolve"
    /\ IF ResolveMatches(Row_(w), job[w].req.bid)
          THEN Write(w, Resolved(Row_(w)))
          ELSE UNCHANGED orders
    /\ Leave(w)
    /\ UNCHANGED <<executed, submissions, told>>

\* Recovery retires an EXIT row that nobody ever tried to submit.
Retire(o) ==
    /\ RetireMatches(orders[o])
    /\ orders' = [orders EXCEPT ![o] = Retired(@)]
    /\ UNCHANGED <<executed, submissions, pc, job, told>>

\* The broker executes one more contract.
Execute(o) ==
    /\ submissions[o] > 0
    /\ executed[o] < Qty
    /\ executed' = [executed EXCEPT ![o] = @ + 1]
    /\ UNCHANGED <<orders, submissions, pc, job, told>>

-----------------------------------------------------------------------------
Calls(w) ==
    \E o \in Orders : \/ Arm(w, o) \/ GiveUp(w, o) \/ Watchdog(w, o)
                      \/ ExitGuard(w, o) \/ Intend(w, o) \/ AdoptByTag(w, o)
                      \/ Monitor(w, o) \/ Reconciler(w, o)

Continue(w) ==
    \/ CheckPending(w) \/ Prove(w) \/ Post(w) \/ Read(w) \/ Update(w)
    \/ Reread(w) \/ RecordError(w) \/ Flag(w) \/ Resolve(w)

Next ==
    \/ \E w \in Workers : Calls(w) \/ Continue(w)
    \/ \E o \in Orders : Retire(o) \/ Execute(o)

Spec == Init /\ [][Next]_vars

\* A call that was started runs to its end, and the reconciler's loop comes
\* back to every row it selects.  The reconciler has a thread of its own: the
\* strong fairness only makes up for the workers of this module being shared.
Fairness ==
    /\ \A w \in Workers : WF_vars(Continue(w))
    /\ \A o \in Orders : SF_vars(\E w \in Workers : Reconciler(w, o))

FairSpec == Spec /\ Fairness

-----------------------------------------------------------------------------
(* Properties. *)

\* A status only ever moves along TRANSITIONS and a terminal status is
\* final, although every writer decides on a row it read earlier.
FollowsTable ==
    [][\A o \in Orders :
          orders'[o].status # orders[o].status =>
              /\ orders[o].status \notin Terminal
              /\ orders'[o].status \in Transitions[orders[o].status]]_vars

\* "Never replace a different durable broker identity": no writer of the
\* state machine changes or clears a broker_order_id once it is set, even
\* when two callers were given two identities for the same tag.
IdentityWriteOnce ==
    [][\A o \in Orders :
          orders[o].broker # NoBroker =>
              orders'[o].broker = orders[o].broker]_vars

\* "True means the exact broker id is durable": once a call that carried a
\* broker identity returned True, the row holds exactly that identity.
ToldIdentityDurable ==
    \A o \in Orders, bid \in BrokerIds :
        <<o, bid>> \in told => orders[o].broker = bid

\* The broker sees at most one submission of a row: the durable intent lets
\* one attempt through, and neither a lost answer, a crash, a quarantine nor
\* a concurrent attempt ever lets another one send the order again.
SubmittedOnce == \A o \in Orders : submissions[o] =< 1

\* The atomic cleanup fence: while an ENTRY row waits for its trigger, no
\* one but the submit path that owns it ends it once a submission may exist.
FenceHolds ==
    [][\A o \in Orders :
          (/\ orders[o].status \in PreTrade
           /\ orders'[o].status \in Terminal
           /\ SubmitOwned(orders[o]))
          => \E w \in Workers : /\ pc[w] = "update"
                                /\ job[w].order = o
                                /\ job[w].req.owner]_vars

\* A change of status never loses filled quantity: a stale snapshot cannot
\* take a row out of a partial fill with fewer contracts than it holds.
StatusChangeKeepsFill ==
    [][\A o \in Orders :
          orders'[o].status # orders[o].status =>
              orders'[o].filled >= orders[o].filled]_vars

\* The reconciler gets every quarantined row out of quarantine, or the row
\* ends first: overwriting last_error (record_error does) hides the row from
\* the query for flagged rows but not from the reconciler.
FlaggedUntilResolvedOrEnded ==
    \A o \in Orders :
        orders[o].quarantine ~> \/ ~orders[o].quarantine
                                \/ orders[o].status \in Terminal

\* The workers, their statements and the rows they read too early are nothing
\* a caller can see: what is left of a row and of the broker is an order that
\* keeps the promise of OrderPromise, the refinement the other properties of a
\* row are parts of.
View ==
    [o \in Orders |->
        [status |-> orders[o].status, broker |-> orders[o].broker,
         sent |-> submissions[o], executed |-> executed[o],
         filled |-> orders[o].filled]]
Promise == INSTANCE OrderPromise WITH view <- View
KeepsPromise == Promise!Spec

=============================================================================
