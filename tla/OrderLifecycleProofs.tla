------------------------ MODULE OrderLifecycleProofs ------------------------
(***************************************************************************)
(* What OrderLifecycle keeps for any number of rows, workers, identities   *)
(* and contracts.                                                          *)
(***************************************************************************)
EXTENDS OrderLifecycle, TLAPS

-----------------------------------------------------------------------------
(* Rows and requests. *)

\* Every statement of the state machine turns a row into a row.
LEMMA RowsStayRows ==
    ASSUME NEW row \in Row
    PROVE  /\ \A req \in Request : Updated(row, req) \in Row
           /\ ErrorRecorded(row) \in Row
           /\ IntentPersisted(row) \in Row
           /\ Retired(row) \in Row
           /\ \A bid \in BrokerIds \cup {NoBroker} : Flagged(row, bid) \in Row
           /\ Resolved(row) \in Row
<1>1. ErrorRecorded(row) \in Row
  BY DEF Row, ErrorRecorded, Errors
<1>2. IntentPersisted(row) \in Row
  BY DEF Row, IntentPersisted
<1>3. Retired(row) \in Row
  BY DEF Row, Retired, Errors, Status, Terminal, Failures
<1>4. ASSUME NEW bid \in BrokerIds \cup {NoBroker}
      PROVE  Flagged(row, bid) \in Row
  BY DEF Row, Flagged, Errors, Status, EntryActive, ExitActive
<1>5. Resolved(row) \in Row
  BY DEF Row, Resolved, Errors
<1>6. ASSUME NEW req \in Request PROVE Updated(row, req) \in Row
  <2> DEFINE stamped == row.submitted \/ req.stamp
             held == IF req.fill = NoFill THEN row.filled ELSE req.fill
  <2>1. stamped \in BOOLEAN
    OBVIOUS
  <2>2. held \in 0..Qty
    BY QtyAssumption DEF Row, Request, NoFill
  <2>3. (IF req.why THEN "other" ELSE row.error) \in Errors
    BY DEF Row, Errors
  <2>4. /\ req.new \in Status
        /\ (IF req.bid = NoBroker THEN row.broker ELSE req.bid)
              \in BrokerIds \cup {NoBroker}
    BY DEF Row, Request
  <2>5. Updated(row, req) =
           [row EXCEPT !.status = req.new,
                       !.broker = IF req.bid = NoBroker THEN @ ELSE req.bid,
                       !.filled = held, !.submitted = stamped,
                       !.error = IF req.why THEN "other" ELSE @]
    BY DEF Updated
  <2>. HIDE DEF stamped, held
  <2>. QED
    BY <2>1, <2>2, <2>3, <2>4, <2>5 DEF Row
<1>. QED
  BY <1>1, <1>2, <1>3, <1>4, <1>5, <1>6

\* The table of transitions, as the facts the proofs need of it.
LEMMA TransitionFacts ==
    /\ \A s \in Status : Transitions[s] \subseteq Status
    /\ \A s \in PreTrade : "SUBMITTED" \in Transitions[s]
    /\ "EXIT_SUBMITTED" \in Transitions["EXIT_REQUESTED"]
    /\ "ERROR" \in Transitions["EXIT_REQUESTED"]
    /\ \A s \in Status, t \in PreTrade : t \in Transitions[s] => s \in PreTrade
    /\ \A s \in Status, t \in Partial : t \in Transitions[s] => s \notin Partial
    /\ \A s \in Partial : Transitions[s] \subseteq Terminal
BY DEF Transitions, Status, EntryActive, ExitActive, Terminal, Failures,
       PreTrade, Partial, ExitFillStatuses

\* The requests the callers make.
LEMMA RequestsAreRequests ==
    /\ \A s \in Status : MoveTo(s) \in Request
    /\ \A req \in Request : Why(req) \in Request
    /\ \A req \in Request, o \in BOOLEAN : [req EXCEPT !.owner = o] \in Request
    /\ \A kind \in {"ENTRY", "EXIT"}, bid \in BrokerIds :
          Submitted(kind, bid) \in Request
<1>1. ASSUME NEW s \in Status PROVE MoveTo(s) \in Request
  BY QtyAssumption DEF MoveTo, Request, NoFill
<1>2. ASSUME NEW kind \in {"ENTRY", "EXIT"}, NEW bid \in BrokerIds
      PROVE  Submitted(kind, bid) \in Request
  <2> DEFINE s == IF kind = "ENTRY" THEN "SUBMITTED" ELSE "EXIT_SUBMITTED"
  <2>1. s \in Status
    BY DEF Status, EntryActive, ExitActive
  <2>2. MoveTo(s) \in Request
    BY <2>1, <1>1
  <2>3. Submitted(kind, bid) = [MoveTo(s) EXCEPT !.bid = bid, !.stamp = TRUE]
    BY DEF Submitted
  <2>. HIDE DEF s
  <2>. QED
    BY <2>2, <2>3 DEF Request
<1>. QED
  BY <1>1, <1>2 DEF Why, Request

LEMMA AnswersAreRequests ==
    ASSUME NEW o \in Orders, orders[o] \in Row, executed[o] \in 0..Qty
    PROVE  Answers(o) \subseteq Request
<1>1. /\ orders[o].broker \in BrokerIds \cup {NoBroker}
      /\ executed[o] \in NoFill..Qty
  BY QtyAssumption DEF Row, NoFill
<1>2. ASSUME NEW s \in Status PROVE Answer(o, s) \in Request
  BY <1>1, RequestsAreRequests DEF Answer, Request
<1>3. ASSUME NEW s \in Status, NEW t \in BOOLEAN
      PROVE  FillAnswer(o, s, t) \in Request
  <2>1. [Answer(o, s) EXCEPT !.fill = executed[o]] \in Request
    BY <1>1, <1>2 DEF Request
  <2>2. \A req \in Request : [req EXCEPT !.timed = t] \in Request
    BY DEF Request
  <2>. QED
    BY <2>1, <2>2 DEF FillAnswer
<1>4. {"ACKNOWLEDGED", "PARTIAL_FILL", "FILLED", "EXIT_ACKNOWLEDGED",
       "EXIT_PARTIAL_FILL", "EXIT_FILLED"} \cup Failures \subseteq Status
  BY DEF Status, EntryActive, ExitActive, Terminal
<1>5. \A s \in Failures : Why(Answer(o, s)) \in Request
  BY <1>2, <1>4, RequestsAreRequests
<1>. QED
  BY <1>2, <1>3, <1>4, <1>5 DEF Answers

LEMMA NoJobIsAJob == NoJob \in Job /\ NoJob.read \in Row
<1>1. NewRow("ENTRY") \in Row
  BY QtyAssumption
  DEF NewRow, Row, Errors, Status, EntryActive, PreTrade
<1>2. MoveTo("CREATED") \in Request
  BY RequestsAreRequests DEF Status, EntryActive, PreTrade
<1>3. (CHOOSE o \in Orders : TRUE) \in Orders
  BY OrdersAssumption
<1>. QED
  BY <1>1, <1>2, <1>3 DEF NoJob, Job, Callers

-----------------------------------------------------------------------------
(* Types. *)

WorkersTyped == pc \in [Workers -> Statements] /\ job \in [Workers -> Job]

LEMMA StartTyped ==
    ASSUME WorkersTyped, NEW w \in Workers, NEW statement \in Statements,
           NEW by \in Callers, NEW o \in Orders, NEW req \in Request,
           Start(w, statement, by, o, req)
    PROVE  WorkersTyped'
BY NoJobIsAJob DEF WorkersTyped, Start, Job

LEMMA LeaveTyped ==
    ASSUME WorkersTyped, NEW w \in Workers, Leave(w)
    PROVE  WorkersTyped'
BY NoJobIsAJob DEF WorkersTyped, Leave, Statements

LEMMA GotoTyped ==
    ASSUME WorkersTyped, NEW w \in Workers, NEW statement \in Statements,
           Goto(w, statement)
    PROVE  WorkersTyped'
BY DEF WorkersTyped, Goto

\* A return of transition() leaves the workers and what was told typed.
LEMMA ReturnsTyped ==
    ASSUME TypeOK, NEW w \in Workers, ReturnTrue(w) \/ ReturnFalse(w)
    PROVE  WorkersTyped' /\ told' \subseteq Orders \X BrokerIds
<1>1. WorkersTyped
  BY DEF TypeOK, WorkersTyped
<1>2. CASE ReturnTrue(w)
  <2>1. WorkersTyped'
    BY <1>1, <1>2, LeaveTyped DEF ReturnTrue
  <2>2. /\ job[w].order \in Orders
        /\ job[w].req.bid \in BrokerIds \cup {NoBroker}
    BY <1>1 DEF WorkersTyped, Job, Request
  <2>. QED
    BY <1>2, <2>1, <2>2 DEF ReturnTrue, TypeOK
<1>3. CASE ReturnFalse(w)
  <2>1. told' \subseteq Orders \X BrokerIds
    BY <1>3 DEF ReturnFalse, TypeOK
  <2>2. CASE job[w].by = "watchdog"
             /\ pc' = [pc EXCEPT ![w] = "read"]
             /\ job' = [job EXCEPT ![w].by = "fallback"]
    BY <1>1, <2>2, <2>1 DEF WorkersTyped, Statements, Job, Callers
  <2>3. CASE Goto(w, "flag")
    BY <1>1, <2>3, <2>1, GotoTyped DEF Statements
  <2>4. CASE Leave(w)
    BY <1>1, <2>4, <2>1, LeaveTyped
  <2>. QED
    BY <1>3, <2>2, <2>3, <2>4 DEF ReturnFalse
<1>. QED
  BY <1>2, <1>3

LEMMA CallsTyped ==
    ASSUME TypeOK, NEW w \in Workers, NEW o \in Orders,
           \/ Arm(w, o) \/ GiveUp(w, o) \/ Watchdog(w, o) \/ ExitGuard(w, o)
           \/ Intend(w, o) \/ AdoptByTag(w, o) \/ Monitor(w, o)
           \/ Reconciler(w, o)
    PROVE  TypeOK'
<1>. USE DEF Status, EntryActive, ExitActive, PreTrade, Terminal, Failures
<1>1. WorkersTyped
  BY DEF TypeOK, WorkersTyped
<1>2. /\ {"check", "prove", "read", "resolve"} \subseteq Statements
      /\ Callers # {}
      /\ {"watcher", "cleanup", "watchdog", "guard", "submitter",
          "reconciler", "monitor"} \subseteq Callers
  BY DEF Statements, Callers
<1>3. orders[o] \in Row
  BY DEF TypeOK
<1>4. SUFFICES WorkersTyped' /\ orders' \in [Orders -> Row]
               /\ UNCHANGED <<executed, submissions, told>>
  BY DEF TypeOK, WorkersTyped
<1>5. CASE Arm(w, o)
  BY <1>1, <1>2, <1>5, StartTyped, RequestsAreRequests DEF Arm, TypeOK
<1>6. CASE GiveUp(w, o)
  BY <1>1, <1>2, <1>6, StartTyped, RequestsAreRequests DEF GiveUp, TypeOK
<1>7. CASE Watchdog(w, o)
  BY <1>1, <1>2, <1>7, StartTyped, RequestsAreRequests DEF Watchdog, TypeOK
<1>8. CASE ExitGuard(w, o)
  BY <1>1, <1>2, <1>8, StartTyped, RequestsAreRequests DEF ExitGuard, TypeOK
<1>9. CASE Intend(w, o)
  BY <1>1, <1>2, <1>3, <1>9, StartTyped, RequestsAreRequests, RowsStayRows
  DEF Intend, TypeOK
<1>10. CASE AdoptByTag(w, o)
  <2>1. PICK bid \in BrokerIds :
           Start(w, "read", IF orders[o].kind = "ENTRY" THEN "submitter"
                            ELSE "reconciler",
                 o, Submitted(orders[o].kind, bid))
    BY <1>10 DEF AdoptByTag
  <2>2. Submitted(orders[o].kind, bid) \in Request
    BY <1>3, RequestsAreRequests DEF Row
  <2>3. WorkersTyped'
    BY <1>1, <1>2, <2>1, <2>2, StartTyped
  <2>. QED
    BY <1>10, <2>3 DEF AdoptByTag, TypeOK
<1>11. CASE Monitor(w, o)
  <2>1. Answers(o) \subseteq Request
    BY <1>3, AnswersAreRequests DEF TypeOK
  <2>2. WorkersTyped'
    BY <1>1, <1>2, <1>11, <2>1, StartTyped DEF Monitor
  <2>. QED
    BY <1>11, <2>2 DEF Monitor, TypeOK
<1>12. CASE Reconciler(w, o)
  <2>1. [MoveTo("CREATED") EXCEPT !.bid = orders[o].broker] \in Request
    BY <1>3, RequestsAreRequests DEF Row, Request
  <2>2. WorkersTyped'
    BY <1>1, <1>2, <1>12, <2>1, StartTyped DEF Reconciler
  <2>. QED
    BY <1>12, <2>2 DEF Reconciler, TypeOK
<1>. QED
  BY <1>5, <1>6, <1>7, <1>8, <1>9, <1>10, <1>11, <1>12

LEMMA ContinueTyped ==
    ASSUME TypeOK, NEW w \in Workers, Continue(w)
    PROVE  TypeOK'
<1>. USE DEF Row_, Write
<1>1. WorkersTyped /\ orders \in [Orders -> Row]
  BY DEF TypeOK, WorkersTyped
<1>2. /\ job[w].order \in Orders
      /\ job[w].req \in Request
      /\ orders[job[w].order] \in Row
      /\ job[w].req.bid \in BrokerIds \cup {NoBroker}
  BY <1>1 DEF WorkersTyped, Job, Request
<1>3. {"idle", "prove", "post", "read", "update", "reread", "record",
       "flag", "resolve"} \subseteq Statements
  BY DEF Statements
<1>4. SUFFICES /\ WorkersTyped'
               /\ orders' \in [Orders -> Row]
               /\ submissions' \in [Orders -> Nat]
               /\ told' \subseteq Orders \X BrokerIds
               /\ UNCHANGED executed
  BY DEF TypeOK, WorkersTyped
<1>5. ASSUME ReturnTrue(w) \/ ReturnFalse(w)
      PROVE  WorkersTyped' /\ told' \subseteq Orders \X BrokerIds
  BY <1>5, ReturnsTyped
<1>6. CASE CheckPending(w)
  BY <1>1, <1>3, <1>5, <1>6, LeaveTyped, GotoTyped DEF CheckPending, TypeOK
<1>7. CASE Prove(w)
  BY <1>1, <1>3, <1>7, LeaveTyped, GotoTyped DEF Prove, TypeOK
<1>8. CASE Post(w)
  <2>1. submissions' \in [Orders -> Nat] /\ UNCHANGED <<orders, executed, told>>
    BY <1>2, <1>8 DEF Post, TypeOK
  <2>2. ASSUME NEW statement \in Statements, NEW req \in Request,
               pc' = [pc EXCEPT ![w] = statement],
               job' = [job EXCEPT ![w].req = req]
        PROVE  WorkersTyped'
    BY <1>1, <2>2 DEF WorkersTyped, Job
  <2>3. ASSUME NEW bid \in BrokerIds
        PROVE  Submitted(Row_(w).kind, bid) \in Request
    BY <1>2, RequestsAreRequests DEF Row
  <2>4. [Why(MoveTo("ERROR")) EXCEPT !.owner = (Row_(w).kind = "ENTRY")]
          \in Request
    BY RequestsAreRequests DEF Status, Terminal, Failures
  <2>5. WorkersTyped'
    BY <1>1, <1>3, <1>8, <2>2, <2>3, <2>4, LeaveTyped DEF Post
  <2>. QED
    BY <2>1, <2>5, <1>1 DEF TypeOK
<1>9. CASE Read(w)
  <2>1. UNCHANGED <<orders, executed, submissions>>
    BY <1>9 DEF Read
  <2>2. CASE ReturnTrue(w) \/ ReturnFalse(w)
    BY <1>1, <1>5, <2>1, <2>2 DEF TypeOK
  <2>3. CASE Goto(w, "record") /\ UNCHANGED told
    BY <1>1, <1>3, <2>1, <2>3, GotoTyped DEF TypeOK
  <2>4. CASE /\ pc' = [pc EXCEPT ![w] = "update"]
             /\ job' = [job EXCEPT ![w].read = Row_(w)]
             /\ UNCHANGED told
    <3>1. WorkersTyped'
      BY <1>1, <1>2, <1>3, <2>4 DEF WorkersTyped, Job
    <3>. QED
      BY <1>1, <2>1, <2>4, <3>1 DEF TypeOK
  <2>. QED
    BY <1>9, <2>2, <2>3, <2>4 DEF Read
<1>10. CASE Update(w)
  <2>1. UNCHANGED <<executed, submissions>>
    BY <1>10 DEF Update
  <2>2. CASE orders' = [orders EXCEPT ![job[w].order] =
                           Updated(Row_(w), job[w].req)] /\ ReturnTrue(w)
    BY <1>1, <1>2, <1>5, <2>1, <2>2, RowsStayRows DEF TypeOK
  <2>3. CASE Goto(w, "reread") /\ UNCHANGED <<orders, told>>
    BY <1>1, <1>3, <2>1, <2>3, GotoTyped DEF TypeOK
  <2>. QED
    BY <1>10, <2>2, <2>3 DEF Update
<1>11. CASE Reread(w)
  BY <1>1, <1>3, <1>5, <1>11, GotoTyped DEF Reread, TypeOK
<1>12. CASE RecordError(w)
  <2>1. /\ ReturnFalse(w)
        /\ orders' = [orders EXCEPT ![job[w].order] = ErrorRecorded(Row_(w))]
        /\ UNCHANGED <<executed, submissions>>
    BY <1>12 DEF RecordError
  <2>2. orders' \in [Orders -> Row]
    BY <1>1, <1>2, <2>1, RowsStayRows
  <2>. QED
    BY <1>5, <2>1, <2>2 DEF TypeOK
<1>13. CASE Flag(w)
  <2>1. Leave(w) /\ UNCHANGED <<executed, submissions, told>>
    BY <1>13 DEF Flag
  <2>2. orders' \in [Orders -> Row]
    BY <1>1, <1>2, <1>13, RowsStayRows DEF Flag
  <2>. QED
    BY <1>1, <2>1, <2>2, LeaveTyped DEF TypeOK
<1>14. CASE Resolve(w)
  <2>1. Leave(w) /\ UNCHANGED <<executed, submissions, told>>
    BY <1>14 DEF Resolve
  <2>2. orders' \in [Orders -> Row]
    BY <1>1, <1>2, <1>14, RowsStayRows DEF Resolve
  <2>. QED
    BY <1>1, <2>1, <2>2, LeaveTyped DEF TypeOK
<1>. QED
  BY <1>6, <1>7, <1>8, <1>9, <1>10, <1>11, <1>12, <1>13, <1>14 DEF Continue

\* Every variable keeps its type: in particular no fill above the ordered
\* quantity is ever stored, whichever request a call carries.
THEOREM TypeCorrect == Spec => []TypeOK
<1>1. Init => TypeOK
  <2>. SUFFICES ASSUME Init PROVE TypeOK
    OBVIOUS
  <2>1. \A kind \in {"ENTRY", "EXIT"} : NewRow(kind) \in Row
    BY QtyAssumption DEF NewRow, Row, Errors, Status, EntryActive, PreTrade,
                         ExitActive
  <2>. QED
    BY <2>1, NoJobIsAJob, QtyAssumption DEF Init, TypeOK, Statements
<1>2. TypeOK /\ [Next]_vars => TypeOK'
  <2>. SUFFICES ASSUME TypeOK, [Next]_vars PROVE TypeOK'
    OBVIOUS
  <2>1. CASE \E w \in Workers : Calls(w)
    BY <2>1, CallsTyped DEF Calls
  <2>2. CASE \E w \in Workers : Continue(w)
    BY <2>2, ContinueTyped
  <2>3. ASSUME NEW o \in Orders, Retire(o) PROVE TypeOK'
    BY <2>3, RowsStayRows DEF Retire, TypeOK
  <2>4. ASSUME NEW o \in Orders, Execute(o) PROVE TypeOK'
    BY <2>4, QtyAssumption DEF Execute, TypeOK
  <2>5. CASE UNCHANGED vars
    BY <2>5 DEF vars, TypeOK
  <2>. QED
    BY <2>1, <2>2, <2>3, <2>4, <2>5 DEF Next
<1>. QED
  BY <1>1, <1>2, PTL DEF Spec

-----------------------------------------------------------------------------
(* Who writes a row, and how. *)

UpdatedBy(w, o) ==
    /\ pc[w] = "update"
    /\ job[w].order = o
    /\ UpdateMatches(orders[o], job[w].read, job[w].req)
    /\ orders'[o] = Updated(orders[o], job[w].req)

FlaggedWith(o, bid) ==
    FlagMatches(orders[o], bid) /\ orders'[o] = Flagged(orders[o], bid)

ResolvedWith(o, bid) ==
    ResolveMatches(orders[o], bid) /\ orders'[o] = Resolved(orders[o])

RetiredRow(o) == RetireMatches(orders[o]) /\ orders'[o] = Retired(orders[o])

ClaimedBy(w, o) == Intend(w, o) /\ orders'[o] = IntentPersisted(orders[o])

\* A step that changes a row is one of six statements.
LEMMA SixWriters ==
    ASSUME TypeOK, [Next]_vars, NEW o \in Orders
    PROVE  \/ orders'[o] = orders[o]
           \/ \E w \in Workers : UpdatedBy(w, o)
           \/ orders'[o] = ErrorRecorded(orders[o])
           \/ \E bid \in BrokerIds \cup {NoBroker} : FlaggedWith(o, bid)
           \/ \E bid \in BrokerIds \cup {NoBroker} : ResolvedWith(o, bid)
           \/ \E w \in Workers : ClaimedBy(w, o)
           \/ RetiredRow(o)
<1>1. orders \in [Orders -> Row]
  BY DEF TypeOK
<1>2. ASSUME NEW w \in Workers
      PROVE  /\ job[w].order \in Orders
             /\ job[w].req.bid \in BrokerIds \cup {NoBroker}
  BY DEF TypeOK, Job, Request
<1>3. CASE UNCHANGED vars
  BY <1>3 DEF vars
<1>4. ASSUME NEW w \in Workers, NEW p \in Orders, Intend(w, p)
      PROVE  orders'[o] = orders[o] \/ ClaimedBy(w, o)
  BY <1>1, <1>4 DEF Intend, ClaimedBy
<1>5. ASSUME NEW w \in Workers, Calls(w)
      PROVE  orders'[o] = orders[o] \/ ClaimedBy(w, o)
  BY <1>4, <1>5 DEF Calls, Arm, GiveUp, Watchdog, ExitGuard, AdoptByTag,
                    Monitor, Reconciler
<1>6. ASSUME NEW w \in Workers, Continue(w)
      PROVE  \/ orders'[o] = orders[o]
             \/ UpdatedBy(w, o)
             \/ orders'[o] = ErrorRecorded(orders[o])
             \/ FlaggedWith(o, job[w].req.bid)
             \/ ResolvedWith(o, job[w].req.bid)
  <2>1. CASE Update(w)
    BY <1>1, <1>2, <2>1 DEF Update, UpdatedBy, Row_, Write
  <2>2. CASE RecordError(w)
    BY <1>1, <1>2, <2>2 DEF RecordError, Row_, Write
  <2>3. CASE Flag(w)
    BY <1>1, <1>2, <2>3 DEF Flag, FlaggedWith, Row_, Write
  <2>4. CASE Resolve(w)
    BY <1>1, <1>2, <2>4 DEF Resolve, ResolvedWith, Row_, Write
  <2>. QED
    BY <1>6, <2>1, <2>2, <2>3, <2>4
    DEF Continue, CheckPending, Prove, Post, Read, Reread
<1>7. ASSUME NEW p \in Orders, Retire(p) \/ Execute(p)
      PROVE  orders'[o] = orders[o] \/ RetiredRow(o)
  BY <1>1, <1>7 DEF Retire, RetiredRow, Execute
<1>. QED
  BY <1>2, <1>3, <1>5, <1>6, <1>7 DEF Next

-----------------------------------------------------------------------------
(* The identity of a row. *)

\* A step leaves a row whose identity is set with that identity, and nobody
\* changes what kind of order a row is or takes back a durable intent.
LEMMA IdentityStays ==
    ASSUME TypeOK, [Next]_vars, NEW o \in Orders
    PROVE  /\ orders[o].broker # NoBroker => orders'[o].broker = orders[o].broker
           /\ orders'[o].kind = orders[o].kind
           /\ orders[o].intent => orders'[o].intent
<1>1. orders[o] \in Row
  BY DEF TypeOK
<1>2. CASE orders'[o] = orders[o]
  BY <1>2
<1>3. ASSUME NEW w \in Workers, UpdatedBy(w, o)
      PROVE  /\ orders[o].broker # NoBroker =>
                    orders'[o].broker = orders[o].broker
             /\ orders'[o].kind = orders[o].kind
             /\ orders'[o].intent = orders[o].intent
  BY <1>1, <1>3 DEF UpdatedBy, UpdateMatches, Updated, Row
<1>4. CASE orders'[o] = ErrorRecorded(orders[o])
  BY <1>1, <1>4 DEF ErrorRecorded, Row
<1>5. ASSUME NEW bid \in BrokerIds \cup {NoBroker}, FlaggedWith(o, bid)
      PROVE  /\ orders[o].broker # NoBroker =>
                    orders'[o].broker = orders[o].broker
             /\ orders'[o].kind = orders[o].kind
             /\ orders'[o].intent = orders[o].intent
  BY <1>1, <1>5 DEF FlaggedWith, FlagMatches, Flagged, Row
<1>6. ASSUME NEW bid \in BrokerIds \cup {NoBroker}, ResolvedWith(o, bid)
      PROVE  /\ orders'[o].broker = orders[o].broker
             /\ orders'[o].kind = orders[o].kind
             /\ orders'[o].intent = orders[o].intent
  BY <1>1, <1>6 DEF ResolvedWith, Resolved, Row
<1>7. ASSUME NEW w \in Workers, ClaimedBy(w, o)
      PROVE  /\ orders'[o].broker = orders[o].broker
             /\ orders'[o].kind = orders[o].kind
             /\ orders'[o].intent
  BY <1>1, <1>7 DEF ClaimedBy, IntentPersisted, Row
<1>8. CASE RetiredRow(o)
  BY <1>1, <1>8 DEF RetiredRow, Retired, Row
<1>. QED
  BY <1>2, <1>3, <1>4, <1>5, <1>6, <1>7, <1>8, SixWriters

\* Whichever callers race, and whatever identities the broker and the lookup
\* by tag give them, a broker_order_id is written at most once.
THEOREM IdentityIsWrittenOnce == Spec => IdentityWriteOnce
<1>1. TypeOK /\ [Next]_vars =>
          [\A o \in Orders :
              orders[o].broker # NoBroker =>
                  orders'[o].broker = orders[o].broker]_vars
  BY IdentityStays
<1>. QED
  BY <1>1, TypeCorrect, PTL DEF Spec, IdentityWriteOnce

-----------------------------------------------------------------------------
(* Workers. *)

\* A worker's statement, and its local variables, are its own.
LEMMA OthersUntouched ==
    ASSUME TypeOK, NEW v \in Workers, Calls(v) \/ Continue(v),
           NEW w \in Workers, v # w
    PROVE  pc'[w] = pc[w] /\ job'[w] = job[w]
<1>1. pc \in [Workers -> Statements] /\ job \in [Workers -> Job]
  BY DEF TypeOK
<1>2. CASE Calls(v)
  BY <1>1, <1>2 DEF Calls, Arm, GiveUp, Watchdog, ExitGuard, Intend,
        AdoptByTag, Monitor, Reconciler, Start
<1>3. CASE Continue(v)
  BY <1>1, <1>3 DEF Continue, CheckPending, Prove, Post, Read, Update, Reread,
        RecordError, Flag, Resolve, ReturnTrue, ReturnFalse, Leave, Goto
<1>. QED
  BY <1>2, <1>3

-----------------------------------------------------------------------------
(* What a worker knows when it stands before its UPDATE. *)

\* Only a read that passed every check of transition() leads there, and the
\* request and the row that was read stay as they are until the UPDATE.
LEMMA UpdateFollowsRead ==
    ASSUME TypeOK, [Next]_vars, NEW w \in Workers, pc'[w] = "update"
    PROVE  \/ pc[w] = "update" /\ job'[w] = job[w]
           \/ /\ pc[w] = "read"
              /\ job'[w] = [job[w] EXCEPT !.read = Row_(w)]
              /\ ~Refused(Row_(w), job[w].req)
              /\ Legal(Row_(w), job[w].req)
              /\ UNCHANGED orders
<1>1. pc \in [Workers -> Statements] /\ job \in [Workers -> Job]
  BY DEF TypeOK
<1>2. CASE UNCHANGED vars
  BY <1>2 DEF vars
<1>3. ASSUME NEW v \in Workers, Calls(v)
      PROVE  pc[w] = "update" /\ job'[w] = job[w]
  <2>1. PICK statement \in {"check", "prove", "read", "resolve"} :
           /\ pc' = [pc EXCEPT ![v] = statement]
           /\ \E j : job' = [job EXCEPT ![v] = j]
    BY <1>3 DEF Calls, Arm, GiveUp, Watchdog, ExitGuard, Intend, AdoptByTag,
                Monitor, Reconciler, Start
  <2>. QED
    BY <1>1, <2>1
<1>4. ASSUME NEW v \in Workers, v # w, Continue(v)
      PROVE  pc'[w] = pc[w] /\ job'[w] = job[w]
  BY <1>4, OthersUntouched
<1>5. CASE Read(w)
  BY <1>1, <1>5 DEF Read, ReturnTrue, ReturnFalse, Leave, Goto
<1>6. CASE Continue(w) /\ ~Read(w)
  <2>1. \E statement \in {"idle", "prove", "post", "read", "reread", "record",
                          "flag", "resolve"} :
           pc' = [pc EXCEPT ![w] = statement]
    BY <1>6 DEF Continue, CheckPending, Prove, Post, Update, Reread,
          RecordError, Flag, Resolve, ReturnTrue, ReturnFalse, Leave, Goto
  <2>. QED
    BY <1>1, <2>1
<1>7. CASE \E o \in Orders : Retire(o) \/ Execute(o)
  BY <1>7 DEF Retire, Execute
<1>. QED
  BY <1>2, <1>3, <1>4, <1>5, <1>6, <1>7 DEF Next

\* What a worker before its UPDATE has checked of the row as it read it.
Checked ==
    \A w \in Workers : pc[w] = "update" =>
        /\ Legal(job[w].read, job[w].req)
        /\ ~Refused(job[w].read, job[w].req)
        /\ job[w].read.kind = orders[job[w].order].kind

LEMMA CheckedStays ==
    ASSUME TypeOK, Checked, [Next]_vars
    PROVE  Checked'
<1>. SUFFICES ASSUME NEW w \in Workers, pc'[w] = "update"
              PROVE  /\ Legal(job'[w].read, job'[w].req)
                     /\ ~Refused(job'[w].read, job'[w].req)
                     /\ job'[w].read.kind = orders'[job'[w].order].kind
  BY DEF Checked
<1>1. job[w] \in Job
  BY DEF TypeOK
<1>2. orders'[job[w].order].kind = orders[job[w].order].kind
  BY <1>1, IdentityStays DEF Job
<1>3. CASE pc[w] = "update" /\ job'[w] = job[w]
  BY <1>2, <1>3 DEF Checked
<1>4. CASE /\ job'[w] = [job[w] EXCEPT !.read = Row_(w)]
           /\ ~Refused(Row_(w), job[w].req)
           /\ Legal(Row_(w), job[w].req)
  <2>1. /\ job'[w].read = orders[job[w].order]
        /\ job'[w].req = job[w].req
        /\ job'[w].order = job[w].order
    BY <1>1, <1>4 DEF Row_, Job
  <2>. QED
    BY <1>2, <1>4, <2>1 DEF Row_
<1>. QED
  BY <1>3, <1>4, UpdateFollowsRead

THEOREM CheckedBeforeUpdate == Spec => []Checked
<1>1. Init => Checked
  BY DEF Init, Checked
<1>2. TypeOK /\ Checked /\ [Next]_vars => Checked'
  BY CheckedStays
<1>. QED
  BY <1>1, <1>2, TypeCorrect, PTL DEF Spec

-----------------------------------------------------------------------------
(* The statuses of a row. *)

\* A change of status is an UPDATE that was legal when it was decided on and
\* still is, a quarantine, or the retirement of an exit nobody submitted.
LEMMA StatusWriters ==
    ASSUME TypeOK, [Next]_vars, NEW o \in Orders,
           orders'[o].status # orders[o].status
    PROVE  \/ \E w \in Workers : UpdatedBy(w, o)
           \/ \E bid \in BrokerIds \cup {NoBroker} : FlaggedWith(o, bid)
           \/ RetiredRow(o)
<1>1. orders[o] \in Row
  BY DEF TypeOK
<1>2. /\ ErrorRecorded(orders[o]).status = orders[o].status
      /\ IntentPersisted(orders[o]).status = orders[o].status
      /\ Resolved(orders[o]).status = orders[o].status
  BY <1>1 DEF ErrorRecorded, IntentPersisted, Resolved, Row
<1>. QED
  BY <1>2, SixWriters DEF ResolvedWith, ClaimedBy

\* The rows of the table keep to the table of transitions.
LEMMA UpdateIsLegal ==
    ASSUME TypeOK, Checked, NEW o \in Orders, NEW w \in Workers,
           UpdatedBy(w, o), orders'[o].status # orders[o].status
    PROVE  /\ orders[o].status \notin Terminal
           /\ orders'[o].status \in Transitions[orders[o].status]
           /\ orders'[o].status = job[w].req.new
           /\ orders[o].status = job[w].read.status
<1>1. orders[o] \in Row /\ job[w].req \in Request
  BY DEF TypeOK, Job
<1>2. orders'[o].status = job[w].req.new
  BY <1>1 DEF UpdatedBy, Updated, Row
<1>3. orders[o].status = job[w].read.status
  BY DEF UpdatedBy, UpdateMatches
<1>4. Legal(job[w].read, job[w].req)
  BY DEF UpdatedBy, Checked
<1>. QED
  BY <1>2, <1>3, <1>4 DEF Legal

LEMMA StatusSteps ==
    ASSUME TypeOK, Checked, [Next]_vars, NEW o \in Orders,
           orders'[o].status # orders[o].status
    PROVE  /\ orders[o].status \notin Terminal
           /\ orders'[o].status \in Transitions[orders[o].status]
<1>1. orders[o] \in Row
  BY DEF TypeOK
<1>2. ASSUME NEW w \in Workers, UpdatedBy(w, o)
      PROVE  /\ orders[o].status \notin Terminal
             /\ orders'[o].status \in Transitions[orders[o].status]
  BY <1>2, UpdateIsLegal
<1>3. ASSUME NEW bid \in BrokerIds \cup {NoBroker}, FlaggedWith(o, bid)
      PROVE  /\ orders[o].status \notin Terminal
             /\ orders'[o].status \in Transitions[orders[o].status]
  <2>1. orders'[o].status =
           IF orders[o].status \in PreTrade THEN "SUBMITTED"
           ELSE IF orders[o].status = "EXIT_REQUESTED" THEN "EXIT_SUBMITTED"
           ELSE orders[o].status
    BY <1>1, <1>3 DEF FlaggedWith, Flagged, Row
  <2>. QED
    BY <2>1, TransitionFacts DEF PreTrade, Terminal, Failures
<1>4. CASE RetiredRow(o)
  <2>1. orders[o].status = "EXIT_REQUESTED" /\ orders'[o].status = "ERROR"
    BY <1>1, <1>4 DEF RetiredRow, RetireMatches, Retired, Row
  <2>. QED
    BY <2>1, TransitionFacts DEF Terminal, Failures
<1>. QED
  BY <1>2, <1>3, <1>4, StatusWriters

\* No interleaving of stale reads and guarded UPDATEs moves a row against
\* TRANSITIONS or out of a terminal status.
THEOREM RowsFollowTable == Spec => FollowsTable
<1>1. TypeOK /\ Checked /\ [Next]_vars =>
          [\A o \in Orders :
              orders'[o].status # orders[o].status =>
                  /\ orders[o].status \notin Terminal
                  /\ orders'[o].status \in Transitions[orders[o].status]]_vars
  BY StatusSteps
<1>. QED
  BY <1>1, TypeCorrect, CheckedBeforeUpdate, PTL DEF Spec, FollowsTable

\* Only an ENTRY row waits for a trigger.
PreTradeIsEntry ==
    \A o \in Orders : orders[o].status \in PreTrade => orders[o].kind = "ENTRY"

THEOREM OnlyEntriesWait == Spec => []PreTradeIsEntry
<1>1. Init => PreTradeIsEntry
  BY DEF Init, PreTradeIsEntry, NewRow, PreTrade
<1>2. TypeOK /\ Checked /\ PreTradeIsEntry /\ [Next]_vars => PreTradeIsEntry'
  <2>. SUFFICES ASSUME TypeOK, Checked, PreTradeIsEntry, [Next]_vars,
                       NEW o \in Orders, orders'[o].status \in PreTrade
                PROVE  orders'[o].kind = "ENTRY"
    BY DEF PreTradeIsEntry
  <2>1. orders[o].status \in Status
    BY DEF TypeOK, Row
  <2>2. orders[o].status \in PreTrade
    BY <2>1, StatusSteps, TransitionFacts
  <2>. QED
    BY <2>2, IdentityStays DEF PreTradeIsEntry
<1>. QED
  BY <1>1, <1>2, TypeCorrect, CheckedBeforeUpdate, PTL DEF Spec

\* The fence in the WHERE clause: a cleanup that read the row before the
\* intent was written cannot end it afterwards.
THEOREM CleanupIsFenced == Spec => FenceHolds
<1>1. ASSUME TypeOK, Checked, PreTradeIsEntry, [Next]_vars, NEW o \in Orders,
             orders[o].status \in PreTrade, orders'[o].status \in Terminal,
             SubmitOwned(orders[o])
      PROVE  \E w \in Workers : /\ pc[w] = "update"
                                /\ job[w].order = o
                                /\ job[w].req.owner
  <2>1. orders[o] \in Row /\ orders'[o].status # orders[o].status
    BY <1>1 DEF TypeOK, PreTrade, Terminal, Failures
  <2>2. ASSUME NEW w \in Workers, UpdatedBy(w, o), ~job[w].req.owner
        PROVE  FALSE
    <3>1. /\ job[w].read.kind = "ENTRY"
          /\ job[w].read.status \in PreTrade
          /\ job[w].req.new \in Terminal
      BY <1>1, <2>1, <2>2, UpdateIsLegal
      DEF UpdatedBy, Checked, PreTradeIsEntry
    <3>. QED
      BY <1>1, <2>2, <3>1 DEF UpdatedBy, UpdateMatches, Fenced
  <2>3. ASSUME NEW bid \in BrokerIds \cup {NoBroker}, FlaggedWith(o, bid)
        PROVE  FALSE
    <3>1. orders'[o].status = "SUBMITTED"
      BY <1>1, <2>1, <2>3 DEF FlaggedWith, Flagged, Row
    <3>. QED
      BY <1>1, <3>1 DEF Terminal, Failures
  <2>4. ~RetiredRow(o)
    BY <1>1 DEF RetiredRow, RetireMatches, PreTrade
  <2>. QED
    BY <1>1, <2>1, <2>2, <2>3, <2>4, StatusWriters DEF UpdatedBy
<1>2. TypeOK /\ Checked /\ PreTradeIsEntry /\ [Next]_vars =>
          [\A o \in Orders :
              (/\ orders[o].status \in PreTrade
               /\ orders'[o].status \in Terminal
               /\ SubmitOwned(orders[o]))
              => \E w \in Workers : /\ pc[w] = "update"
                                    /\ job[w].order = o
                                    /\ job[w].req.owner]_vars
  BY <1>1
<1>. QED
  BY <1>2, TypeCorrect, CheckedBeforeUpdate, OnlyEntriesWait, PTL
  DEF Spec, FenceHolds

-----------------------------------------------------------------------------
(* What a caller was told. *)

\* cancel_pending_entry() and expire_pending_entry() carry no identity.
CleanupIsAnonymous ==
    \A w \in Workers : pc[w] = "check" => job[w].req.bid = NoBroker

LEMMA CleanupStaysAnonymous ==
    ASSUME TypeOK, CleanupIsAnonymous, [Next]_vars
    PROVE  CleanupIsAnonymous'
<1>. SUFFICES ASSUME NEW w \in Workers, pc'[w] = "check"
              PROVE  job'[w].req.bid = NoBroker
  BY DEF CleanupIsAnonymous
<1>1. pc \in [Workers -> Statements] /\ job \in [Workers -> Job]
  BY DEF TypeOK
<1>2. CASE UNCHANGED vars \/ \E p \in Orders : Retire(p) \/ Execute(p)
  BY <1>2 DEF vars, Retire, Execute, CleanupIsAnonymous
<1>3. ASSUME NEW v \in Workers, Calls(v), v # w
      PROVE  pc'[w] = pc[w] /\ job'[w] = job[w]
  BY <1>3, OthersUntouched
<1>4. CASE Calls(w)
  <2>1. PICK p \in Orders :
           \/ GiveUp(w, p) \/ Watchdog(w, p)
           \/ \E statement \in {"prove", "read", "resolve"} :
                 pc' = [pc EXCEPT ![w] = statement]
    BY <1>4 DEF Calls, Arm, ExitGuard, Intend, AdoptByTag, Monitor,
                Reconciler, Start
  <2>2. \A status : Why(MoveTo(status)).bid = NoBroker
    BY DEF Why, MoveTo
  <2>. QED
    BY <1>1, <2>1, <2>2 DEF GiveUp, Watchdog, Start
<1>5. ASSUME NEW v \in Workers, Continue(v), v # w
      PROVE  pc'[w] = pc[w] /\ job'[w] = job[w]
  BY <1>5, OthersUntouched
<1>6. CASE Continue(w)
  <2>1. PICK statement \in {"idle", "post", "read", "update", "reread",
                            "record", "flag", "resolve"} :
           pc' = [pc EXCEPT ![w] = statement]
    BY <1>6 DEF Continue, CheckPending, Prove, Post, Read, Update, Reread,
          RecordError, Flag, Resolve, ReturnTrue, ReturnFalse, Leave, Goto
  <2>. QED
    BY <1>1, <2>1
<1>. QED
  BY <1>2, <1>3, <1>4, <1>5, <1>6 DEF Next, CleanupIsAnonymous

\* The pairs a step adds to "told" are true of the rows it leaves.
LEMMA ToldIsTrue ==
    ASSUME TypeOK, CleanupIsAnonymous, [Next]_vars, NEW o \in Orders, NEW bid \in BrokerIds,
           <<o, bid>> \in told', <<o, bid>> \notin told
    PROVE  orders'[o].broker = bid
<1>1. bid # NoBroker
  BY BrokerAssumption
<1>2. PICK w \in Workers :
         /\ ReturnTrue(w)
         /\ CheckPending(w) \/ Read(w) \/ Update(w) \/ Reread(w)
  <2>1. told' # told
    OBVIOUS
  <2>2. ASSUME NEW p \in Orders, Retire(p) \/ Execute(p)
        PROVE  FALSE
    BY <2>1, <2>2 DEF Retire, Execute
  <2>3. ASSUME NEW w \in Workers, Calls(w)
        PROVE  FALSE
    BY <2>1, <2>3 DEF Calls, Arm, GiveUp, Watchdog, ExitGuard, Intend,
                      AdoptByTag, Monitor, Reconciler
  <2>4. PICK w \in Workers : Continue(w)
    BY <2>1, <2>2, <2>3 DEF Next, vars
  <2>5. ~(Prove(w) \/ Post(w) \/ RecordError(w) \/ Flag(w) \/ Resolve(w))
    BY <2>1 DEF Prove, Post, RecordError, Flag, Resolve, ReturnFalse
  <2>6. CheckPending(w) \/ Read(w) \/ Update(w) \/ Reread(w)
    BY <2>4, <2>5 DEF Continue
  <2>7. ASSUME CheckPending(w) \/ Read(w)
        PROVE  ReturnTrue(w)
    BY <2>1, <2>7 DEF CheckPending, Read, ReturnFalse
  <2>8. ASSUME Update(w) \/ Reread(w)
        PROVE  ReturnTrue(w)
    BY <2>1, <2>8 DEF Update, Reread
  <2>. QED
    BY <2>6, <2>7, <2>8
<1>3. job[w].order = o /\ job[w].req.bid = bid
  BY <1>2 DEF ReturnTrue
<1>4. job[w] \in Job /\ job[w].req \in Request /\ orders \in [Orders -> Row]
      /\ pc \in [Workers -> Statements]
  BY DEF TypeOK, Job
<1>5. pc'[w] = "idle"
  BY <1>2, <1>4 DEF ReturnTrue, Leave
<1>6. CASE Read(w)
  <2>1. AlreadyThere(Row_(w), job[w].req)
    BY <1>2, <1>5, <1>6, <1>4, <1>3, <1>1
    DEF Read, Goto, ReturnFalse, ReturnTrue, Statements
  <2>. QED
    BY <1>1, <1>3, <2>1 DEF AlreadyThere
<1>7. CASE Update(w)
  <2>1. orders' = [orders EXCEPT ![job[w].order] = Updated(Row_(w), job[w].req)]
    BY <1>4, <1>5, <1>7 DEF Update, Goto, Write
  <2>. QED
    BY <1>1, <1>3, <1>4, <2>1 DEF Updated, Row_, Row
<1>8. CASE Reread(w)
  <2>1. MissAccepted(Row_(w), job[w].req) /\ UNCHANGED orders
    BY <1>4, <1>5, <1>8 DEF Reread, Goto
  <2>. QED
    BY <1>1, <1>3, <2>1 DEF MissAccepted, Row_
<1>9. ~CheckPending(w)
  BY <1>1, <1>3 DEF CheckPending, CleanupIsAnonymous
<1>. QED
  BY <1>2, <1>6, <1>7, <1>8, <1>9

\* True means the exact broker identity is in the row, and there it stays.
THEOREM ToldIsDurable == Spec => []ToldIdentityDurable
<1>1. Init => ToldIdentityDurable /\ CleanupIsAnonymous
  BY DEF Init, ToldIdentityDurable, CleanupIsAnonymous
<1>2. TypeOK /\ CleanupIsAnonymous /\ ToldIdentityDurable /\ [Next]_vars =>
          ToldIdentityDurable'
  <2>. SUFFICES ASSUME TypeOK, CleanupIsAnonymous, ToldIdentityDurable, [Next]_vars, NEW o \in Orders, NEW bid \in BrokerIds,
                       <<o, bid>> \in told'
                PROVE  orders'[o].broker = bid
    BY DEF ToldIdentityDurable
  <2>1. CASE <<o, bid>> \in told
    <3>1. orders[o].broker = bid /\ bid # NoBroker
      BY <2>1, BrokerAssumption DEF ToldIdentityDurable
    <3>. QED
      BY <3>1, IdentityStays
  <2>2. CASE <<o, bid>> \notin told
    BY <2>2, ToldIsTrue
  <2>. QED
    BY <2>1, <2>2
<1>3. TypeOK /\ CleanupIsAnonymous /\ [Next]_vars => CleanupIsAnonymous'
  BY CleanupStaysAnonymous
<1>. QED
  BY <1>1, <1>2, <1>3, TypeCorrect, PTL DEF Spec

-----------------------------------------------------------------------------
(* Submissions. *)

\* A worker that owns the right to send a row's order.
Attempting(w, o) == pc[w] \in {"prove", "post"} /\ job[w].order = o

\* The intent comes before the attempt and the attempt before the POST; there
\* is one attempt at a time and none after the POST.
OneAttempt ==
    /\ \A o \in Orders : submissions[o] > 0 => orders[o].intent
    /\ \A o \in Orders, w \in Workers :
          Attempting(w, o) => orders[o].intent /\ submissions[o] = 0
    /\ \A o \in Orders, w, v \in Workers :
          Attempting(w, o) /\ Attempting(v, o) => w = v
    /\ SubmittedOnce

\* A worker begins an attempt only by writing the intent.
LEMMA AttemptsBegin ==
    ASSUME TypeOK, [Next]_vars, NEW o \in Orders, NEW w \in Workers,
           Attempting(w, o)'
    PROVE  Attempting(w, o) \/ Intend(w, o)
<1>1. pc \in [Workers -> Statements] /\ job \in [Workers -> Job]
  BY DEF TypeOK
<1>2. CASE UNCHANGED vars \/ \E p \in Orders : Retire(p) \/ Execute(p)
  BY <1>2 DEF vars, Retire, Execute, Attempting
<1>3. ASSUME NEW p \in Orders, Intend(w, p)
      PROVE  p = o
  BY <1>1, <1>3 DEF Intend, Start, Attempting
<1>4. ASSUME NEW v \in Workers, Calls(v), v # w
      PROVE  pc'[w] = pc[w] /\ job'[w] = job[w]
  BY <1>4, OthersUntouched
<1>5. CASE Calls(w)
  <2>1. PICK p \in Orders :
           Intend(w, p) \/ \E statement \in {"check", "read", "resolve"} :
                               pc' = [pc EXCEPT ![w] = statement]
    BY <1>5 DEF Calls, Arm, GiveUp, Watchdog, ExitGuard, AdoptByTag, Monitor,
                Reconciler, Start
  <2>. QED
    BY <1>1, <1>3, <2>1 DEF Attempting
<1>6. ASSUME NEW v \in Workers, Continue(v), v # w
      PROVE  pc'[w] = pc[w] /\ job'[w] = job[w]
  BY <1>6, OthersUntouched
<1>7. CASE Continue(w)
  <2>1. CASE Prove(w)
    BY <1>1, <2>1 DEF Prove, Goto, Leave, Attempting
  <2>2. CASE ~Prove(w)
    <3>1. PICK statement \in {"idle", "read", "update", "reread", "record",
                              "flag", "resolve"} :
             pc' = [pc EXCEPT ![w] = statement]
      BY <1>7, <2>2 DEF Continue, CheckPending, Post, Read, Update, Reread,
            RecordError, Flag, Resolve, ReturnTrue, ReturnFalse, Leave, Goto
    <3>. QED
      BY <1>1, <3>1 DEF Attempting
  <2>. QED
    BY <2>1, <2>2
<1>. QED
  BY <1>2, <1>4, <1>5, <1>6, <1>7 DEF Next, Attempting

\* ... and the POST ends it.
LEMMA PostEndsAttempt ==
    ASSUME TypeOK, [Next]_vars, NEW o \in Orders,
           submissions'[o] # submissions[o]
    PROVE  \E w \in Workers : /\ Attempting(w, o)
                              /\ ~Attempting(w, o)'
                              /\ submissions'[o] = submissions[o] + 1
<1>1. /\ pc \in [Workers -> Statements]
      /\ job \in [Workers -> Job]
      /\ submissions \in [Orders -> Nat]
  BY DEF TypeOK
<1>2. PICK w \in Workers : Post(w)
  <2>1. submissions' # submissions
    OBVIOUS
  <2>2. ASSUME NEW p \in Orders, Retire(p) \/ Execute(p)
        PROVE  FALSE
    BY <2>1, <2>2 DEF Retire, Execute
  <2>3. ASSUME NEW w \in Workers, Calls(w)
        PROVE  FALSE
    BY <2>1, <2>3 DEF Calls, Arm, GiveUp, Watchdog, ExitGuard, Intend,
                      AdoptByTag, Monitor, Reconciler
  <2>4. PICK w \in Workers : Continue(w)
    BY <2>1, <2>2, <2>3 DEF Next, vars
  <2>5. Post(w)
    BY <2>1, <2>4 DEF Continue, CheckPending, Prove, Read, Update, Reread,
                      RecordError, Flag, Resolve
  <2>. QED
    BY <2>5
<1>3. job[w].order \in Orders
  BY <1>1 DEF Job
<1>4. Attempting(w, o) /\ submissions'[o] = submissions[o] + 1
  BY <1>1, <1>2, <1>3 DEF Post, Attempting
<1>5. PICK statement \in {"idle", "read", "flag"} :
         pc' = [pc EXCEPT ![w] = statement]
  BY <1>2 DEF Post, Leave
<1>. QED
  BY <1>1, <1>4, <1>5 DEF Attempting

LEMMA OneAttemptStays ==
    ASSUME TypeOK, OneAttempt, [Next]_vars
    PROVE  OneAttempt'
<1>1. \A o \in Orders : submissions[o] \in Nat
  BY DEF TypeOK
<1>2. ASSUME NEW o \in Orders, NEW w \in Workers, Intend(w, o)
      PROVE  /\ ~orders[o].intent
             /\ submissions[o] = 0 /\ submissions'[o] = 0
             /\ orders'[o].intent
  <2>1. ~orders[o].intent /\ submissions' = submissions
    BY <1>2 DEF Intend, IntentMatches
  <2>2. orders'[o] = IntentPersisted(orders[o]) /\ orders[o] \in Row
    BY <1>2 DEF Intend, TypeOK
  <2>. QED
    BY <1>1, <2>1, <2>2 DEF OneAttempt, IntentPersisted, Row
<1>3. ASSUME NEW o \in Orders, submissions'[o] > 0
      PROVE  orders'[o].intent
  <2>1. CASE submissions'[o] = submissions[o]
    BY <1>3, <2>1, IdentityStays DEF OneAttempt
  <2>2. CASE submissions'[o] # submissions[o]
    BY <2>2, PostEndsAttempt, IdentityStays DEF OneAttempt
  <2>. QED
    BY <2>1, <2>2
<1>4. ASSUME NEW o \in Orders, NEW w \in Workers, Attempting(w, o)'
      PROVE  orders'[o].intent /\ submissions'[o] = 0
  <2>1. CASE Attempting(w, o)
    <3>1. submissions[o] = 0 /\ orders'[o].intent
      BY <2>1, IdentityStays DEF OneAttempt
    <3>2. submissions'[o] = submissions[o]
      BY <1>4, <2>1, PostEndsAttempt DEF OneAttempt
    <3>. QED
      BY <3>1, <3>2
  <2>2. CASE Intend(w, o)
    BY <1>2, <2>2
  <2>. QED
    BY <1>4, <2>1, <2>2, AttemptsBegin
<1>5. ASSUME NEW o \in Orders, NEW w \in Workers, NEW v \in Workers,
             Attempting(w, o)', Attempting(v, o)'
      PROVE  w = v
  <2>1. /\ Attempting(w, o) \/ Intend(w, o)
        /\ Attempting(v, o) \/ Intend(v, o)
    BY <1>5, AttemptsBegin
  <2>2. ASSUME Intend(w, o), Intend(v, o), w # v
        PROVE  FALSE
    BY <2>2 DEF Intend, Start, TypeOK
  <2>. QED
    BY <1>2, <2>1, <2>2 DEF OneAttempt
<1>6. ASSUME NEW o \in Orders
      PROVE  submissions'[o] =< 1
  <2>1. CASE submissions'[o] = submissions[o]
    BY <2>1 DEF OneAttempt, SubmittedOnce
  <2>2. CASE submissions'[o] # submissions[o]
    BY <2>2, PostEndsAttempt DEF OneAttempt
  <2>. QED
    BY <2>1, <2>2
<1>. QED
  BY <1>3, <1>4, <1>5, <1>6 DEF OneAttempt, SubmittedOnce

\* A row is sent to the broker at most once, for any number of threads and
\* any interleaving of their statements with quarantine, cleanup and recovery.
THEOREM RowsAreSubmittedOnce == Spec => []SubmittedOnce
<1>1. Init => OneAttempt
  BY DEF Init, OneAttempt, Attempting, SubmittedOnce
<1>2. TypeOK /\ OneAttempt /\ [Next]_vars => OneAttempt'
  BY OneAttemptStays
<1>3. OneAttempt => SubmittedOnce
  BY DEF OneAttempt
<1>. QED
  BY <1>1, <1>2, <1>3, TypeCorrect, PTL DEF Spec

-----------------------------------------------------------------------------
(* Quantities. *)

\* Only the fill monitor reports quantities: a partial one with a partial
\* status, anything else with a status that says the order is over.
QuantifiedReports ==
    \A w \in Workers :
        job[w].req.fill # NoFill =>
            \/ job[w].req.new \in Partial
            \/ job[w].req.new \in Terminal /\ job[w].req.fill = Qty

LEMMA ReportsStayQuantified ==
    ASSUME TypeOK, QuantifiedReports, [Next]_vars
    PROVE  QuantifiedReports'
<1> DEFINE Quantified(req) ==
              req.fill # NoFill => \/ req.new \in Partial
                                   \/ req.new \in Terminal /\ req.fill = Qty
<1>. SUFFICES ASSUME NEW w \in Workers PROVE Quantified(job'[w].req)
  BY DEF QuantifiedReports
<1>1. pc \in [Workers -> Statements] /\ job \in [Workers -> Job]
  BY DEF TypeOK
<1>2. Quantified(job[w].req)
  BY DEF QuantifiedReports
<1>3. /\ \A s : Quantified(MoveTo(s)) /\ Quantified(Why(MoveTo(s)))
      /\ \A kind, bid : Quantified(Submitted(kind, bid))
      /\ \A bid : Quantified([MoveTo("CREATED") EXCEPT !.bid = bid])
      /\ \A b : Quantified([Why(MoveTo("ERROR")) EXCEPT !.owner = b])
      /\ Quantified(NoJob.req)
  BY DEF MoveTo, Why, Submitted, NoJob, Job
<1>4. ASSUME NEW o \in Orders, NEW req \in Answers(o)
      PROVE  Quantified(req)
  <2>1. \A s : /\ Answer(o, s).fill = NoFill
               /\ Why(Answer(o, s)).fill = NoFill
    BY DEF Answer, Why, MoveTo
  <2>2. \A s, t : /\ FillAnswer(o, s, t).new = s
                  /\ FillAnswer(o, s, t).fill = executed[o]
    BY DEF FillAnswer, Answer, MoveTo
  <2>. QED
    BY <1>4, <2>1, <2>2 DEF Answers, Partial, Terminal
<1>. HIDE DEF Quantified
<1>5. CASE UNCHANGED vars \/ \E p \in Orders : Retire(p) \/ Execute(p)
  BY <1>2, <1>5 DEF vars, Retire, Execute
<1>6. ASSUME NEW v \in Workers, Calls(v) \/ Continue(v), v # w
      PROVE  job'[w] = job[w]
  BY <1>6, OthersUntouched
<1>7. CASE Calls(w)
  <2>1. PICK o, statement, by, req :
           Start(w, statement, by, o, req) /\ Quantified(req)
    BY <1>3, <1>4, <1>7 DEF Calls, Arm, GiveUp, Watchdog, ExitGuard, Intend,
          AdoptByTag, Monitor, Reconciler
  <2>. QED
    BY <1>1, <2>1 DEF Start
<1>8. CASE Post(w)
  <2>1. CASE Leave(w)
    BY <1>1, <1>3, <2>1 DEF Leave
  <2>2. ASSUME NEW req, job' = [job EXCEPT ![w].req = req]
        PROVE  job'[w].req = req
    BY <1>1, <2>2 DEF Job
  <2>. QED
    BY <1>3, <1>8, <2>1, <2>2 DEF Post
<1>9. CASE Continue(w) /\ ~Post(w)
  <2>1. job'[w].req = job[w].req \/ job'[w] = NoJob
    BY <1>1, <1>9 DEF Continue, CheckPending, Prove, Read, Update, Reread,
          RecordError, Flag, Resolve, ReturnTrue, ReturnFalse, Leave, Goto, Job
  <2>. QED
    BY <1>2, <1>3, <2>1
<1>. QED
  BY <1>2, <1>5, <1>6, <1>7, <1>8, <1>9 DEF Next

\* A row has executed contracts only once it is partly filled or over.
FillsComeLate ==
    \A o \in Orders :
        orders[o].filled > 0 => orders[o].status \in Partial \cup Terminal

LEMMA FillsStayLate ==
    ASSUME TypeOK, Checked, QuantifiedReports, FillsComeLate, [Next]_vars
    PROVE  FillsComeLate'
<1>. SUFFICES ASSUME NEW o \in Orders, orders'[o].filled > 0
              PROVE  orders'[o].status \in Partial \cup Terminal
  BY DEF FillsComeLate
<1>1. orders[o] \in Row
  BY DEF TypeOK
<1>2. orders[o].filled > 0 => orders[o].status \in Partial \cup Terminal
  BY DEF FillsComeLate
<1>3. ASSUME NEW w \in Workers, UpdatedBy(w, o)
      PROVE  orders'[o].status \in Partial \cup Terminal
  <2>1. /\ orders'[o].status = job[w].req.new
        /\ orders'[o].filled = IF job[w].req.fill = NoFill
                               THEN orders[o].filled ELSE job[w].req.fill
        /\ orders[o].status = job[w].read.status
    BY <1>1, <1>3 DEF UpdatedBy, Updated, UpdateMatches, Row
  <2>2. CASE job[w].req.fill # NoFill
    BY <2>1, <2>2 DEF QuantifiedReports
  <2>3. CASE job[w].req.fill = NoFill /\ orders'[o].status # orders[o].status
    <3>1. orders[o].status \in Partial
      BY <1>2, <1>3, <2>1, <2>3, UpdateIsLegal
    <3>2. orders'[o].status \in Terminal
      BY <1>3, <2>3, <3>1, UpdateIsLegal, TransitionFacts
    <3>. QED
      BY <3>2
  <2>. QED
    BY <1>2, <2>1, <2>2, <2>3
<1>4. CASE ~\E w \in Workers : UpdatedBy(w, o)
  <2>1. /\ ErrorRecorded(orders[o]).filled = orders[o].filled
        /\ ErrorRecorded(orders[o]).status = orders[o].status
        /\ IntentPersisted(orders[o]).filled = orders[o].filled
        /\ IntentPersisted(orders[o]).status = orders[o].status
        /\ Resolved(orders[o]).filled = orders[o].filled
        /\ Resolved(orders[o]).status = orders[o].status
        /\ Retired(orders[o]).status \in Terminal
    BY <1>1 DEF ErrorRecorded, IntentPersisted, Resolved, Retired, Row,
                Terminal, Failures
  <2>2. ASSUME NEW bid \in BrokerIds \cup {NoBroker}, FlaggedWith(o, bid)
        PROVE  orders'[o].status \in Partial \cup Terminal
    <3>1. /\ orders'[o].filled = orders[o].filled
          /\ orders[o].status \notin PreTrade \cup {"EXIT_REQUESTED"} =>
                orders'[o].status = orders[o].status
      BY <1>1, <2>2 DEF FlaggedWith, Flagged, Row
    <3>. QED
      BY <1>2, <3>1 DEF Partial, Terminal, Failures, PreTrade
  <2>. QED
    BY <1>2, <1>4, <2>1, <2>2, SixWriters
    DEF ResolvedWith, ClaimedBy, RetiredRow
<1>. QED
  BY <1>3, <1>4

\* A change of status, whoever makes it, leaves at least the contracts the row
\* had before.
LEMMA StatusStepKeepsFill ==
    ASSUME TypeOK, Checked, QuantifiedReports, FillsComeLate, [Next]_vars,
           NEW o \in Orders, orders'[o].status # orders[o].status
    PROVE  orders'[o].filled >= orders[o].filled
<1>1. orders[o] \in Row
  BY DEF TypeOK
<1>2. orders[o].filled \in 0..Qty
  BY <1>1 DEF Row
<1>3. ASSUME NEW w \in Workers, UpdatedBy(w, o)
      PROVE  orders'[o].filled >= orders[o].filled
  <2>1. orders'[o].filled = IF job[w].req.fill = NoFill
                            THEN orders[o].filled ELSE job[w].req.fill
    BY <1>1, <1>3 DEF UpdatedBy, Updated, Row
  <2>2. job[w].req \in Request
    BY DEF TypeOK, Job
  <2>3. job[w].req.fill \in NoFill..Qty
    BY <2>2 DEF Request
  <2>4. CASE job[w].req.new \in Partial
    <3>1. orders[o].status \notin Partial \cup Terminal
      BY <1>1, <1>3, <2>4, UpdateIsLegal, TransitionFacts DEF Row
    <3>. QED
      BY <1>2, <2>1, <2>3, <3>1, QtyAssumption DEF FillsComeLate, NoFill
  <2>5. CASE job[w].req.new \notin Partial
    BY <1>2, <2>1, <2>3, <2>5, QtyAssumption DEF QuantifiedReports
  <2>. QED
    BY <2>4, <2>5
<1>4. ASSUME NEW bid \in BrokerIds \cup {NoBroker}, FlaggedWith(o, bid)
      PROVE  orders'[o].filled >= orders[o].filled
  BY <1>1, <1>4 DEF FlaggedWith, Flagged, Row
<1>5. CASE RetiredRow(o)
  BY <1>1, <1>5 DEF RetiredRow, Retired, Row
<1>. QED
  BY <1>3, <1>4, <1>5, StatusWriters

\* A stale snapshot may overwrite the quantity of a row that stays partly
\* filled, but no change of status loses executed contracts.
THEOREM StatusChangesKeepFills == Spec => StatusChangeKeepsFill
<1>1. Init => QuantifiedReports /\ FillsComeLate
  BY DEF Init, QuantifiedReports, FillsComeLate, NoJob, MoveTo, NewRow
<1>2. TypeOK /\ QuantifiedReports /\ [Next]_vars => QuantifiedReports'
  BY ReportsStayQuantified
<1>3. TypeOK /\ Checked /\ QuantifiedReports /\ FillsComeLate /\ [Next]_vars
        => FillsComeLate'
  BY FillsStayLate
<1>4. TypeOK /\ Checked /\ QuantifiedReports /\ FillsComeLate /\ [Next]_vars =>
          [\A o \in Orders :
              orders'[o].status # orders[o].status =>
                  orders'[o].filled >= orders[o].filled]_vars
  BY StatusStepKeepsFill
<1>. QED
  BY <1>1, <1>2, <1>3, <1>4, TypeCorrect, CheckedBeforeUpdate, PTL
  DEF Spec, StatusChangeKeepsFill

=============================================================================
