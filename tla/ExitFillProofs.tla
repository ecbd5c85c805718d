--------------------------- MODULE ExitFillProofs ---------------------------
(***************************************************************************)
(* What ExitFill keeps for any number of EXIT orders and contracts, with   *)
(* or without the broker precheck.                                         *)
(***************************************************************************)
EXTENDS ExitFill, TLAPS

-----------------------------------------------------------------------------
(* Types. *)

\* The statements of transition() keep rows typed when the request is.
LEMMA RowsStayRows ==
    ASSUME NEW row \in Row
    PROVE  /\ ErrorRecorded(row) \in Row
           /\ \A req \in Request : Updated(row, req) \in Row
<1>1. ErrorRecorded(row) \in Row
  BY DEF Row, ErrorRecorded, Errors
<1>2. ASSUME NEW req \in Request PROVE Updated(row, req) \in Row
  <2> DEFINE stamped == row.submitted \/ req.stamp
             held == IF req.fill = NoFill THEN row.filled ELSE req.fill
  <2>1. stamped \in BOOLEAN
    OBVIOUS
  <2>2. held \in 0..PositionQty
    BY PositionQtyAssumption DEF Row, Request, NoFill
  <2>3. (IF req.why THEN "other" ELSE row.error) \in Errors
    BY DEF Row, Errors
  <2>4. /\ req.new \in Status
        /\ (IF req.bid = NoOrder THEN row.broker ELSE req.bid)
              \in ExitOrders \cup {NoOrder}
    BY DEF Row, Request
  <2>5. Updated(row, req) =
           [row EXCEPT !.status = req.new,
                       !.broker = IF req.bid = NoOrder THEN @ ELSE req.bid,
                       !.filled = held, !.submitted = stamped,
                       !.error = IF req.why THEN "other" ELSE @]
    BY DEF Updated
  <2>. HIDE DEF stamped, held
  <2>. QED
    BY <2>1, <2>2, <2>3, <2>4, <2>5 DEF Row
<1>. QED
  BY <1>1, <1>2

\* The requests of the fill monitor and the reconciler.
LEMMA RequestsAreRequests ==
    /\ \A s \in Status : MoveTo(s) \in Request
    /\ \A o \in ExitOrders, s \in Status, n \in Quantity :
          FillReport(o, s, n) \in Request
    /\ \A bid \in ExitOrders \cup {NoOrder} : Ended(bid) \in Request
    /\ \A o \in ExitOrders :
          [MoveTo("EXIT_ACKNOWLEDGED") EXCEPT !.bid = o] \in Request
<1>1. ASSUME NEW s \in Status PROVE MoveTo(s) \in Request
  BY PositionQtyAssumption DEF MoveTo, Request, NoFill
<1>2. ASSUME NEW o \in ExitOrders, NEW s \in Status, NEW n \in Quantity
      PROVE  FillReport(o, s, n) \in Request
  <2>1. n \in NoFill..PositionQty
    BY PositionQtyAssumption DEF Quantity, NoFill
  <2>2. ASSUME NEW req \in Request
        PROVE  /\ [req EXCEPT !.bid = o] \in Request
               /\ [req EXCEPT !.fill = n] \in Request
               /\ [req EXCEPT !.timed = TRUE] \in Request
    BY <2>1 DEF Request
  <2>. QED
    BY <1>1, <2>2 DEF FillReport
<1>3. {"CANCELED", "EXIT_ACKNOWLEDGED"} \subseteq Status
  BY DEF Status, Terminal, Failures, ExitActive
<1>. QED
  BY <1>1, <1>2, <1>3 DEF Ended, Request

LEMMA NoJobIsAJob == NoJob \in Job
<1>1. MoveTo("EXIT_REQUESTED") \in Request
  BY RequestsAreRequests DEF Status, ExitActive
<1>2. (CHOOSE p \in ExitOrders : TRUE) \in ExitOrders
  BY ExitOrdersAssumption
<1>3. 0 \in Quantity
  BY PositionQtyAssumption DEF Quantity
<1>. QED
  BY <1>1, <1>2, <1>3 DEF NoJob, Job

ThreadsTyped == pc \in [Threads -> Statements] /\ job \in [Threads -> Job]

\* How a thread goes on keeps it typed.
LEMMA ContinuationsTyped ==
    ASSUME ThreadsTyped, NEW t \in Threads,
           Leave(t) \/ Second(t) \/ Failed(t) \/ Succeeded(t)
    PROVE  ThreadsTyped'
<1>1. job[t].order \in ExitOrders
  BY DEF ThreadsTyped, Job
<1>2. Asked[job[t].order] \in Quantity
  BY <1>1, AskedAssumption, PositionQtyAssumption DEF Quantity
<1>3. FillReport(job[t].order, "EXIT_FILLED", Asked[job[t].order]) \in Request
  BY <1>1, <1>2, RequestsAreRequests DEF Status, Terminal
<1>4. CASE Leave(t)
  BY <1>1, <1>4, NoJobIsAJob DEF Leave, ThreadsTyped, Statements
<1>5. CASE Second(t)
  <2>1. \A j \in Job, req \in Request :
           [j EXCEPT !.req = req, !.then = "nothing"] \in Job
    BY DEF Job
  <2>. QED
    BY <1>3, <1>5, <2>1 DEF Second, ThreadsTyped, Statements
<1>6. CASE pc' = [pc EXCEPT ![t] = "again"] /\ UNCHANGED job
  BY <1>6 DEF ThreadsTyped, Statements
<1>. QED
  BY <1>4, <1>5, <1>6 DEF Failed, Succeeded

LEMMA BeginTyped ==
    ASSUME ThreadsTyped, NEW t \in Threads, NEW o \in ExitOrders,
           NEW req \in Request,
           NEW then \in {"nothing", "filled", "end", "reopen"},
           Begin(t, o, req, then)
    PROVE  ThreadsTyped'
<1>1. 0 \in Quantity
  BY PositionQtyAssumption DEF Quantity
<1>. QED
  BY <1>1 DEF Begin, ThreadsTyped, Job, Statements

\* What transition() durably holds and the position is missing fits into what
\* the position has left.
LEMMA ConvergenceFits ==
    ASSUME TypeOK, NEW o \in ExitOrders, Converges(o)
    PROVE  /\ Delta(o) \in Quantity
           /\ position.remaining - Delta(o) = PositionQty - rows[o].filled
           /\ position.remaining - Delta(o) \in Quantity
           /\ rows[o].filled \in Quantity
<1>1. mark[o] \in Quantity /\ rows[o] \in Row
  BY DEF TypeOK
<1>2. rows[o].filled \in 0..PositionQty
  BY <1>1 DEF Row
<1>3. mark[o] =< rows[o].filled /\ position.remaining = PositionQty - mark[o]
  BY DEF Converges, RemainderProven
<1>. QED
  BY <1>1, <1>2, <1>3, PositionQtyAssumption DEF Delta, Quantity

LEMMA ProjectTyped ==
    ASSUME TypeOK, NEW o \in ExitOrders, Converges(o), Project(o)
    PROVE  position' \in Position /\ mark' \in [ExitOrders -> Quantity]
<1>1. Projected(o) \in Position
  BY ConvergenceFits DEF Projected, Position
<1>. QED
  BY <1>1, ConvergenceFits DEF Project, TypeOK

LEMMA ReleasedTyped ==
    ASSUME NEW e \in ManagedPosition
    PROVE  Released(e) \in ManagedPosition /\ Over(e) \in ManagedPosition
<1>1. 0 \in Quantity
  BY PositionQtyAssumption DEF Quantity
<1>2. Released(e) \in ManagedPosition
  BY <1>1 DEF Released, ManagedPosition
<1>3. ASSUME NEW r \in ManagedPosition
      PROVE  [r EXCEPT !.closed = TRUE, !.generation = @ + 1]
                \in ManagedPosition
  <2>1. r.generation + 1 \in Nat
    BY DEF ManagedPosition
  <2>2. \A n \in Nat : [r EXCEPT !.closed = TRUE, !.generation = n]
                           \in ManagedPosition
    BY DEF ManagedPosition
  <2>. QED
    BY <2>1, <2>2
<1>. QED
  BY <1>2, <1>3 DEF Over

LEMMA CountedTyped ==
    ASSUME TypeOK, NEW o \in ExitOrders, NEW count \in Quantity,
           count > engine.noted[o]
    PROVE  Counted(o, count) \in ManagedPosition
<1>1. engine \in ManagedPosition
  BY DEF TypeOK
<1>2. /\ engine.remaining \in Quantity
      /\ engine.filled \in Nat
      /\ engine.noted \in [ExitOrders -> Quantity]
      /\ engine.noted[o] \in Quantity
  BY <1>1 DEF ManagedPosition
<1>3. Floor(engine.remaining - (count - engine.noted[o])) \in Quantity
  BY <1>2, PositionQtyAssumption DEF Quantity, Floor
<1>4. engine.filled + count - engine.noted[o] \in Nat
  BY <1>2, PositionQtyAssumption DEF Quantity
<1>5. [engine.noted EXCEPT ![o] = count] \in [ExitOrders -> Quantity]
  BY <1>2
<1>. QED
  BY <1>1, <1>3, <1>4, <1>5 DEF Counted, ManagedPosition

LEMMA NotedTyped ==
    ASSUME TypeOK, NEW o \in ExitOrders, NEW count \in Quantity,
           count > engine.noted[o]
    PROVE  Noted(o, count) \in ManagedPosition
BY CountedTyped, ReleasedTyped DEF Noted

\* The steps of a submission.
Submits ==
    \/ \E o \in ExitOrders : Decide(o)
    \/ GiveUp \/ Post \/ Submitted \/ Tell \/ MarkSubmitted \/ Own

LEMMA SubmitStepsTyped ==
    ASSUME TypeOK, Submits
    PROVE  TypeOK'
<1>1. engine \in ManagedPosition /\ submit \in Submission
  BY DEF TypeOK
<1>2. /\ submit.order \in ExitOrders
      /\ submit.scale \in BOOLEAN
      /\ Asked[submit.order] \in Quantity
      /\ engine.generation \in Nat
      /\ 0 \in Quantity
  BY <1>1, AskedAssumption, PositionQtyAssumption
  DEF Submission, ManagedPosition, Quantity
<1>3. NoSubmission \in Submission
  <2>1. (CHOOSE o \in ExitOrders : TRUE) \in ExitOrders
    BY ExitOrdersAssumption
  <2>. QED
    BY <2>1 DEF NoSubmission, Submission
<1>4. Flown(submit.order) \in ManagedPosition
  BY <1>1, <1>2 DEF Flown, ManagedPosition
<1>5. Released(engine) \in ManagedPosition
  BY <1>1, ReleasedTyped
<1>6. ASSUME NEW stage \in {"posted", "submitted", "told", "returned"}
      PROVE  [submit EXCEPT !.pc = stage] \in Submission
  BY <1>1 DEF Submission
<1>7. ASSUME NEW o \in ExitOrders, Decide(o) PROVE TypeOK'
  <2> DEFINE scale == Asked[o] < engine.remaining
  <2>1. scale \in BOOLEAN
    OBVIOUS
  <2>2. submit' = [pc |-> "decided", order |-> o, scale |-> scale,
                   generation |-> engine.generation]
    BY <1>7 DEF Decide
  <2>. HIDE DEF scale
  <2>3. submit' \in Submission
    BY <1>2, <2>1, <2>2 DEF Submission
  <2>4. engine' \in ManagedPosition
    BY <1>1, <1>7 DEF Decide, ManagedPosition
  <2>. QED
    BY <1>7, <2>3, <2>4 DEF Decide, TypeOK
<1>8. CASE GiveUp
  BY <1>1, <1>3, <1>5, <1>8 DEF GiveUp, TypeOK
<1>9. CASE Post
  <2>1. broker' \in [ExitOrders -> AtBroker]
    BY <1>2, <1>9 DEF Post, TypeOK, AtBroker
  <2>. QED
    BY <1>6, <1>9, <2>1 DEF Post, TypeOK
<1>10. CASE Submitted
  <2>1. "EXIT_SUBMITTED" \in Status
    BY DEF Status, ExitActive
  <2>2. \A row \in Row, o \in ExitOrders :
           [row EXCEPT !.status = "EXIT_SUBMITTED", !.broker = o,
                       !.submitted = TRUE, !.intent = TRUE] \in Row
    BY <2>1 DEF Row
  <2>3. rows' \in [ExitOrders -> Row]
    BY <1>2, <1>10, <2>2 DEF Submitted, TypeOK
  <2>. QED
    BY <1>6, <1>10, <2>3 DEF Submitted, TypeOK
<1>11. CASE Tell
  <2>1. [Flown(submit.order) EXCEPT !.qty = Asked[submit.order]]
           \in ManagedPosition
    BY <1>2, <1>4 DEF ManagedPosition
  <2>. QED
    BY <1>1, <1>6, <1>11, <2>1 DEF Tell, TypeOK
<1>12. CASE MarkSubmitted
  <2>1. [p \in ExitOrders |-> 0] \in [ExitOrders -> Quantity]
    BY <1>2
  <2>2. /\ engine.generation + 1 \in Nat
        /\ (IF submit.scale THEN submit.order ELSE engine.pending)
              \in ExitOrders \cup {NoOrder}
    BY <1>1, <1>2 DEF ManagedPosition
  <2>3. ASSUME NEW n \in Nat, NEW p \in ExitOrders \cup {NoOrder},
               NEW noted \in [ExitOrders -> Quantity]
        PROVE  [engine EXCEPT !.inFlight = TRUE, !.pending = p,
                              !.qty = Asked[submit.order], !.filled = 0,
                              !.scale = submit.scale, !.noted = noted,
                              !.generation = n] \in ManagedPosition
    BY <1>1, <1>2 DEF ManagedPosition
  <2>4. Marked \in ManagedPosition
    BY <2>1, <2>2, <2>3 DEF Marked
  <2>. QED
    BY <1>1, <1>6, <1>12, <2>4 DEF MarkSubmitted, TypeOK
<1>13. CASE Own
  BY <1>1, <1>3, <1>4, <1>13 DEF Own, TypeOK
<1>. QED
  BY <1>7, <1>8, <1>9, <1>10, <1>11, <1>12, <1>13 DEF Submits

LEMMA OrderStepsTyped ==
    ASSUME TypeOK, NEW o \in ExitOrders,
           \/ Execute(o) \/ EndAtBroker(o)
           \/ Poll(o) \/ Reconcile(o) \/ StaleAcknowledged(o) \/ Heal(o)
    PROVE  TypeOK'
<1>1. ThreadsTyped
  BY DEF TypeOK, ThreadsTyped
<1>2. Asked[o] \in 1..PositionQty /\ broker[o] \in AtBroker /\ rows[o] \in Row
  BY AskedAssumption DEF TypeOK
<1>3. broker[o].executed \in Quantity /\ rows[o].filled \in Quantity
  BY <1>2 DEF AtBroker, Row, Quantity
<1>4. {"EXIT_FILLED", "EXIT_PARTIAL_FILL", "EXIT_ACKNOWLEDGED"}
         \subseteq Status
  BY DEF Status, Terminal, ExitActive
<1>6. CASE Execute(o)
  <2>1. /\ broker[o].executed + 1 \in Quantity
        /\ holdings - 1 \in Quantity
    BY <1>2, <1>3, <1>6, PositionQtyAssumption DEF Execute, TypeOK, Quantity
  <2>2. broker' \in [ExitOrders -> AtBroker]
    BY <1>6, <2>1 DEF Execute, TypeOK, AtBroker
  <2>. QED
    BY <1>6, <2>1, <2>2 DEF Execute, TypeOK
<1>7. CASE EndAtBroker(o)
  BY <1>7 DEF EndAtBroker, TypeOK, AtBroker
<1>8. ASSUME NEW t \in Threads, NEW req \in Request,
             NEW then \in {"nothing", "filled", "end", "reopen"},
             Begin(t, o, req, then)
      PROVE  TypeOK'
  BY <1>1, <1>8, BeginTyped DEF Begin, TypeOK, ThreadsTyped
<1>9. CASE Poll(o)
  BY <1>3, <1>4, <1>8, <1>9, RequestsAreRequests DEF Poll, Threads
<1>10. CASE Reconcile(o)
  BY <1>3, <1>4, <1>8, <1>10, RequestsAreRequests DEF Reconcile, Threads
<1>11. CASE StaleAcknowledged(o)
  BY <1>3, <1>4, <1>8, <1>11, RequestsAreRequests
  DEF StaleAcknowledged, Threads
<1>12. CASE Heal(o)
  BY <1>12, ProjectTyped DEF Heal, TypeOK
<1>. QED
  BY <1>6, <1>7, <1>9, <1>10, <1>11, <1>12

LEMMA ThreadStepsTyped ==
    ASSUME TypeOK, NEW t \in Threads, Continue(t)
    PROVE  TypeOK'
<1>1. ThreadsTyped
  BY DEF TypeOK, ThreadsTyped
<1>2. /\ job[t] \in Job
      /\ job[t].order \in ExitOrders
      /\ job[t].req \in Request
      /\ job[t].count \in Quantity
  BY DEF TypeOK, Job
<1>3. rows[job[t].order] \in Row
  BY <1>2 DEF TypeOK
<1>4. rows[job[t].order].filled \in Quantity
  BY <1>3 DEF Row, Quantity
<1>5. ASSUME Leave(t) \/ Second(t) \/ Failed(t) \/ Succeeded(t)
      PROVE  ThreadsTyped'
  BY <1>1, <1>5, ContinuationsTyped
<1>6. ASSUME NEW statement \in Statements,
             pc' = [pc EXCEPT ![t] = statement], UNCHANGED job
      PROVE  ThreadsTyped'
  BY <1>1, <1>6 DEF ThreadsTyped
<1>7. {"idle", "converge", "clear", "reopen", "note", "persist", "commit"}
         \subseteq Statements
  BY DEF Statements
<1>8. CASE Commit(t)
  <2>1. ThreadsTyped'
    BY <1>5, <1>6, <1>7, <1>8 DEF Commit
  <2>2. rows' \in [ExitOrders -> Row]
    <3>1. CASE UNCHANGED rows
      BY <3>1 DEF TypeOK
    <3>2. ASSUME NEW row \in Row,
                 rows' = [rows EXCEPT ![job[t].order] = row]
          PROVE  rows' \in [ExitOrders -> Row]
      BY <3>2 DEF TypeOK
    <3>. QED
      BY <1>2, <1>3, <1>8, <3>1, <3>2, RowsStayRows DEF Commit
  <2>. QED
    BY <1>8, <2>1, <2>2 DEF Commit, TypeOK, ThreadsTyped
<1>9. CASE Converge(t)
  <2>1. position' \in Position /\ mark' \in [ExitOrders -> Quantity]
    BY <1>2, <1>9, ProjectTyped DEF Converge, TypeOK
  <2>2. ThreadsTyped'
    <3>1. \A o : Result(o) \in {"none", "partial", "full"}
      BY DEF Result
    <3>2. ASSUME pc' = [pc EXCEPT ![t] = "note"],
                 job' = [job EXCEPT ![t].result = Result(job[t].order),
                                    ![t].count = rows[job[t].order].filled]
          PROVE  ThreadsTyped'
      BY <1>1, <1>2, <1>4, <1>7, <3>1, <3>2 DEF ThreadsTyped, Job
    <3>. QED
      BY <1>5, <1>9, <3>2 DEF Converge
  <2>. QED
    BY <1>9, <2>1, <2>2 DEF Converge, TypeOK, ThreadsTyped
<1>10. CASE Note(t)
  <2>1. engine' \in ManagedPosition
    <3>1. CASE engine' = Over([engine EXCEPT !.remaining = 0])
      <4>1. 0 \in Quantity /\ engine \in ManagedPosition
        BY PositionQtyAssumption DEF Quantity, TypeOK
      <4>2. [engine EXCEPT !.remaining = 0] \in ManagedPosition
        BY <4>1 DEF ManagedPosition
      <4>. QED
        BY <3>1, <4>2, ReleasedTyped
    <3>. QED
      BY <1>2, <1>10, <3>1, NotedTyped DEF Note, TypeOK
  <2>2. ThreadsTyped'
    <3>1. ASSUME job[t].count > engine.noted[job[t].order],
                 pc' = [pc EXCEPT ![t] = "persist"],
                 job' = [job EXCEPT ![t].count =
                            Noted(job[t].order, job[t].count).remaining]
          PROVE  ThreadsTyped'
      <4>1. Noted(job[t].order, job[t].count).remaining \in Quantity
        BY <1>2, <3>1, NotedTyped DEF ManagedPosition
      <4>. QED
        BY <1>1, <1>2, <1>7, <3>1, <4>1 DEF ThreadsTyped, Job
    <3>. QED
      BY <1>5, <1>10, <3>1 DEF Note
  <2>. QED
    BY <1>10, <2>1, <2>2 DEF Note, TypeOK, ThreadsTyped
<1>11. CASE Persist(t)
  BY <1>2, <1>5, <1>11 DEF Persist, TypeOK, Position, ThreadsTyped
<1>12. CASE Again(t)
  <2>1. position' \in Position /\ mark' \in [ExitOrders -> Quantity]
    BY <1>2, <1>12, ProjectTyped DEF Again, TypeOK
  <2>2. ThreadsTyped'
    <3>1. Ended(job[t].order) \in Request
      BY <1>2, RequestsAreRequests
    <3>2. ASSUME pc' = [pc EXCEPT ![t] = "commit"],
                 job' = [job EXCEPT ![t].req = Ended(job[t].order),
                                    ![t].then = "nothing"]
          PROVE  ThreadsTyped'
      BY <1>1, <1>2, <1>7, <3>1, <3>2 DEF ThreadsTyped, Job
    <3>. QED
      BY <1>5, <1>12, <3>2 DEF Again
  <2>. QED
    BY <1>12, <2>1, <2>2 DEF Again, TypeOK, ThreadsTyped
<1>13. CASE Clear(t)
  <2>1. ThreadsTyped'
    BY <1>5, <1>6, <1>7, <1>13 DEF Clear
  <2>2. engine' \in ManagedPosition
    BY <1>13, ReleasedTyped DEF Clear, TypeOK
  <2>. QED
    BY <1>13, <2>1, <2>2 DEF Clear, TypeOK, ThreadsTyped
<1>14. CASE Reopen(t)
  <2>1. ThreadsTyped'
    BY <1>5, <1>14 DEF Reopen
  <2>2. engine' \in ManagedPosition /\ position' \in Position
    BY <1>14, ReleasedTyped DEF Reopen, TypeOK, Position
  <2>. QED
    BY <1>14, <2>1, <2>2 DEF Reopen, TypeOK, ThreadsTyped
<1>. QED
  BY <1>8, <1>9, <1>10, <1>11, <1>12, <1>13, <1>14 DEF Continue

LEMMA PrecheckTyped ==
    ASSUME TypeOK, Observe \/ SyncRow \/ SyncEngine
    PROVE  TypeOK'
<1>1. /\ sight.qty \in Quantity
      /\ 0 \in Quantity
      /\ \A o \in ExitOrders : rows[o] \in Row
  BY PositionQtyAssumption DEF TypeOK, Quantity
<1>2. ASSUME NEW o \in ExitOrders
      PROVE  /\ rows[o].filled \in Quantity
             /\ rows[o].filled \in Nat
             /\ Asked[o] \in Quantity
  <2>1. rows[o].filled \in 0..PositionQty
    BY <1>1 DEF Row
  <2>. QED
    BY <2>1, AskedAssumption, PositionQtyAssumption DEF Quantity
<1>3. NoSight \in [pc : {"idle", "observed", "synced"}, qty : Quantity]
  BY <1>1 DEF NoSight
<1>4. CASE Observe
  BY <1>4 DEF Observe, TypeOK
<1>5. CASE SyncRow
  <2>1. Synced(sight.qty) \in Position
    BY <1>1 DEF Synced, Position, TypeOK
  <2>. QED
    BY <1>3, <1>5, <2>1 DEF SyncRow, TypeOK
<1>6. CASE SyncEngine
  <2>1. [engine EXCEPT !.remaining = sight.qty] \in ManagedPosition
    BY <1>1 DEF TypeOK, ManagedPosition
  <2>2. ASSUME NEW p \in ExitOrders \cup {NoOrder}
        PROVE  Installed(sight.qty, p) \in ManagedPosition
    <3> DEFINE some == p # NoOrder
               asked == IF p = NoOrder THEN 0 ELSE Asked[p]
               filled == IF p = NoOrder THEN 0 ELSE rows[p].filled
               noted == [q \in ExitOrders |->
                            IF q = p THEN rows[q].filled ELSE 0]
    <3>1. /\ some \in BOOLEAN
          /\ asked \in Quantity
          /\ filled \in Nat
          /\ noted \in [ExitOrders -> Quantity]
      BY <1>1, <1>2
    <3>2. Installed(sight.qty, p) =
             [remaining |-> sight.qty, closed |-> FALSE, inFlight |-> some,
              pending |-> p, qty |-> asked, filled |-> filled,
              scale |-> FALSE, noted |-> noted, generation |-> 0]
      BY DEF Installed
    <3>. HIDE DEF some, asked, filled, noted
    <3>. QED
      BY <1>1, <3>1, <3>2 DEF ManagedPosition
  <2>. QED
    BY <1>3, <1>6, <2>1, <2>2 DEF SyncEngine, TypeOK
<1>. QED
  BY <1>4, <1>5, <1>6

\* Every variable keeps its type; in particular neither copy of the position
\* nor a watermark ever leaves the range of the position's quantity.
THEOREM TypeCorrect == Spec => []TypeOK
<1>1. Init => TypeOK
  <2>1. NewRow("EXIT") \in Row
    BY PositionQtyAssumption DEF NewRow, Row, Errors, Status, ExitActive
  <2>2. 0 \in Quantity /\ PositionQty \in Quantity
    BY PositionQtyAssumption DEF Quantity
  <2>3. /\ NoSubmission \in Submission
        /\ NoSight \in [pc : {"idle", "observed", "synced"}, qty : Quantity]
    <3>1. (CHOOSE o \in ExitOrders : TRUE) \in ExitOrders
      BY ExitOrdersAssumption
    <3>. QED
      BY <2>2, <3>1 DEF NoSubmission, Submission, NoSight
  <2>. QED
    BY <2>1, <2>2, <2>3, NoJobIsAJob
    DEF Init, TypeOK, AtBroker, Position, ManagedPosition, Statements
<1>2. TypeOK /\ [Next]_vars => TypeOK'
  <2>. SUFFICES ASSUME TypeOK, [Next]_vars PROVE TypeOK'
    OBVIOUS
  <2>1. CASE UNCHANGED vars
    BY <2>1 DEF vars, TypeOK
  <2>. QED
    BY <2>1, OrderStepsTyped, SubmitStepsTyped, ThreadStepsTyped,
       PrecheckTyped
    DEF Next, Submits
<1>. QED
  BY <1>1, <1>2, PTL DEF Spec

-----------------------------------------------------------------------------
(* No contract is applied that was not executed. *)

\* The chain from the broker to the position, with the calls that are under
\* way: what a call reports was executed when it was begun, and the broker
\* never takes an execution back.
JobsExecuted ==
    \A t \in Threads :
        /\ job[t].req.fill =< broker[job[t].order].executed
        /\ job[t].then = "filled" =>
              broker[job[t].order].executed = Asked[job[t].order]

Executed ==
    /\ AppliedWereExecuted
    /\ \A o \in ExitOrders : holdings + broker[o].executed =< PositionQty
    /\ JobsExecuted

\* The convergence raises a watermark to the durable fill of its order.
LEMMA ProjectExecuted ==
    ASSUME TypeOK, AppliedWereExecuted, NEW o \in ExitOrders, Project(o),
           UNCHANGED <<rows, broker>>
    PROVE  AppliedWereExecuted'
<1>1. \A p \in ExitOrders : rows[p].filled \in 0..PositionQty
  BY DEF TypeOK, Row
<1>2. \A p \in ExitOrders : mark'[p] = mark[p] \/ mark'[p] = rows[p].filled
  BY DEF Project, TypeOK
<1>. QED
  BY <1>1, <1>2 DEF AppliedWereExecuted

\* A submission moves no contract.
LEMMA SubmitSteps ==
    ASSUME TypeOK, Submits
    PROVE  /\ UNCHANGED <<holdings, mark, position, pc, job, sight>>
           /\ \A p \in ExitOrders :
                 /\ broker'[p].executed = broker[p].executed
                 /\ rows'[p].filled = rows[p].filled
<1>1. UNCHANGED <<holdings, mark, position, pc, job, sight>>
  BY DEF Submits, Decide, GiveUp, Post, Submitted, Tell, MarkSubmitted, Own
<1>2. submit.order \in ExitOrders
  BY DEF TypeOK, Submission
<1>3. \/ UNCHANGED broker
      \/ broker' = [broker EXCEPT ![submit.order].state = "working"]
  BY DEF Submits, Decide, GiveUp, Post, Submitted, Tell, MarkSubmitted, Own
<1>4. UNCHANGED rows \/ Submitted
  BY DEF Submits, Decide, GiveUp, Post, Tell, MarkSubmitted, Own
<1>5. \A p \in ExitOrders : broker'[p].executed = broker[p].executed
  BY <1>2, <1>3 DEF TypeOK, AtBroker
<1>6. \A p \in ExitOrders : rows'[p].filled = rows[p].filled
  BY <1>2, <1>4 DEF Submitted, TypeOK, Row
<1>. QED
  BY <1>1, <1>5, <1>6

LEMMA OrderStepsExecuted ==
    ASSUME TypeOK, Executed, NEW o \in ExitOrders,
           \/ Execute(o) \/ EndAtBroker(o)
           \/ Poll(o) \/ Reconcile(o) \/ StaleAcknowledged(o) \/ Heal(o)
    PROVE  Executed'
<1>1. \A p \in ExitOrders : /\ broker[p] \in AtBroker
                            /\ rows[p] \in Row
                            /\ mark[p] \in Quantity
  BY DEF TypeOK
<1>2. \A p \in ExitOrders : /\ broker[p].executed \in Quantity
                            /\ rows[p].filled \in Quantity
  BY <1>1 DEF AtBroker, Row, Quantity
<1>3. \A t \in Threads : /\ job[t].order \in ExitOrders
                         /\ job[t].req \in Request
  BY DEF TypeOK, Job
<1>4. \A t \in Threads : job[t].req.fill \in NoFill..PositionQty
  BY <1>3 DEF Request
<1>6. CASE Execute(o)
  <2>1. \A p \in ExitOrders :
           broker'[p].executed = IF p = o THEN broker[p].executed + 1
                                 ELSE broker[p].executed
    BY <1>1, <1>6 DEF Execute, TypeOK, AtBroker
  <2>2. holdings' = holdings - 1 /\ holdings \in 0..PositionQty
    BY <1>6 DEF Execute, TypeOK, Quantity
  <2>3. broker[o].executed < Asked[o] /\ Asked[o] \in 1..PositionQty
    BY <1>6, AskedAssumption DEF Execute
  <2>4. AppliedWereExecuted'
    BY <1>1, <1>2, <1>6, <2>1, PositionQtyAssumption
    DEF Execute, Executed, JobsExecuted, AppliedWereExecuted, Quantity
  <2>5. \A p \in ExitOrders : holdings' + broker'[p].executed =< PositionQty
    BY <1>2, <2>1, <2>2, PositionQtyAssumption
    DEF Executed, JobsExecuted, Quantity
  <2>6. ASSUME NEW t \in Threads
        PROVE  /\ job[t].req.fill =< broker'[job[t].order].executed
               /\ job[t].then = "filled" =>
                     broker'[job[t].order].executed = Asked[job[t].order]
    <3>1. job[t].req.fill =< broker'[job[t].order].executed
      BY <1>2, <1>3, <1>4, <2>1, PositionQtyAssumption
      DEF Executed, JobsExecuted, Quantity, NoFill
    <3>2. job[t].then = "filled" => job[t].order # o
      BY <1>2, <2>3, PositionQtyAssumption DEF Executed, JobsExecuted, Quantity
    <3>. QED
      BY <1>3, <2>1, <3>1, <3>2 DEF Executed, JobsExecuted
  <2>. QED
    BY <1>6, <2>4, <2>5, <2>6 DEF Execute, Executed, JobsExecuted
<1>7. CASE EndAtBroker(o)
  <2>1. \A p \in ExitOrders : broker'[p].executed = broker[p].executed
    BY <1>1, <1>7 DEF EndAtBroker, TypeOK, AtBroker
  <2>. QED
    BY <1>3, <1>7, <2>1
    DEF EndAtBroker, Executed, JobsExecuted, AppliedWereExecuted
<1>8. ASSUME NEW t \in Threads, NEW req,
             NEW then, Begin(t, o, req, then),
             req.fill =< broker[o].executed,
             then = "filled" => FilledAtBroker(o)
      PROVE  Executed'
  <2>1. \A v \in Threads : /\ v # t => job'[v] = job[v]
                           /\ v = t => /\ job'[v].order = o
                                       /\ job'[v].req = req
                                       /\ job'[v].then = then
    BY <1>8 DEF Begin, TypeOK
  <2>. QED
    BY <1>8, <2>1
    DEF Begin, Executed, JobsExecuted, AppliedWereExecuted, FilledAtBroker
<1>9. /\ \A s, n : FillReport(o, s, n).fill = n
      /\ \A bid : Ended(bid).fill =< broker[o].executed
      /\ [MoveTo("EXIT_ACKNOWLEDGED") EXCEPT !.bid = o].fill =<
            broker[o].executed
      /\ broker[o].executed =< broker[o].executed
  BY <1>2, PositionQtyAssumption
  DEF FillReport, Ended, MoveTo, NoFill, Quantity
<1>10. CASE Poll(o)
  <2> DEFINE ack == [MoveTo("EXIT_ACKNOWLEDGED") EXCEPT !.bid = o]
  <2>1. ack.fill =< broker[o].executed
    BY <1>9
  <2>. HIDE DEF ack
  <2>2. ASSUME Begin("monitor", o, ack, "nothing") PROVE Executed'
    BY <1>8, <2>1, <2>2 DEF Threads
  <2>3. ASSUME NEW s, NEW then \in {"nothing", "end"},
               \/ Begin("monitor", o, FillReport(o, s, broker[o].executed),
                        then)
               \/ Begin("monitor", o, Ended(o), then)
        PROVE  Executed'
    BY <1>8, <1>9, <2>3 DEF Threads
  <2>. QED
    BY <1>10, <2>2, <2>3 DEF Poll, ack
<1>11. CASE Reconcile(o)
  <2>1. rows[o].filled =< broker[o].executed
    BY DEF Executed, JobsExecuted, AppliedWereExecuted
  <2>. QED
    BY <1>8, <1>9, <1>11, <2>1 DEF Reconcile, Threads
<1>12. CASE StaleAcknowledged(o)
  BY <1>8, <1>9, <1>12 DEF StaleAcknowledged, Threads
<1>13. CASE Heal(o)
  BY <1>13, ProjectExecuted DEF Heal, Executed, JobsExecuted
<1>. QED
  BY <1>6, <1>7, <1>10, <1>11, <1>12, <1>13

\* However a thread goes on: the second report of the reconciler is the
\* complete fill it saw at the broker.
LEMMA ContinuationsExecuted ==
    ASSUME TypeOK, JobsExecuted, NEW t \in Threads, UNCHANGED broker,
           Leave(t) \/ Failed(t) \/ Succeeded(t)
    PROVE  JobsExecuted'
<1>1. job \in [Threads -> Job] /\ job[t].order \in ExitOrders
  BY DEF TypeOK, Job
<1>2. CASE Leave(t)
  <2>1. /\ NoJob.req.fill = NoFill
        /\ NoJob.then = "nothing"
        /\ NoJob.order \in ExitOrders
    BY NoJobIsAJob DEF NoJob, MoveTo, Job
  <2>2. broker[NoJob.order].executed \in Quantity
    BY <2>1 DEF TypeOK, AtBroker
  <2>3. NoJob.req.fill =< broker[NoJob.order].executed
    BY <2>1, <2>2, PositionQtyAssumption DEF NoFill, Quantity
  <2>. QED
    BY <1>1, <1>2, <2>1, <2>3 DEF Leave, JobsExecuted
<1>3. CASE Second(t) /\ job[t].then = "filled"
  <2>1. /\ job'[t].order = job[t].order
        /\ job'[t].req.fill = Asked[job[t].order]
        /\ job'[t].then = "nothing"
        /\ \A v \in Threads : v # t => job'[v] = job[v]
    BY <1>1, <1>3 DEF Second, FillReport, MoveTo, Job
  <2>2. broker[job[t].order].executed = Asked[job[t].order]
    BY <1>3 DEF JobsExecuted
  <2>3. Asked[job[t].order] =< Asked[job[t].order]
    BY <1>1, AskedAssumption
  <2>. QED
    BY <2>1, <2>2, <2>3 DEF JobsExecuted
<1>4. CASE UNCHANGED job
  BY <1>4 DEF JobsExecuted
<1>. QED
  BY <1>2, <1>3, <1>4 DEF Failed, Succeeded

LEMMA ThreadStepsExecuted ==
    ASSUME TypeOK, Executed, NEW t \in Threads, Continue(t)
    PROVE  Executed'
<1>1. UNCHANGED <<holdings, broker>>
  BY DEF Continue, Commit, Converge, Note, Persist, Again, Clear, Reopen
<1>2. /\ job \in [Threads -> Job]
      /\ job[t].order \in ExitOrders
      /\ job[t].req \in Request
  BY DEF TypeOK, Job
<1>3. rows[job[t].order] \in Row /\ mark[job[t].order] \in Quantity
  BY <1>2 DEF TypeOK
<1>4. JobsExecuted'
  <2>1. \/ Leave(t) \/ Failed(t) \/ Succeeded(t)
        \/ UNCHANGED job
        \/ job' = [job EXCEPT ![t].req = Ended(job[t].order),
                              ![t].then = "nothing"]
        \/ \E n : job' = [job EXCEPT ![t].count = n]
        \/ \E r, n : job' = [job EXCEPT ![t].result = r, ![t].count = n]
    BY DEF Continue, Commit, Converge, Note, Persist, Again, Clear, Reopen
  <2>2. CASE job' = [job EXCEPT ![t].req = Ended(job[t].order),
                                ![t].then = "nothing"]
    <3>1. /\ job'[t].order = job[t].order
          /\ job'[t].req.fill = NoFill
          /\ job'[t].then = "nothing"
          /\ \A v \in Threads : v # t => job'[v] = job[v]
      BY <1>2, <2>2 DEF Ended, MoveTo, Job
    <3>2. broker[job[t].order].executed \in Quantity
      BY <1>2 DEF TypeOK, AtBroker
    <3>3. NoFill =< broker[job[t].order].executed
      BY <3>2, PositionQtyAssumption DEF NoFill, Quantity
    <3>. QED
      BY <1>1, <3>1, <3>3 DEF Executed, JobsExecuted
  <2>3. CASE \/ \E n : job' = [job EXCEPT ![t].count = n]
             \/ \E r, n : job' = [job EXCEPT ![t].result = r, ![t].count = n]
    <3> DEFINE Same(v) == /\ job'[v].order = job[v].order
                          /\ job'[v].req = job[v].req
                          /\ job'[v].then = job[v].then
    <3>1. ASSUME NEW n, job' = [job EXCEPT ![t].count = n], NEW v \in Threads
          PROVE  Same(v)
      BY <1>2, <3>1 DEF Job
    <3>2. ASSUME NEW r, NEW n, NEW v \in Threads,
                 job' = [job EXCEPT ![t].result = r, ![t].count = n]
          PROVE  Same(v)
      BY <1>2, <3>2 DEF Job
    <3>. HIDE DEF Same
    <3>3. \A v \in Threads : Same(v)
      <4>1. CASE \E n : job' = [job EXCEPT ![t].count = n]
        <5>1. PICK n : job' = [job EXCEPT ![t].count = n]
          BY <4>1
        <5>. QED
          BY <3>1, <5>1
      <4>2. CASE \E r, n : job' = [job EXCEPT ![t].result = r, ![t].count = n]
        <5>1. PICK r, n :
                 job' = [job EXCEPT ![t].result = r, ![t].count = n]
          BY <4>2
        <5>. QED
          BY <3>2, <5>1
      <4>. QED
        BY <2>3, <4>1, <4>2
    <3>. QED
      BY <1>1, <3>3 DEF Executed, JobsExecuted, Same
  <2>4. CASE UNCHANGED job
    BY <1>1, <2>4 DEF Executed, JobsExecuted
  <2>5. CASE Leave(t) \/ Failed(t) \/ Succeeded(t)
    <3>1. JobsExecuted /\ UNCHANGED broker
      BY <1>1 DEF Executed
    <3>. QED
      BY <2>5, <3>1, ContinuationsExecuted
  <2>. QED
    BY <2>1, <2>2, <2>3, <2>4, <2>5
<1>5. AppliedWereExecuted'
  <2>1. CASE Commit(t)
    <3>1. \A p \in ExitOrders : p # job[t].order => rows'[p] = rows[p]
      BY <1>2, <2>1 DEF Commit, TypeOK
    <3>2. /\ rows'[job[t].order].filled >= rows[job[t].order].filled
          /\ rows'[job[t].order].filled =< broker[job[t].order].executed
      <4> DEFINE o == job[t].order
                 req == job[t].req
      <4>1. /\ rows[o].filled \in 0..PositionQty
            /\ req.fill \in NoFill..PositionQty
            /\ broker[o].executed \in Quantity
        BY <1>2, <1>3 DEF Row, Request, TypeOK, AtBroker
      <4>2. /\ rows[o].filled =< broker[o].executed
            /\ req.fill =< broker[o].executed
        BY <1>2 DEF Executed, AppliedWereExecuted, JobsExecuted
      <4>3. \/ rows' = rows
            \/ /\ ~Refused(rows[o], req)
               /\ rows' = [rows EXCEPT ![o] = Updated(rows[o], req)]
            \/ rows' = [rows EXCEPT ![o] = ErrorRecorded(rows[o])]
        BY <2>1 DEF Commit
      <4>4. ErrorRecorded(rows[o]).filled = rows[o].filled
        BY <1>3 DEF ErrorRecorded, Row
      <4>5. Updated(rows[o], req).filled =
               IF req.fill = NoFill THEN rows[o].filled ELSE req.fill
        BY <1>3 DEF Updated, Row
      <4>6. ~Refused(rows[o], req) =>
               req.fill = NoFill \/ req.fill >= rows[o].filled
        BY <4>1, PositionQtyAssumption DEF Refused, FillRegresses, NoFill
      <4>7. \/ rows'[o].filled = rows[o].filled
            \/ /\ rows'[o].filled = req.fill
               /\ req.fill >= rows[o].filled
        BY <1>2, <4>3, <4>4, <4>5, <4>6 DEF TypeOK
      <4>. QED
        BY <4>1, <4>2, <4>7, PositionQtyAssumption DEF Quantity
    <3>3. \A p \in ExitOrders : mark'[p] = mark[p] /\ rows[p].filled \in Int
                                /\ mark[p] \in Int
      BY <2>1 DEF Commit, TypeOK, Row, Quantity
    <3>4. rows'[job[t].order].filled \in Int
      BY <1>2, <2>1, ThreadStepsTyped DEF TypeOK, Row
    <3>. QED
      BY <1>1, <1>2, <3>1, <3>2, <3>3, <3>4 DEF Executed, AppliedWereExecuted
  <2>2. CASE ~Commit(t) /\ Project(job[t].order)
    <3>1. UNCHANGED rows
      BY <2>2 DEF Continue, Converge, Note, Persist, Again, Clear, Reopen
    <3>. QED
      BY <1>1, <1>2, <2>2, <3>1, ProjectExecuted DEF Executed
  <2>3. CASE UNCHANGED <<mark, rows>>
    BY <1>1, <2>3 DEF Executed, AppliedWereExecuted
  <2>. QED
    BY <2>1, <2>2, <2>3
    DEF Continue, Converge, Note, Persist, Again, Clear, Reopen
<1>. QED
  BY <1>1, <1>4, <1>5 DEF Executed

LEMMA ExecutedStays ==
    ASSUME TypeOK, Executed, [Next]_vars
    PROVE  Executed'
<1>1. CASE UNCHANGED vars
  BY <1>1 DEF vars, Executed, AppliedWereExecuted, JobsExecuted
<1>2. CASE Observe \/ SyncRow \/ SyncEngine
  <2>1. UNCHANGED <<holdings, broker, rows, mark, job>>
    BY <1>2 DEF Observe, SyncRow, SyncEngine
  <2>. QED
    BY <2>1 DEF Executed, AppliedWereExecuted, JobsExecuted
<1>3. CASE Submits
  <2>1. \A t \in Threads : job[t].order \in ExitOrders
    BY DEF TypeOK, Job
  <2>. QED
    BY <1>3, <2>1, SubmitSteps DEF Executed, AppliedWereExecuted, JobsExecuted
<1>. QED
  BY <1>1, <1>2, <1>3, OrderStepsExecuted, ThreadStepsExecuted
  DEF Next, Submits

THEOREM OnlyExecutedReported == Spec => []Executed
<1>1. Init => Executed
  <2>. SUFFICES ASSUME Init PROVE Executed
    OBVIOUS
  <2>1. /\ NoJob.req.fill = NoFill
        /\ NoJob.then = "nothing"
        /\ NoJob.order \in ExitOrders
    BY NoJobIsAJob DEF NoJob, MoveTo, Job
  <2>. QED
    BY <2>1, PositionQtyAssumption
    DEF Init, Executed, AppliedWereExecuted, JobsExecuted, NewRow, NoFill
<1>2. TypeOK /\ Executed /\ [Next]_vars => Executed'
  BY ExecutedStays
<1>. QED
  BY <1>1, <1>2, TypeCorrect, PTL DEF Spec

\* For any number of orders and contracts, and with the precheck: what is
\* applied to the position was durable before, and that was executed before.
THEOREM AppliedIsExecuted == Spec => []AppliedWereExecuted
<1>1. Executed => AppliedWereExecuted
  BY DEF Executed
<1>. QED
  BY <1>1, OnlyExecutedReported, PTL

-----------------------------------------------------------------------------
(* A closed position is flat. *)

\* Only a convergence closes a position, and it does so when its order has
\* executed the whole quantity of the position.
LEMMA ProjectCloses ==
    ASSUME TypeOK, Executed, NEW o \in ExitOrders, Converges(o), Project(o),
           position'.status = "CLOSED", position.status # "CLOSED"
    PROVE  holdings = 0
<1>1. position' = Projected(o)
  BY DEF Project
<1>2. Delta(o) = position.remaining
  BY <1>1 DEF Projected
<1>3. /\ rows[o].filled = PositionQty
      /\ rows[o].filled =< broker[o].executed
      /\ holdings + broker[o].executed =< PositionQty
  <2>1. /\ position.remaining - Delta(o) = PositionQty - rows[o].filled
        /\ rows[o].filled \in Quantity
        /\ position.remaining \in Quantity
    BY ConvergenceFits DEF TypeOK, Position
  <2>2. rows[o].filled = PositionQty
    BY <1>2, <2>1, PositionQtyAssumption DEF Quantity
  <2>. QED
    BY <2>2 DEF Executed, AppliedWereExecuted
<1>4. holdings \in Quantity /\ broker[o].executed \in Quantity
  BY DEF TypeOK, AtBroker
<1>. QED
  BY <1>3, <1>4, PositionQtyAssumption DEF Quantity

\* The one outcome that must not happen: a position that nobody looks after
\* any more while the account still holds contracts of it.
THEOREM ClosedIsFlat == Spec => []ClosedOnlyWhenFlat
<1>1. Init => ClosedOnlyWhenFlat
  BY DEF Init, ClosedOnlyWhenFlat
<1>2. TypeOK /\ Executed /\ ClosedOnlyWhenFlat /\ [Next]_vars
        => ClosedOnlyWhenFlat'
  <2>. SUFFICES ASSUME TypeOK, Executed, ClosedOnlyWhenFlat, [Next]_vars,
                       position'.status = "CLOSED"
                PROVE  holdings' = 0
    BY DEF ClosedOnlyWhenFlat
  <2>1. holdings' = holdings \/ \E o \in ExitOrders : Execute(o)
    BY SubmitSteps
    DEF Next, Submits, vars, EndAtBroker, Poll, Reconcile, StaleAcknowledged,
        Heal, Begin, Continue, Commit, Converge, Note, Persist, Again, Clear,
        Reopen, Observe, SyncRow, SyncEngine
  <2>2. CASE position.status = "CLOSED"
    <3>1. holdings = 0
      BY <2>2 DEF ClosedOnlyWhenFlat
    <3>. QED
      BY <2>1, <3>1 DEF Execute
  <2>3. CASE position.status # "CLOSED"
    <3>1. ASSUME NEW o \in ExitOrders, Heal(o)
          PROVE  holdings' = 0
      BY <2>3, <3>1, ProjectCloses DEF Heal
    <3>2. ASSUME NEW t \in Threads, Continue(t)
          PROVE  holdings' = 0
      <4>1. job[t].order \in ExitOrders /\ position \in Position
        BY DEF TypeOK, Job
      <4>2. holdings' = holdings
        BY <3>2 DEF Continue, Commit, Converge, Note, Persist, Again, Clear,
                    Reopen
      <4>3. CASE Converges(job[t].order) /\ Project(job[t].order)
        BY <2>3, <4>1, <4>2, <4>3, ProjectCloses
      <4>4. CASE UNCHANGED position \/ Persist(t) \/ Reopen(t)
        <5>1. position'.status \in {position.status, "OPEN"}
          BY <4>1, <4>4 DEF Persist, Reopen, Position
        <5>. QED
          BY <2>3, <5>1
      <4>. QED
        BY <3>2, <4>3, <4>4 DEF Continue, Commit, Converge, Note, Again, Clear
    <3>3. ASSUME SyncRow PROVE FALSE
      <4>1. position' = position \/ position' = Synced(sight.qty)
        BY <3>3 DEF SyncRow
      <4>2. Synced(sight.qty).status # "CLOSED"
        BY DEF Synced, TypeOK, Position
      <4>. QED
        BY <2>3, <4>1, <4>2
    <3>4. ASSUME NEW o \in ExitOrders,
                 \/ Execute(o) \/ EndAtBroker(o)
                 \/ Poll(o) \/ Reconcile(o) \/ StaleAcknowledged(o)
          PROVE  FALSE
      <4>1. UNCHANGED position
        BY <3>4 DEF Execute, EndAtBroker, Poll, Reconcile, StaleAcknowledged,
                    Begin
      <4>. QED
        BY <2>3, <4>1
    <3>5. CASE UNCHANGED vars \/ Submits \/ Observe \/ SyncEngine
      BY <2>3, <3>5, SubmitSteps DEF vars, Observe, SyncEngine
    <3>. QED
      BY <3>1, <3>2, <3>3, <3>4, <3>5 DEF Next, Submits
  <2>. QED
    BY <2>2, <2>3
<1>. QED
  BY <1>1, <1>2, TypeCorrect, OnlyExecutedReported, PTL DEF Spec

-----------------------------------------------------------------------------
(* What a step may do to one part of the state. *)

LEMMA BrokerSteps ==
    ASSUME [Next]_vars
    PROVE  \/ UNCHANGED <<holdings, broker>>
           \/ Post
           \/ \E o \in ExitOrders : Execute(o) \/ EndAtBroker(o)
BY DEF Next, vars, Decide, GiveUp, Submitted, Tell, MarkSubmitted, Own, Poll,
       Reconcile, StaleAcknowledged, Heal, Begin, Continue, Commit, Converge,
       Note, Persist, Again, Clear, Reopen, Observe, SyncRow, SyncEngine

\* Only a convergence moves a watermark.
LEMMA PositionSteps ==
    ASSUME TypeOK, [Next]_vars
    PROVE  \/ \E o \in ExitOrders :
                 /\ Converges(o) /\ Project(o)
                 /\ UNCHANGED <<holdings, broker, rows, engine, sight>>
           \/ /\ UNCHANGED mark
              /\ \/ UNCHANGED position
                 \/ \E t \in Threads : Persist(t)
                 \/ /\ position.status = "CLOSING"
                    /\ position' = [position EXCEPT !.status = "OPEN"]
                 \/ /\ sight.pc = "observed" /\ RowOpen
                    /\ position' = Synced(sight.qty)
<1>1. ASSUME NEW o \in ExitOrders,
             \/ Execute(o) \/ EndAtBroker(o)
             \/ Poll(o) \/ Reconcile(o) \/ StaleAcknowledged(o)
      PROVE  UNCHANGED <<mark, position>>
  BY <1>1 DEF Execute, EndAtBroker, Poll, Reconcile, StaleAcknowledged, Begin
<1>2. ASSUME NEW o \in ExitOrders, Heal(o)
      PROVE  /\ Converges(o) /\ Project(o)
             /\ UNCHANGED <<holdings, broker, rows, engine, sight>>
  BY <1>2 DEF Heal
<1>3. ASSUME NEW t \in Threads, Commit(t) \/ Note(t) \/ Clear(t)
      PROVE  UNCHANGED <<mark, position>>
  BY <1>3 DEF Commit, Note, Clear
<1>4. ASSUME NEW t \in Threads, Converge(t) \/ Again(t)
      PROVE  \/ UNCHANGED <<mark, position>>
             \/ /\ job[t].order \in ExitOrders
                /\ Converges(job[t].order) /\ Project(job[t].order)
                /\ UNCHANGED <<holdings, broker, rows, engine, sight>>
  BY <1>4 DEF Converge, Again, TypeOK, Job
<1>5. ASSUME NEW t \in Threads, Persist(t) \/ Reopen(t)
      PROVE  /\ UNCHANGED mark
             /\ \/ Persist(t)
                \/ UNCHANGED position
                \/ /\ position.status = "CLOSING"
                   /\ position' = [position EXCEPT !.status = "OPEN"]
  BY <1>5 DEF Persist, Reopen
<1>6. ASSUME UNCHANGED vars \/ Submits \/ Observe \/ SyncEngine
      PROVE  UNCHANGED <<mark, position>>
  BY <1>6, SubmitSteps DEF vars, Observe, SyncEngine
<1>7. ASSUME SyncRow
      PROVE  /\ UNCHANGED mark
             /\ \/ UNCHANGED position
                \/ /\ sight.pc = "observed" /\ RowOpen
                   /\ position' = Synced(sight.qty)
  BY <1>7 DEF SyncRow
<1>. QED
  BY <1>1, <1>2, <1>3, <1>4, <1>5, <1>6, <1>7 DEF Next, Continue, Submits

\* Outside a submission the engine's position is told of a fill, waits for
\* no order any more, or is overwritten by the precheck.
LEMMA EngineSteps ==
    ASSUME [Next]_vars
    PROVE  \/ UNCHANGED submit
              /\ \/ UNCHANGED engine
                 \/ \E t \in Threads : Note(t)
                 \/ engine' = Released(engine)
                 \/ SyncEngine
           \/ Submits
<1>1. ASSUME NEW o \in ExitOrders,
             \/ Execute(o) \/ EndAtBroker(o) \/ Poll(o) \/ Reconcile(o)
             \/ StaleAcknowledged(o) \/ Heal(o)
      PROVE  UNCHANGED <<engine, submit>>
  BY <1>1 DEF Execute, EndAtBroker, Poll, Reconcile, StaleAcknowledged, Heal,
              Begin
<1>2. ASSUME NEW t \in Threads,
             Commit(t) \/ Converge(t) \/ Persist(t) \/ Again(t)
      PROVE  UNCHANGED <<engine, submit>>
  BY <1>2 DEF Commit, Converge, Persist, Again
<1>3. ASSUME NEW t \in Threads, Clear(t) \/ Reopen(t)
      PROVE  /\ UNCHANGED submit
             /\ UNCHANGED engine \/ engine' = Released(engine)
  BY <1>3 DEF Clear, Reopen
<1>4. ASSUME UNCHANGED vars \/ Observe \/ SyncRow
      PROVE  UNCHANGED <<engine, submit>>
  BY <1>4 DEF vars, Observe, SyncRow
<1>5. ASSUME NEW t \in Threads, Note(t)
      PROVE  UNCHANGED submit
  BY <1>5 DEF Note
<1>6. ASSUME SyncEngine
      PROVE  UNCHANGED submit
  BY <1>6 DEF SyncEngine
<1>. QED
  BY <1>1, <1>2, <1>3, <1>4, <1>5, <1>6 DEF Next, Continue, Submits

\* A thread comes to the engine's memory from a convergence that found
\* something to tell, and to the write of a scale-out from the engine's memory.
Converged(t) ==
    LET o == job[t].order IN
    /\ Converges(o) /\ Project(o)
    /\ Result(o) # "none"
    /\ job' = [job EXCEPT ![t].result = Result(o), ![t].count = rows[o].filled]
    /\ UNCHANGED <<holdings, broker, rows, engine, sight>>

ScaledOut(t) ==
    LET o == job[t].order
        count == job[t].count
    IN
    /\ pc[t] = "note" /\ job[t].result = "partial"
    /\ Known(o)
    /\ count > engine.noted[o]
    /\ ScaleDone(o, count)
    /\ engine' = Noted(o, count)
    /\ job' = [job EXCEPT ![t].count = Noted(o, count).remaining]
    /\ UNCHANGED <<holdings, broker, rows, mark, position, sight>>

LEMMA BeginIdles ==
    ASSUME TypeOK, NEW v \in Threads, NEW t \in Threads, NEW o, NEW req,
           NEW then,
           Begin(v, o, req, then)
    PROVE  IF v = t THEN pc'[t] = "commit"
           ELSE pc'[t] = pc[t] /\ job'[t] = job[t]
BY DEF Begin, TypeOK

LEMMA TellingSteps ==
    ASSUME TypeOK, [Next]_vars, NEW t \in Threads
    PROVE  /\ pc'[t] = "note" =>
                 \/ pc[t] = "note" /\ job'[t] = job[t]
                 \/ Converged(t)
           /\ pc'[t] = "persist" =>
                 \/ pc[t] = "persist" /\ job'[t] = job[t]
                 \/ ScaledOut(t)
<1> DEFINE Same == pc'[t] = pc[t] /\ job'[t] = job[t]
           Elsewhere == pc'[t] \notin {"note", "persist"}
<1>1. ASSUME NEW v \in Threads,
             Leave(v) \/ Second(v) \/ Failed(v) \/ Succeeded(v)
      PROVE  Same \/ Elsewhere
  BY <1>1 DEF Leave, Second, Failed, Succeeded, TypeOK
<1>2. ASSUME NEW v \in Threads, NEW to \in Statements \ {"note", "persist"},
             pc' = [pc EXCEPT ![v] = to],
             \/ UNCHANGED job
             \/ \E req : job' = [job EXCEPT ![v].req = req,
                                           ![v].then = "nothing"]
      PROVE  Same \/ Elsewhere
  BY <1>2 DEF TypeOK
<1>3. ASSUME NEW v \in Threads,
             \/ Commit(v) \/ Persist(v) \/ Again(v) \/ Clear(v) \/ Reopen(v)
      PROVE  Same \/ Elsewhere
  <2>1. {"idle", "converge", "clear", "reopen", "commit"}
           \subseteq Statements \ {"note", "persist"}
    BY DEF Statements
  <2>. QED
    BY <1>1, <1>2, <1>3, <2>1 DEF Commit, Persist, Again, Clear, Reopen
<1>4. ASSUME NEW v \in Threads, Converge(v)
      PROVE  Same \/ Elsewhere \/ (pc'[t] = "note" /\ Converged(t))
  <2>1. CASE Leave(v) \/ Failed(v) \/ Succeeded(v)
    BY <1>1, <2>1
  <2>2. CASE /\ Converged(v)
             /\ pc' = [pc EXCEPT ![v] = "note"]
    BY <2>2 DEF TypeOK, Converged
  <2>. QED
    BY <1>4, <2>1, <2>2 DEF Converge, Converged
<1>5. ASSUME NEW v \in Threads, Note(v)
      PROVE  Same \/ Elsewhere \/ (pc'[t] = "persist" /\ ScaledOut(t))
  <2>1. CASE Succeeded(v)
    BY <1>1, <2>1
  <2>2. CASE /\ ScaledOut(v)
             /\ pc' = [pc EXCEPT ![v] = "persist"]
    BY <2>2 DEF TypeOK, ScaledOut
  <2>. QED
    BY <1>5, <2>1, <2>2 DEF Note, ScaledOut
<1>6. ASSUME NEW o \in ExitOrders,
             Poll(o) \/ Reconcile(o) \/ StaleAcknowledged(o)
      PROVE  Same \/ Elsewhere
  <2>1. \E v \in Threads : \E req, then : Begin(v, o, req, then)
    BY <1>6 DEF Poll, Reconcile, StaleAcknowledged, Threads
  <2>. QED
    BY <2>1, BeginIdles
<1>7. ASSUME NEW o \in ExitOrders, Execute(o) \/ EndAtBroker(o) \/ Heal(o)
      PROVE  Same
  BY <1>7 DEF Execute, EndAtBroker, Heal
<1>8. ASSUME UNCHANGED vars \/ Submits \/ Observe \/ SyncRow \/ SyncEngine
      PROVE  Same
  BY <1>8, SubmitSteps DEF vars, Observe, SyncRow, SyncEngine
<1>. QED
  BY <1>3, <1>4, <1>5, <1>6, <1>7, <1>8 DEF Next, Continue, Submits

-----------------------------------------------------------------------------
(* A closed position stays closed. *)

\* What the orders of a position execute fits into it together.
Disjoint ==
    /\ \A o \in ExitOrders :
          /\ broker[o].executed =< Asked[o]
          /\ broker[o].state = "unsent" => broker[o].executed = 0
    /\ \A o, p \in ExitOrders :
          o # p =>
             holdings + broker[o].executed + broker[p].executed =< PositionQty

\* A closed position was applied as a whole, and by one order.
ClosedByOne ==
    position.status = "CLOSED" => \E o \in ExitOrders : mark[o] = PositionQty

\* What a thread is about to tell the engine has been applied.
NotesApplied ==
    \A t \in Threads :
        pc[t] = "note" => job[t].count \in 1 .. mark[job[t].order]

\* A scale-out is an order for a part of the position, and what the engine
\* has in flight while it scales out; it is written back once something of it
\* is applied.
ScaleIsPart ==
    /\ submit.scale => Asked[submit.order] < PositionQty
    /\ engine.scale =>
          /\ engine.inFlight
          /\ engine.pending \in ExitOrders
          /\ Asked[engine.pending] < PositionQty
          /\ submit.pc \in {"idle", "returned"}
          /\ submit.pc = "returned" => engine.pending = submit.order

PersistsPart ==
    \A t \in Threads :
        pc[t] = "persist" => /\ mark[job[t].order] > 0
                             /\ Asked[job[t].order] < PositionQty

FinalInv ==
    Disjoint /\ ClosedByOne /\ NotesApplied /\ ScaleIsPart /\ PersistsPart

\* The quantities of an order, from the position back to the broker.
LEMMA Chain ==
    ASSUME TypeOK, Executed, Disjoint, NEW o \in ExitOrders
    PROVE  /\ mark[o] \in Nat /\ rows[o].filled \in Nat
           /\ broker[o].executed \in Nat /\ Asked[o] \in Nat \ {0}
           /\ mark[o] =< rows[o].filled
           /\ rows[o].filled =< broker[o].executed
           /\ broker[o].executed =< Asked[o]
           /\ Asked[o] =< PositionQty
           /\ holdings \in Nat /\ PositionQty \in Nat \ {0}
           /\ holdings + broker[o].executed =< PositionQty
<1>1. /\ mark[o] \in Quantity /\ rows[o] \in Row /\ broker[o] \in AtBroker
      /\ holdings \in Quantity
  BY DEF TypeOK
<1>2. rows[o].filled \in 0..PositionQty /\ broker[o].executed \in Quantity
  BY <1>1 DEF Row, AtBroker
<1>3. Asked[o] \in 1..PositionQty
  BY AskedAssumption
<1>4. /\ mark[o] =< rows[o].filled
      /\ rows[o].filled =< broker[o].executed
      /\ holdings + broker[o].executed =< PositionQty
  BY DEF Executed, AppliedWereExecuted
<1>5. broker[o].executed =< Asked[o]
  BY DEF Disjoint
<1>. QED
  BY <1>1, <1>2, <1>3, <1>4, <1>5, PositionQtyAssumption DEF Quantity

\* The account only shrinks, and what was applied or executed stays.
LEMMA NothingReturns ==
    ASSUME TypeOK, Executed, [Next]_vars, NEW o \in ExitOrders
    PROVE  /\ mark[o] \in Nat /\ mark'[o] \in Nat /\ mark'[o] >= mark[o]
           /\ broker[o].executed \in Nat /\ broker'[o].executed \in Nat
           /\ broker'[o].executed >= broker[o].executed
           /\ holdings \in Nat /\ holdings' \in Nat /\ holdings' =< holdings
           /\ broker'[o].state = "unsent" => broker[o].state = "unsent"
<1>1. /\ mark[o] \in Quantity /\ rows[o] \in Row /\ broker[o] \in AtBroker
      /\ holdings \in Quantity /\ Quantity \subseteq Nat
  BY PositionQtyAssumption DEF TypeOK, Quantity
<1>2. rows[o].filled \in Nat /\ broker[o].executed \in Nat
  <2>1. rows[o].filled \in 0..PositionQty /\ broker[o].executed \in Quantity
    BY <1>1 DEF Row, AtBroker
  <2>2. rows[o].filled \in Nat
    BY <2>1, PositionQtyAssumption
  <2>. QED
    BY <1>1, <2>1, <2>2
<1>3. mark[o] =< rows[o].filled
  BY DEF Executed, AppliedWereExecuted
<1>4. mark'[o] = mark[o] \/ mark'[o] = rows[o].filled
  <2>1. ASSUME NEW p \in ExitOrders, Project(p)
        PROVE  mark'[o] = mark[o] \/ mark'[o] = rows[o].filled
    BY <2>1 DEF Project, TypeOK
  <2>. QED
    BY <2>1, PositionSteps
<1>5. /\ \/ broker'[o].executed = broker[o].executed
         \/ broker'[o].executed = broker[o].executed + 1
      /\ broker'[o].state = "unsent" => broker[o].state = "unsent"
      /\ holdings' = holdings \/ (holdings > 0 /\ holdings' = holdings - 1)
  <2>1. ASSUME NEW p \in ExitOrders, Execute(p) \/ EndAtBroker(p)
        PROVE  /\ \/ broker'[o].executed = broker[o].executed
                  \/ broker'[o].executed = broker[o].executed + 1
               /\ broker'[o].state = "unsent" => broker[o].state = "unsent"
               /\ \/ holdings' = holdings
                  \/ holdings > 0 /\ holdings' = holdings - 1
    BY <1>1, <2>1 DEF Execute, EndAtBroker, TypeOK, AtBroker
  <2>2. ASSUME Post
        PROVE  /\ broker'[o].executed = broker[o].executed
               /\ broker'[o].state = "unsent" => broker[o].state = "unsent"
               /\ holdings' = holdings
    BY <1>1, <2>2 DEF Post, TypeOK, AtBroker
  <2>. QED
    BY <2>1, <2>2, BrokerSteps
<1>6. mark[o] \in Nat /\ mark'[o] \in Nat /\ mark'[o] >= mark[o]
  <2>1. mark[o] \in Nat
    BY <1>1
  <2>. QED
    BY <1>2, <1>3, <1>4, <2>1
<1>7. /\ broker'[o].executed \in Nat
      /\ broker'[o].executed >= broker[o].executed
  BY <1>2, <1>5
<1>8. holdings \in Nat /\ holdings' \in Nat /\ holdings' =< holdings
  <2>1. holdings \in Nat
    BY <1>1
  <2>. QED
    BY <1>5, <2>1
<1>. QED
  BY <1>2, <1>5, <1>6, <1>7, <1>8

LEMMA DisjointStays ==
    ASSUME TypeOK, Executed, Disjoint, [Next]_vars
    PROVE  Disjoint'
<1>1. \A o \in ExitOrders :
         broker[o] \in AtBroker /\ broker[o].executed \in Nat
  BY PositionQtyAssumption DEF TypeOK, AtBroker, Quantity
<1>2. holdings \in Nat /\ PositionQty \in Nat
  BY PositionQtyAssumption DEF TypeOK, Quantity
<1>3. CASE UNCHANGED <<holdings, broker>>
  BY <1>3 DEF Disjoint
<1>4. CASE Post \/ \E o \in ExitOrders : EndAtBroker(o)
  <2>1. \A p \in ExitOrders :
           /\ broker'[p].executed = broker[p].executed
           /\ broker'[p].state = "unsent" => broker[p].state = "unsent"
    BY <1>1, <1>4 DEF Post, EndAtBroker, TypeOK, AtBroker
  <2>2. holdings' = holdings
    BY <1>4 DEF Post, EndAtBroker
  <2>. QED
    BY <2>1, <2>2 DEF Disjoint
<1>5. ASSUME NEW o \in ExitOrders, Execute(o)
      PROVE  Disjoint'
  <2>1. \A p \in ExitOrders :
           /\ broker'[p].executed = IF p = o THEN broker[p].executed + 1
                                    ELSE broker[p].executed
           /\ broker'[p].state = broker[p].state
    BY <1>1, <1>5 DEF Execute, TypeOK, AtBroker
  <2>2. /\ holdings' = holdings - 1
        /\ broker[o].executed < Asked[o] /\ Asked[o] \in Nat
        /\ broker[o].state # "unsent"
    BY <1>5, AskedAssumption DEF Execute
  <2>3. \A p \in ExitOrders :
           /\ broker'[p].executed =< Asked[p]
           /\ broker'[p].state = "unsent" => broker'[p].executed = 0
    BY <1>1, <2>1, <2>2 DEF Disjoint
  <2>4. ASSUME NEW p \in ExitOrders, NEW q \in ExitOrders, p # q
        PROVE  holdings' + broker'[p].executed + broker'[q].executed
                  =< PositionQty
    <3>1. holdings + broker[p].executed + broker[q].executed =< PositionQty
      BY <2>4 DEF Disjoint
    <3>. QED
      BY <1>1, <1>2, <2>1, <2>2, <2>4, <3>1
  <2>. QED
    BY <2>3, <2>4 DEF Disjoint
<1>. QED
  BY <1>3, <1>4, <1>5, BrokerSteps

LEMMA ClosedByOneStays ==
    ASSUME TypeOK, Executed, Disjoint, ClosedByOne, [Next]_vars
    PROVE  ClosedByOne'
<1>. SUFFICES ASSUME position'.status = "CLOSED"
              PROVE  \E o \in ExitOrders : mark'[o] = PositionQty
  BY DEF ClosedByOne
<1>1. position \in Position
  BY DEF TypeOK
<1>2. ASSUME NEW o \in ExitOrders, mark[o] = PositionQty
      PROVE  mark'[o] = PositionQty
  <2>1. /\ mark'[o] \in Nat /\ mark'[o] >= mark[o]
    BY NothingReturns
  <2>2. mark'[o] =< PositionQty
    <3>1. \A p \in ExitOrders :
             Project(p) => mark'[o] \in {mark[o], rows[o].filled}
      BY DEF Project, TypeOK
    <3>2. mark'[o] \in {mark[o], rows[o].filled}
      BY <3>1, PositionSteps
    <3>. QED
      BY <3>2, Chain
  <2>. QED
    BY <1>2, <2>1, <2>2, PositionQtyAssumption
<1>3. CASE position.status = "CLOSED"
  BY <1>2, <1>3 DEF ClosedByOne
<1>4. CASE position.status # "CLOSED"
  <2>1. \A t \in Threads : ~Persist(t)
    BY <1>1, <1>4 DEF Persist, Position
  <2>2. Synced(sight.qty).status # "CLOSED"
    BY <1>1, <1>4 DEF Synced, Position
  <2>3. [position EXCEPT !.status = "OPEN"].status # "CLOSED"
    BY <1>1 DEF Position
  <2>4. PICK o \in ExitOrders : Converges(o) /\ Project(o)
    BY <1>4, <2>1, <2>2, <2>3, PositionSteps
  <2>5. /\ Delta(o) # 0 /\ Delta(o) = position.remaining
        /\ mark' = [mark EXCEPT ![o] = rows[o].filled]
    BY <1>4, <2>4 DEF Project, Projected
  <2>6. rows[o].filled = PositionQty
    <3>1. /\ position.remaining - Delta(o) = PositionQty - rows[o].filled
          /\ Delta(o) \in Int
      BY <2>4, ConvergenceFits DEF Quantity
    <3>2. rows[o].filled \in Nat /\ PositionQty \in Nat
      BY Chain
    <3>. QED
      BY <2>5, <3>1, <3>2
  <2>. QED
    BY <2>5, <2>6 DEF TypeOK
<1>. QED
  BY <1>3, <1>4

LEMMA NotesStayApplied ==
    ASSUME TypeOK, Executed, NotesApplied, [Next]_vars
    PROVE  NotesApplied'
<1>. SUFFICES ASSUME NEW t \in Threads, pc'[t] = "note"
              PROVE  job'[t].count \in 1 .. mark'[job'[t].order]
  BY DEF NotesApplied
<1>1. job[t] \in Job /\ job[t].order \in ExitOrders /\ job[t].count \in Nat
  BY PositionQtyAssumption DEF TypeOK, Job, Quantity
<1>2. CASE pc[t] = "note" /\ job'[t] = job[t]
  BY <1>1, <1>2, NothingReturns DEF NotesApplied
<1>3. CASE Converged(t)
  <2> DEFINE o == job[t].order
  <2>1. Converges(o) /\ Project(o) /\ Result(o) # "none"
    BY <1>3 DEF Converged
  <2>2. job'[t].order = o /\ job'[t].count = rows[o].filled
    BY <1>1, <1>3 DEF Converged, TypeOK, Job
  <2>3. mark'[o] = rows[o].filled
    <3>1. mark[o] \in Int /\ rows[o].filled \in Int
      BY <1>1, PositionQtyAssumption DEF TypeOK, Row, Quantity
    <3>. QED
      BY <1>1, <2>1, <3>1 DEF Project, Delta, TypeOK
  <2>4. rows[o].filled \in Nat /\ rows[o].filled > 0
    BY <1>1, <2>1, PositionQtyAssumption DEF Converges, TypeOK, Row
  <2>. QED
    BY <2>2, <2>3, <2>4
<1>. QED
  BY <1>2, <1>3, TellingSteps

\* The engine counts a fill of a scale-out, and then waits for it as before
\* or scales out no more.
LEMMA NotedKeeps ==
    ASSUME TypeOK, NEW o \in ExitOrders, NEW count
    PROVE  LET e == Noted(o, count) IN
           \/ ~e.scale
           \/ /\ e.scale = engine.scale
              /\ e.inFlight = engine.inFlight
              /\ e.pending = engine.pending
<1>1. engine \in ManagedPosition
  BY DEF TypeOK
<1>2. /\ Counted(o, count).scale = engine.scale
      /\ Counted(o, count).inFlight = engine.inFlight
      /\ Counted(o, count).pending = engine.pending
  BY <1>1 DEF ManagedPosition, Counted
<1>3. ~Released(Counted(o, count)).scale /\ ~Over(Counted(o, count)).scale
  BY <1>1 DEF ManagedPosition, Counted, Released, Over
<1>. QED
  BY <1>2, <1>3 DEF Noted

LEMMA SubmitsStayPart ==
    ASSUME TypeOK, ScaleIsPart, Submits
    PROVE  ScaleIsPart'
<1>1. engine \in ManagedPosition /\ submit \in Submission
  BY DEF TypeOK
<1>2. submit.order \in ExitOrders /\ submit.order # NoOrder
  BY <1>1, ExitOrdersAssumption DEF Submission
<1>3. ~Released(engine).scale
  BY <1>1 DEF Released, ManagedPosition
<1>4. ASSUME NEW o \in ExitOrders, Decide(o) PROVE ScaleIsPart'
  <2>1. ~engine.inFlight /\ engine'.scale = engine.scale
    BY <1>1, <1>4 DEF Decide, ManagedPosition
  <2>2. /\ submit'.order = o
        /\ submit'.scale = (Asked[o] < engine.remaining)
    BY <1>4 DEF Decide
  <2>3. Asked[o] < engine.remaining => Asked[o] < PositionQty
    <3>1. engine.remaining \in 0..PositionQty /\ Asked[o] \in 1..PositionQty
      BY <1>1, AskedAssumption DEF ManagedPosition, Quantity
    <3>. QED
      BY <3>1, PositionQtyAssumption
  <2>. QED
    BY <2>1, <2>2, <2>3 DEF ScaleIsPart
<1>5. CASE GiveUp
  <2>1. ~submit'.scale /\ submit'.pc = "idle"
    BY <1>5 DEF GiveUp, NoSubmission
  <2>2. ~engine'.scale
    BY <1>3, <1>5 DEF GiveUp, ScaleIsPart
  <2>. QED
    BY <2>1, <2>2 DEF ScaleIsPart
<1>6. CASE Post \/ Submitted \/ Tell
  <2>1. submit'.order = submit.order /\ submit'.scale = submit.scale
    BY <1>1, <1>6 DEF Post, Submitted, Tell, Submission
  <2>2. ~engine.scale
    BY <1>6 DEF Post, Submitted, Tell, ScaleIsPart
  <2>3. engine'.scale = engine.scale
    BY <1>1, <1>6 DEF Post, Submitted, Tell, Flown, ManagedPosition
  <2>. QED
    BY <2>1, <2>2, <2>3 DEF ScaleIsPart
<1>7. CASE MarkSubmitted
  <2>1. /\ submit'.order = submit.order /\ submit'.scale = submit.scale
        /\ submit'.pc = "returned"
    BY <1>1, <1>7 DEF MarkSubmitted, Submission
  <2>2. ~engine.scale
    BY <1>7 DEF MarkSubmitted, ScaleIsPart
  <2>3. CASE UNCHANGED engine
    BY <2>1, <2>2, <2>3 DEF ScaleIsPart
  <2>4. CASE engine' = Marked
    <3>1. /\ engine'.scale = submit.scale
          /\ engine'.inFlight
          /\ submit.scale => engine'.pending = submit.order
      BY <1>1, <2>4 DEF Marked, ManagedPosition
    <3>. QED
      BY <1>2, <2>1, <3>1 DEF ScaleIsPart
  <2>. QED
    BY <1>7, <2>3, <2>4 DEF MarkSubmitted
<1>8. CASE Own
  <2>1. ~submit'.scale /\ submit'.pc = "idle"
    BY <1>8 DEF Own, NoSubmission
  <2>2. CASE UNCHANGED engine
    BY <2>1, <2>2 DEF ScaleIsPart
  <2>3. CASE engine' = Flown(submit.order)
    <3>1. /\ engine'.scale = engine.scale
          /\ engine'.inFlight
          /\ engine'.pending = submit.order
      BY <1>1, <2>3 DEF Flown, ManagedPosition
    <3>2. engine.scale => engine.pending = submit.order
      BY <1>8 DEF Own, ScaleIsPart
    <3>. QED
      BY <1>2, <2>1, <3>1, <3>2 DEF ScaleIsPart
  <2>. QED
    BY <1>8, <2>2, <2>3 DEF Own
<1>. QED
  BY <1>4, <1>5, <1>6, <1>7, <1>8 DEF Submits

LEMMA ScaleStaysPart ==
    ASSUME TypeOK, ScaleIsPart, [Next]_vars
    PROVE  ScaleIsPart'
<1>1. engine \in ManagedPosition
  BY DEF TypeOK
<1>2. ASSUME UNCHANGED submit,
             \/ ~engine'.scale
             \/ /\ engine'.scale = engine.scale
                /\ engine'.inFlight = engine.inFlight
                /\ engine'.pending = engine.pending
      PROVE  ScaleIsPart'
  BY <1>2 DEF ScaleIsPart
<1>3. ASSUME NEW t \in Threads, Note(t), UNCHANGED submit
      PROVE  ScaleIsPart'
  <2>1. job[t].order \in ExitOrders
    BY DEF TypeOK, Job
  <2>2. ~Over([engine EXCEPT !.remaining = 0]).scale
    BY <1>1 DEF Over, Released, ManagedPosition
  <2>3. \/ UNCHANGED engine
        \/ engine' = Noted(job[t].order, job[t].count)
        \/ engine' = Over([engine EXCEPT !.remaining = 0])
    BY <1>3 DEF Note
  <2>. QED
    BY <1>2, <1>3, <2>1, <2>2, <2>3, NotedKeeps
<1>4. ASSUME SyncEngine, UNCHANGED submit
      PROVE  ScaleIsPart'
  <2>1. \A p : ~Installed(sight.qty, p).scale
    BY DEF Installed
  <2>2. engine' = [engine EXCEPT !.remaining = sight.qty] \/ ~engine'.scale
    BY <1>4, <2>1 DEF SyncEngine
  <2>. QED
    BY <1>1, <1>2, <1>4, <2>2 DEF ManagedPosition
<1>5. ASSUME UNCHANGED engine \/ engine' = Released(engine), UNCHANGED submit
      PROVE  ScaleIsPart'
  BY <1>1, <1>2, <1>5 DEF Released, ManagedPosition
<1>. QED
  BY <1>3, <1>4, <1>5, SubmitsStayPart, EngineSteps

\* The engine writes a scale-out back when something of it was applied.
LEMMA ScaledOutIsApplied ==
    ASSUME TypeOK, NotesApplied, ScaleIsPart, NEW t \in Threads, ScaledOut(t)
    PROVE  /\ mark[job[t].order] > 0
           /\ Asked[job[t].order] < PositionQty
<1> DEFINE o == job[t].order
<1>1. /\ o \in ExitOrders /\ o # NoOrder
      /\ mark[o] \in Nat
      /\ engine \in ManagedPosition
  BY ExitOrdersAssumption, PositionQtyAssumption DEF TypeOK, Job, Quantity
<1>2. engine.scale /\ pc[t] = "note" /\ engine.pending \in {NoOrder, o}
  BY <1>1 DEF ScaledOut, ScaleDone, Counted, Known, ManagedPosition
<1>3. engine.pending = o /\ Asked[o] < PositionQty
  BY <1>2, ExitOrdersAssumption DEF ScaleIsPart
<1>4. job[t].count \in 1 .. mark[o]
  BY <1>2 DEF NotesApplied
<1>. QED
  BY <1>1, <1>3, <1>4

LEMMA PersistsStayPart ==
    ASSUME TypeOK, Executed, NotesApplied, ScaleIsPart, PersistsPart,
           [Next]_vars
    PROVE  PersistsPart'
<1>. SUFFICES ASSUME NEW t \in Threads, pc'[t] = "persist"
              PROVE  /\ mark'[job'[t].order] > 0
                     /\ Asked[job'[t].order] < PositionQty
  BY DEF PersistsPart
<1>1. job[t] \in Job /\ job[t].order \in ExitOrders
  BY DEF TypeOK, Job
<1>2. CASE pc[t] = "persist" /\ job'[t] = job[t]
  <2>1. /\ mark[job[t].order] > 0 /\ Asked[job[t].order] < PositionQty
    BY <1>2 DEF PersistsPart
  <2>2. /\ mark[job[t].order] \in Nat
        /\ mark'[job[t].order] \in Nat
        /\ mark'[job[t].order] >= mark[job[t].order]
    BY <1>1, NothingReturns
  <2>. QED
    BY <1>2, <2>1, <2>2
<1>3. CASE ScaledOut(t)
  <2>1. job'[t].order = job[t].order /\ mark' = mark
    BY <1>1, <1>3 DEF ScaledOut, TypeOK, Job
  <2>. QED
    BY <1>3, <2>1, ScaledOutIsApplied
<1>. QED
  BY <1>2, <1>3, TellingSteps

THEOREM PositionIsShared == Spec => []FinalInv
<1>1. Init => FinalInv
  <2>. SUFFICES ASSUME Init PROVE FinalInv
    OBVIOUS
  <2>1. Asked \in [ExitOrders -> Nat] /\ PositionQty \in Nat
    BY AskedAssumption, PositionQtyAssumption
  <2>. QED
    BY <2>1 DEF Init, NoSubmission, FinalInv, Disjoint, ClosedByOne,
                NotesApplied, ScaleIsPart, PersistsPart
<1>2. TypeOK /\ Executed /\ FinalInv /\ [Next]_vars => FinalInv'
  BY DisjointStays, ClosedByOneStays, NotesStayApplied, ScaleStaysPart,
     PersistsStayPart DEF FinalInv
<1>. QED
  BY <1>1, <1>2, TypeCorrect, OnlyExecutedReported, PTL DEF Spec

\* For any orders, with and without the precheck: nothing that was seen
\* before the position was closed, be it a scale-out that waits to be written
\* or a listing of the account, is written into it afterwards.
THEOREM ClosedStaysClosed == Spec => ClosedIsFinal
<1>1. TypeOK /\ Executed /\ FinalInv /\ [Next]_vars
        => [position.status = "CLOSED" => position' = position]_vars
  <2>. SUFFICES ASSUME TypeOK, Executed, FinalInv, [Next]_vars,
                       position.status = "CLOSED"
                PROVE  position' = position
    OBVIOUS
  <2>1. PICK p \in ExitOrders : mark[p] = PositionQty
    BY DEF FinalInv, ClosedByOne
  <2>2. broker[p].executed = PositionQty /\ Asked[p] = PositionQty
    BY <2>1, Chain DEF FinalInv
  <2>3. ASSUME NEW t \in Threads, Persist(t)
        PROVE  FALSE
    <3> DEFINE o == job[t].order
    <3>1. o \in ExitOrders /\ mark[o] > 0 /\ Asked[o] < PositionQty
      BY <2>3 DEF Persist, FinalInv, PersistsPart, TypeOK, Job
    <3>2. o # p
      BY <2>2, <3>1, PositionQtyAssumption
    <3>3. holdings + broker[o].executed + broker[p].executed =< PositionQty
      BY <3>1, <3>2 DEF FinalInv, Disjoint
    <3>4. Disjoint
      BY DEF FinalInv
    <3>. QED
      BY <2>2, <3>1, <3>3, <3>4, Chain
  <2>4. ASSUME NEW o \in ExitOrders, Converges(o), Project(o)
        PROVE  position' = position
    <3>1. position.remaining = 0
      BY <2>4 DEF Converges
    <3>2. Delta(o) = 0
      BY <2>4, <3>1, ConvergenceFits DEF Delta, Quantity
    <3>. QED
      BY <2>4, <3>2 DEF Project
  <2>. QED
    BY <2>3, <2>4, PositionSteps DEF RowOpen
<1>. QED
  BY <1>1, TypeCorrect, OnlyExecutedReported, PositionIsShared, PTL
  DEF Spec, ClosedIsFinal

-----------------------------------------------------------------------------
(* Only the write of a scale-out understates the account. *)

\* What the precheck has seen is at least what the account holds by now.
SightFresh == sight.pc # "idle" => sight.qty >= holdings

LEMMA SightStaysFresh ==
    ASSUME TypeOK, Executed, SightFresh, [Next]_vars
    PROVE  SightFresh'
<1>1. \/ UNCHANGED sight
      \/ Observe
      \/ SyncRow
      \/ SyncEngine
  BY SubmitSteps
  DEF Next, Submits, vars, Execute, EndAtBroker, Poll, Reconcile,
      StaleAcknowledged, Heal, Begin, Continue, Commit, Converge, Note,
      Persist, Again, Clear, Reopen
<1>2. holdings \in Nat /\ holdings' \in Nat /\ holdings' =< holdings
  BY NothingReturns, ExitOrdersAssumption
<1>3. sight.qty \in Nat
  BY PositionQtyAssumption DEF TypeOK, Quantity
<1>4. CASE UNCHANGED sight
  BY <1>2, <1>3, <1>4 DEF SightFresh
<1>5. CASE Observe
  BY <1>2, <1>5 DEF Observe, SightFresh
<1>6. CASE SyncRow
  <2>1. holdings' = holdings
    BY <1>6 DEF SyncRow
  <2>2. \/ sight'.pc = "idle"
        \/ sight.pc = "observed" /\ sight'.qty = sight.qty
    BY <1>6 DEF SyncRow, NoSight, TypeOK
  <2>. QED
    BY <2>1, <2>2 DEF SightFresh
<1>7. CASE SyncEngine
  BY <1>7 DEF SyncEngine, NoSight, SightFresh
<1>. QED
  BY <1>1, <1>4, <1>5, <1>6, <1>7

THEOREM SightIsFresh == Spec => []SightFresh
<1>1. Init => SightFresh
  BY DEF Init, NoSight, SightFresh
<1>2. TypeOK /\ Executed /\ SightFresh /\ [Next]_vars => SightFresh'
  BY SightStaysFresh
<1>. QED
  BY <1>1, <1>2, TypeCorrect, OnlyExecutedReported, PTL DEF Spec

\* Nothing but the write of a scale-out takes the positions row below the
\* account.
LEMMA CoverStays ==
    ASSUME TypeOK, Executed, SightFresh, [Next]_vars,
           position.remaining >= holdings,
           \A t \in Threads : ~Persist(t)
    PROVE  position'.remaining >= holdings'
<1>1. /\ position \in Position
      /\ position.remaining \in Nat
      /\ sight.qty \in Nat
  BY PositionQtyAssumption DEF TypeOK, Position, Quantity
<1>2. holdings \in Nat /\ holdings' \in Nat /\ holdings' =< holdings
  BY NothingReturns, ExitOrdersAssumption
<1>3. CASE position'.remaining = position.remaining
  BY <1>1, <1>2, <1>3
<1>4. ASSUME NEW o \in ExitOrders, Converges(o), Project(o),
             UNCHANGED <<holdings, broker, rows, engine, sight>>
      PROVE  position'.remaining >= holdings'
  <2>1. \/ position'.remaining = position.remaining
        \/ position'.remaining = PositionQty - rows[o].filled
    BY <1>4, ConvergenceFits DEF Project, Projected
  <2>2. /\ rows[o].filled =< broker[o].executed
        /\ holdings + broker[o].executed =< PositionQty
    BY DEF Executed, AppliedWereExecuted
  <2>3. rows[o].filled \in Int /\ broker[o].executed \in Int
    BY PositionQtyAssumption DEF TypeOK, Row, AtBroker, Quantity
  <2>4. CASE position'.remaining = PositionQty - rows[o].filled
    BY <1>2, <2>2, <2>3, <2>4, PositionQtyAssumption
  <2>. QED
    BY <1>3, <2>1, <2>4
<1>5. ASSUME position' = [position EXCEPT !.status = "OPEN"]
      PROVE  position'.remaining = position.remaining
  BY <1>1, <1>5 DEF Position
<1>6. ASSUME sight.pc = "observed", position' = Synced(sight.qty)
      PROVE  position'.remaining >= holdings'
  <2>1. position'.remaining = sight.qty
    BY <1>1, <1>6 DEF Synced, Position
  <2>2. sight.qty >= holdings
    BY <1>6 DEF SightFresh
  <2>. QED
    BY <1>1, <1>2, <2>1, <2>2
<1>. QED
  BY <1>3, <1>4, <1>5, <1>6, PositionSteps

\* For any orders and contracts, with and without the precheck: as long as
\* no scale-out is being written back, no late convergence, heal, reopening
\* or listing of the account makes the positions row say less than the
\* account holds.
THEOREM RowCoversAccount == Spec => OnlyScaleOutUnderstates
<1>1. TypeOK /\ Executed /\ SightFresh /\ [Next]_vars
        => [position.remaining >= holdings
            /\ (\A t \in Threads : pc[t] # "persist")
            => (position.remaining >= holdings)']_vars
  <2>. SUFFICES ASSUME TypeOK, Executed, SightFresh, [Next]_vars,
                       position.remaining >= holdings,
                       \A t \in Threads : pc[t] # "persist"
                PROVE  position'.remaining >= holdings'
    OBVIOUS
  <2>1. \A t \in Threads : ~Persist(t)
    BY DEF Persist
  <2>. QED
    BY <2>1, CoverStays
<1>. QED
  BY <1>1, TypeCorrect, OnlyExecutedReported, SightIsFresh, PTL
  DEF Spec, OnlyScaleOutUnderstates

\* If every order sells the whole position there is no scale-out to write
\* back, and the row never says less than the account holds.
THEOREM WholeExitsKeepCover ==
    ASSUME \A o \in ExitOrders : Asked[o] = PositionQty
    PROVE  Spec => [](position.remaining >= holdings)
<1>1. Init => position.remaining >= holdings
  BY PositionQtyAssumption DEF Init
<1>2. TypeOK /\ FinalInv => \A t \in Threads : ~Persist(t)
  <2>. SUFFICES ASSUME TypeOK, FinalInv, NEW t \in Threads, Persist(t)
                PROVE  FALSE
    OBVIOUS
  <2>1. Asked[job[t].order] < PositionQty /\ job[t].order \in ExitOrders
    BY DEF Persist, FinalInv, PersistsPart, TypeOK, Job
  <2>. QED
    BY <2>1, PositionQtyAssumption
<1>3. /\ TypeOK /\ Executed /\ FinalInv /\ SightFresh /\ [Next]_vars
      /\ position.remaining >= holdings
      => (position.remaining >= holdings)'
  BY <1>2, CoverStays
<1>. QED
  BY <1>1, <1>3, TypeCorrect, OnlyExecutedReported, PositionIsShared,
     SightIsFresh, PTL DEF Spec

-----------------------------------------------------------------------------
(* Without the precheck, a contract is counted once until a submission is  *)
(* marked.                                                                 *)

\* The precheck never begins.
Unsighted == sight.pc = "idle"

ClosedCounts == engine.closed => engine.generation > 0

\* Nothing scales out, so only one order is ever applied: a second one never
\* finds the remainder it has to prove.
OneApplied ==
    /\ \A t \in Threads : pc[t] # "persist"
    /\ \A o, p \in ExitOrders : mark[o] > 0 /\ mark[p] > 0 => o = p
    /\ \A o \in ExitOrders :
          mark[o] > 0 => position.remaining = PositionQty - mark[o]
    /\ (\A o \in ExitOrders : mark[o] = 0)
          => position.remaining = PositionQty

\* What the engine holds is the position without what it has counted of that
\* order, unless it has closed the position.
EngineCounts ==
    /\ ~engine.scale
    /\ \A o \in ExitOrders : engine.noted[o] =< mark[o]
    /\ engine.closed => holdings = 0
    /\ ~engine.closed =>
          /\ \A o \in ExitOrders :
                mark[o] > 0 =>
                   engine.remaining = PositionQty - engine.noted[o]
          /\ (\A o \in ExitOrders : mark[o] = 0)
                => engine.remaining = PositionQty

\* A thread that reports a complete fill has seen the account empty.
FullIsFlat ==
    \A t \in Threads :
        pc[t] = "note" /\ job[t].result # "partial" => holdings = 0

CountInv ==
    /\ Unsighted /\ ClosedCounts /\ FullIsFlat
    /\ NoneMarked => OneApplied /\ EngineCounts

LEMMA StaysUnsighted ==
    ASSUME ~PositionSource, Unsighted, [Next]_vars
    PROVE  Unsighted' /\ ~SyncEngine
<1>1. ~Observe /\ ~SyncRow /\ ~SyncEngine
  BY DEF Observe, SyncRow, SyncEngine, Unsighted
<1>. QED
  BY <1>1
  DEF Unsighted, Next, vars, Decide, GiveUp, Post, Submitted, Tell,
      MarkSubmitted, Own, Execute, EndAtBroker, Poll, Reconcile,
      StaleAcknowledged, Heal, Begin, Continue, Commit, Converge, Note,
      Persist, Again, Clear, Reopen

\* A step that marks no submission counts a fill, or leaves alone what was
\* counted.
LEMMA MarkingSteps ==
    ASSUME TypeOK, ClosedCounts, [Next]_vars, ~SyncEngine
    PROVE  /\ ClosedCounts'
           /\ NoneMarked' =>
                 /\ NoneMarked
                 /\ \/ /\ engine'.remaining = engine.remaining
                       /\ engine'.noted = engine.noted
                       /\ engine'.closed = engine.closed
                       /\ engine'.scale \in {engine.scale, FALSE}
                    \/ \E t \in Threads : Note(t)
<1>1. engine \in ManagedPosition /\ engine.generation \in Nat
  BY DEF TypeOK, ManagedPosition
<1> DEFINE Kept == /\ engine'.remaining = engine.remaining
                   /\ engine'.noted = engine.noted
                   /\ engine'.closed = engine.closed
                   /\ engine'.generation = engine.generation
                   /\ engine'.scale \in {engine.scale, FALSE}
<1>2. CASE Kept
  BY <1>2 DEF ClosedCounts, NoneMarked
<1>3. UNCHANGED engine \/ engine' = Released(engine) => Kept
  BY <1>1 DEF Released, ManagedPosition
<1>4. ASSUME Submits
      PROVE  Kept \/ (~engine.closed /\ engine' = Marked)
  <2>1. \A o : Flown(o).remaining = engine.remaining
             /\ Flown(o).noted = engine.noted
             /\ Flown(o).closed = engine.closed
             /\ Flown(o).generation = engine.generation
             /\ Flown(o).scale = engine.scale
    BY <1>1 DEF Flown, ManagedPosition
  <2>2. ASSUME NEW o \in ExitOrders, Decide(o)
        PROVE  Kept
    BY <1>1, <2>2 DEF Decide, ManagedPosition
  <2>3. CASE GiveUp \/ Post \/ Submitted
    BY <1>3, <2>3 DEF GiveUp, Post, Submitted
  <2>4. CASE Tell
    BY <1>1, <1>3, <2>4 DEF Tell, Flown, ManagedPosition
  <2>5. CASE Own
    BY <1>3, <2>1, <2>5 DEF Own
  <2>6. CASE MarkSubmitted
    BY <1>3, <2>6 DEF MarkSubmitted
  <2>. QED
    BY <1>4, <2>2, <2>3, <2>4, <2>5, <2>6 DEF Submits
<1>5. ASSUME ~engine.closed, engine' = Marked
      PROVE  ClosedCounts' /\ ~NoneMarked'
  <2>1. ~engine'.closed /\ engine'.generation = engine.generation + 1
    BY <1>1, <1>5 DEF Marked, ManagedPosition
  <2>. QED
    BY <1>1, <2>1 DEF ClosedCounts, NoneMarked
<1>6. ASSUME NEW t \in Threads, Note(t)
      PROVE  ClosedCounts' /\ (NoneMarked' => NoneMarked)
  <2>1. ASSUME NEW e, e.generation = engine.generation, ~engine.closed,
               e \in ManagedPosition, engine' = Over(e)
        PROVE  ClosedCounts' /\ (NoneMarked' => NoneMarked)
    <3>1. engine'.closed /\ engine'.generation = engine.generation + 1
      BY <2>1 DEF Over, Released, ManagedPosition
    <3>. QED
      BY <1>1, <2>1, <3>1 DEF ClosedCounts, NoneMarked
  <2>2. ASSUME NEW e, e.generation = engine.generation,
               e.closed = engine.closed,
               e \in ManagedPosition, engine' = e \/ engine' = Released(e)
        PROVE  ClosedCounts' /\ (NoneMarked' => NoneMarked)
    <3>1. /\ engine'.closed = engine.closed
          /\ engine'.generation = engine.generation
      BY <2>2 DEF Released, ManagedPosition
    <3>. QED
      BY <3>1 DEF ClosedCounts, NoneMarked
  <2>3. CASE engine' = Over([engine EXCEPT !.remaining = 0]) /\ ~engine.closed
    <3>1. 0 \in Quantity
      BY PositionQtyAssumption DEF Quantity
    <3>2. /\ [engine EXCEPT !.remaining = 0] \in ManagedPosition
          /\ [engine EXCEPT !.remaining = 0].generation = engine.generation
      BY <1>1, <3>1 DEF ManagedPosition
    <3>. QED
      BY <2>1, <2>3, <3>2
  <2>4. ASSUME NEW o \in ExitOrders, NEW n \in Quantity, n > engine.noted[o],
               ~engine.closed, engine' = Noted(o, n)
        PROVE  ClosedCounts' /\ (NoneMarked' => NoneMarked)
    <3>1. /\ Counted(o, n) \in ManagedPosition
          /\ Counted(o, n).generation = engine.generation
          /\ Counted(o, n).closed = engine.closed
      BY <1>1, <2>4, CountedTyped DEF Counted, ManagedPosition
    <3>2. \/ engine' = Over(Counted(o, n))
          \/ engine' = Released(Counted(o, n))
          \/ engine' = Counted(o, n)
      BY <2>4 DEF Noted
    <3>. QED
      BY <2>1, <2>2, <2>4, <3>1, <3>2
  <2>5. job[t].order \in ExitOrders /\ job[t].count \in Quantity
    BY DEF TypeOK, Job
  <2>6. CASE UNCHANGED engine
    BY <2>6 DEF ClosedCounts, NoneMarked
  <2>. QED
    BY <1>6, <2>3, <2>4, <2>5, <2>6 DEF Note, Known
<1>. HIDE DEF Kept
<1>7. Kept => /\ engine'.remaining = engine.remaining
              /\ engine'.noted = engine.noted
              /\ engine'.closed = engine.closed
              /\ engine'.scale \in {engine.scale, FALSE}
  BY DEF Kept
<1>. QED
  BY <1>2, <1>3, <1>4, <1>5, <1>6, <1>7, EngineSteps

LEMMA FullStaysFlat ==
    ASSUME TypeOK, Executed, ClosedOnlyWhenFlat, FullIsFlat, [Next]_vars
    PROVE  FullIsFlat'
<1>. SUFFICES ASSUME NEW t \in Threads, pc'[t] = "note",
                     job'[t].result # "partial"
              PROVE  holdings' = 0
  BY DEF FullIsFlat
<1>1. holdings \in Nat /\ holdings' \in Nat /\ holdings' =< holdings
  BY NothingReturns, ExitOrdersAssumption
<1>2. CASE pc[t] = "note" /\ job'[t] = job[t]
  BY <1>1, <1>2 DEF FullIsFlat
<1>3. CASE Converged(t)
  <2> DEFINE o == job[t].order
  <2>1. o \in ExitOrders /\ job[t] \in Job
    BY DEF TypeOK, Job
  <2>2. Converges(o) /\ Result(o) = "full"
    <3>1. job'[t].result = Result(o)
      BY <1>3, <2>1 DEF Converged, TypeOK, Job
    <3>. QED
      BY <1>3, <3>1 DEF Converged, Result
  <2>3. CASE Delta(o) = 0
    BY <1>1, <2>2, <2>3 DEF Result, ClosedOnlyWhenFlat
  <2>4. CASE Delta(o) # 0
    <3>1. Delta(o) = position.remaining
      BY <2>2, <2>4 DEF Result
    <3>2. /\ Delta(o) \in Int
          /\ position.remaining - Delta(o) = PositionQty - rows[o].filled
          /\ rows[o].filled \in Int
      BY <2>1, <2>2, ConvergenceFits, PositionQtyAssumption DEF Quantity
    <3>3. rows[o].filled = PositionQty
      BY <3>1, <3>2, PositionQtyAssumption
    <3>4. /\ rows[o].filled =< broker[o].executed
          /\ holdings + broker[o].executed =< PositionQty
          /\ broker[o].executed \in Int
      BY <2>1, PositionQtyAssumption
      DEF Executed, AppliedWereExecuted, TypeOK, AtBroker, Quantity
    <3>. QED
      BY <1>1, <3>3, <3>4, PositionQtyAssumption
  <2>. QED
    BY <2>3, <2>4
<1>. QED
  BY <1>2, <1>3, TellingSteps

LEMMA OneStaysApplied ==
    ASSUME TypeOK, Unsighted, OneApplied, EngineCounts, [Next]_vars
    PROVE  OneApplied'
<1>1. mark \in [ExitOrders -> Quantity] /\ position \in Position
  BY DEF TypeOK
<1>2. ASSUME NEW t \in Threads
      PROVE  pc'[t] # "persist"
  <2>1. ASSUME ScaledOut(t) PROVE FALSE
    BY <2>1 DEF ScaledOut, ScaleDone, Counted, EngineCounts, TypeOK,
                ManagedPosition
  <2>. QED
    BY <2>1, TellingSteps DEF OneApplied
<1>3. CASE UNCHANGED mark /\ position'.remaining = position.remaining
  BY <1>2, <1>3 DEF OneApplied
<1>4. ASSUME NEW o \in ExitOrders, Converges(o), Project(o)
      PROVE  OneApplied'
  <2>1. CASE Delta(o) = 0
    BY <1>3, <1>4, <2>1 DEF Project
  <2>2. CASE Delta(o) # 0
    <3>1. /\ mark' = [mark EXCEPT ![o] = rows[o].filled]
          /\ position'.remaining = PositionQty - rows[o].filled
      BY <1>4, <2>2, ConvergenceFits DEF Project, Projected
    <3>2. rows[o].filled \in Nat /\ rows[o].filled > 0
      BY <1>4, PositionQtyAssumption DEF Converges, TypeOK, Row
    <3>3. mark'[o] > 0 /\ position'.remaining = PositionQty - mark'[o]
      BY <1>1, <3>1, <3>2
    <3>4. ASSUME NEW p \in ExitOrders, mark[p] > 0
          PROVE  p = o
      <4>1. position.remaining = PositionQty - mark[p]
        BY <3>4 DEF OneApplied
      <4>2. position.remaining = PositionQty - mark[o]
        BY <1>4 DEF Converges, RemainderProven
      <4>3. mark[o] \in Int /\ mark[p] \in Int
        BY <1>1, PositionQtyAssumption DEF Quantity
      <4>4. mark[o] > 0
        BY <3>4, <4>1, <4>2, <4>3, PositionQtyAssumption
      <4>. QED
        BY <3>4, <4>4 DEF OneApplied
    <3>5. \A p \in ExitOrders : p # o => mark'[p] = mark[p]
      BY <1>1, <3>1
    <3>6. \A p \in ExitOrders : mark'[p] > 0 => p = o
      BY <3>4, <3>5
    <3>. QED
      BY <1>2, <3>3, <3>6 DEF OneApplied
  <2>. QED
    BY <2>1, <2>2
<1>5. ASSUME NEW t \in Threads PROVE ~Persist(t)
  BY DEF OneApplied, Persist
<1>6. sight.pc # "observed"
  BY DEF Unsighted
<1>. QED
  BY <1>1, <1>3, <1>4, <1>5, <1>6, PositionSteps DEF Position

\* A fill that is counted is what the position has lost by now.
LEMMA NotesCount ==
    ASSUME TypeOK, NotesApplied, OneApplied, EngineCounts, FullIsFlat,
           Executed, NEW t \in Threads, Note(t)
    PROVE  EngineCounts'
<1> DEFINE o == job[t].order
           n == job[t].count
<1>1. /\ engine \in ManagedPosition
      /\ engine.noted \in [ExitOrders -> Quantity]
      /\ o \in ExitOrders /\ n \in Quantity
      /\ mark \in [ExitOrders -> Quantity]
  BY DEF TypeOK, ManagedPosition, Job
<1>2. n \in 1 .. mark[o] /\ UNCHANGED <<holdings, mark>>
  BY DEF Note, NotesApplied
<1>3. CASE UNCHANGED engine
  BY <1>2, <1>3 DEF EngineCounts
<1>4. CASE /\ engine' = Over([engine EXCEPT !.remaining = 0])
           /\ job[t].result # "partial"
  <2>1. holdings = 0
    BY <1>4 DEF Note, FullIsFlat
  <2>2. engine'.closed /\ ~engine'.scale /\ engine'.noted = engine.noted
    BY <1>1, <1>4 DEF Over, Released, ManagedPosition
  <2>. QED
    BY <1>2, <2>1, <2>2 DEF EngineCounts
<1>5. CASE engine' = Noted(o, n) /\ ~engine.closed /\ n > engine.noted[o]
  <2> DEFINE e == Counted(o, n)
  <2>1. mark[o] > 0 /\ mark[o] \in 0..PositionQty
    BY <1>1, <1>2 DEF Quantity
  <2>2. engine.remaining = PositionQty - engine.noted[o]
    BY <1>1, <1>5, <2>1 DEF EngineCounts
  <2>3. /\ e.remaining = PositionQty - n
        /\ e.noted = [engine.noted EXCEPT ![o] = n]
        /\ ~e.scale /\ ~e.closed
    <3>1. engine.noted[o] \in Int /\ n =< PositionQty
      BY <1>1, PositionQtyAssumption DEF Quantity
    <3>2. engine.remaining - (n - engine.noted[o]) = PositionQty - n
      BY <1>1, <2>2, <3>1, PositionQtyAssumption DEF Quantity
    <3>3. Floor(PositionQty - n) = PositionQty - n
      BY <1>1, <3>1, PositionQtyAssumption DEF Floor, Quantity
    <3>4. e.remaining = Floor(engine.remaining - (n - engine.noted[o]))
      BY <1>1 DEF Counted, ManagedPosition
    <3>. QED
      BY <1>1, <1>5, <3>2, <3>3, <3>4
      DEF Counted, EngineCounts, ManagedPosition
  <2>4. e \in ManagedPosition
    BY <1>1, <1>5, CountedTyped
  <2>. HIDE DEF e
  <2>5. /\ engine'.noted = e.noted /\ engine'.remaining = e.remaining
        /\ ~engine'.scale
        /\ engine'.closed => e.remaining =< 0
    <3>1. /\ Over(e).noted = e.noted /\ Over(e).remaining = e.remaining
          /\ ~Over(e).scale
      BY <2>4 DEF Over, Released, ManagedPosition
    <3>2. /\ Released(e).noted = e.noted
          /\ Released(e).remaining = e.remaining
          /\ ~Released(e).scale /\ Released(e).closed = e.closed
      BY <2>4 DEF Released, ManagedPosition
    <3>3. \/ e.remaining =< 0 /\ engine' = Over(e)
          \/ engine' = Released(e)
          \/ engine' = e
      BY <1>5 DEF Noted, e
    <3>. QED
      BY <2>3, <3>1, <3>2, <3>3
  <2>6. engine'.noted[o] = n /\ engine'.remaining = PositionQty - n
    BY <1>1, <2>3, <2>5
  <2>7. \A p \in ExitOrders : engine'.noted[p] =< mark[p]
    BY <1>1, <1>2, <2>3, <2>5 DEF EngineCounts, Quantity
  <2>8. \A p \in ExitOrders : mark[p] > 0 => p = o
    BY <1>1, <2>1 DEF OneApplied
  <2>9. engine'.closed => holdings = 0
    <3>. SUFFICES ASSUME engine'.closed PROVE holdings = 0
      OBVIOUS
    <3>1. mark[o] = PositionQty
      BY <1>1, <1>2, <2>1, <2>3, <2>5, PositionQtyAssumption DEF Quantity
    <3>2. /\ mark[o] =< rows[o].filled /\ rows[o].filled =< broker[o].executed
          /\ holdings + broker[o].executed =< PositionQty
      BY <1>1 DEF Executed, AppliedWereExecuted
    <3>3. /\ rows[o].filled \in Int /\ broker[o].executed \in Int
          /\ holdings \in Nat /\ PositionQty \in Nat
      BY <1>1, PositionQtyAssumption DEF TypeOK, Row, AtBroker, Quantity
    <3>4. broker[o].executed >= PositionQty
      BY <3>1, <3>2, <3>3
    <3>. QED
      BY <3>2, <3>3, <3>4
  <2>. QED
    BY <1>1, <1>2, <2>1, <2>5, <2>6, <2>7, <2>8, <2>9 DEF EngineCounts
<1>. QED
  BY <1>3, <1>4, <1>5 DEF Note, Known

LEMMA EngineStaysCounting ==
    ASSUME TypeOK, Executed, NotesApplied, OneApplied, EngineCounts,
           FullIsFlat, [Next]_vars,
           \/ /\ engine'.remaining = engine.remaining
              /\ engine'.noted = engine.noted
              /\ engine'.closed = engine.closed
              /\ engine'.scale \in {engine.scale, FALSE}
           \/ \E t \in Threads : Note(t)
    PROVE  EngineCounts'
<1>1. /\ engine.noted \in [ExitOrders -> Quantity]
      /\ Quantity \subseteq Nat
  BY PositionQtyAssumption DEF TypeOK, ManagedPosition, Quantity
<1>2. /\ holdings \in Nat /\ holdings' \in Nat /\ holdings' =< holdings
      /\ \A o \in ExitOrders :
            mark[o] \in Nat /\ mark'[o] \in Nat /\ mark'[o] >= mark[o]
  BY NothingReturns, ExitOrdersAssumption
<1>3. CASE \E t \in Threads : Note(t)
  BY <1>3, NotesCount
<1>4. CASE /\ engine'.remaining = engine.remaining
           /\ engine'.noted = engine.noted
           /\ engine'.closed = engine.closed
           /\ engine'.scale \in {engine.scale, FALSE}
  <2>1. ~engine'.scale
    BY <1>4 DEF EngineCounts
  <2>2. \A o \in ExitOrders : engine'.noted[o] =< mark'[o]
    <3>1. ASSUME NEW o \in ExitOrders
          PROVE  engine.noted[o] =< mark'[o]
      <4>1. /\ engine.noted[o] =< mark[o]
            /\ engine.noted[o] \in Nat
        BY <1>1 DEF EngineCounts
      <4>. QED
        BY <1>2, <4>1
    <3>. QED
      BY <1>4, <3>1
  <2>3. engine'.closed => holdings' = 0
    BY <1>2, <1>4 DEF EngineCounts
  <2>4. ASSUME ~engine.closed, NEW o \in ExitOrders, mark'[o] > 0
        PROVE  engine.remaining = PositionQty - engine.noted[o]
    <3>1. CASE mark[o] > 0
      BY <2>4, <3>1 DEF EngineCounts
    <3>2. CASE mark[o] = 0
      <4>1. \A p \in ExitOrders : mark[p] = 0
        <5>1. PICK p \in ExitOrders : Converges(p) /\ Project(p)
          BY <2>4, <3>2, PositionSteps
        <5>2. p = o
          BY <2>4, <3>2, <5>1 DEF Project, TypeOK
        <5>3. position.remaining = PositionQty
          <6>1. position.remaining = PositionQty - mark[o]
            BY <5>1, <5>2 DEF Converges, RemainderProven
          <6>. QED
            BY <3>2, <6>1, PositionQtyAssumption
        <5>4. ASSUME NEW q \in ExitOrders, mark[q] > 0
              PROVE  FALSE
          BY <1>2, <5>3, <5>4, PositionQtyAssumption DEF OneApplied
        <5>. QED
          BY <1>2, <5>4
      <4>2. engine.remaining = PositionQty
        BY <2>4, <4>1 DEF EngineCounts
      <4>3. engine.noted[o] =< 0 /\ engine.noted[o] \in Nat
        BY <1>1, <3>2 DEF EngineCounts
      <4>. QED
        BY <4>2, <4>3, PositionQtyAssumption
    <3>. QED
      BY <1>2, <3>1, <3>2
  <2>5. ASSUME ~engine.closed, \A o \in ExitOrders : mark'[o] = 0
        PROVE  engine.remaining = PositionQty
    <3>1. \A o \in ExitOrders : mark[o] = 0
      BY <1>2, <2>5
    <3>. QED
      BY <2>5, <3>1 DEF EngineCounts
  <2>. QED
    BY <1>4, <2>1, <2>2, <2>3, <2>4, <2>5 DEF EngineCounts
<1>. QED
  BY <1>3, <1>4

\* For any orders, without the precheck: the engine never holds less than the
\* account, whatever the fill monitor and the reconciler report twice, late
\* or out of order, until a submission is marked after its order has begun
\* to execute.
THEOREM CountsOnceUnlessMarked ==
    ASSUME ~PositionSource
    PROVE  Spec => []CountedOnceUnlessMarked
<1>1. Init => CountInv
  <2>. SUFFICES ASSUME Init PROVE CountInv
    OBVIOUS
  <2>1. \A o \in ExitOrders : mark[o] = 0 /\ engine.noted[o] = 0
    BY DEF Init
  <2>2. /\ \A t \in Threads : pc[t] = "idle"
        /\ sight.pc = "idle"
        /\ ~engine.closed /\ ~engine.scale
        /\ engine.remaining = PositionQty
        /\ position.remaining = PositionQty
    BY DEF Init, NoSight
  <2>. QED
    BY <2>1, <2>2
    DEF CountInv, Unsighted, ClosedCounts, FullIsFlat, OneApplied,
        EngineCounts
<1>2. /\ TypeOK /\ Executed /\ ClosedOnlyWhenFlat /\ FinalInv /\ CountInv
      /\ [Next]_vars
      => CountInv'
  <2>. SUFFICES ASSUME TypeOK, Executed, ClosedOnlyWhenFlat, FinalInv,
                       CountInv, [Next]_vars
                PROVE  CountInv'
    OBVIOUS
  <2>1. Unsighted' /\ ~SyncEngine
    BY StaysUnsighted DEF CountInv
  <2>2. FullIsFlat'
    BY FullStaysFlat DEF CountInv
  <2>3. ClosedCounts'
    BY <2>1, MarkingSteps DEF CountInv
  <2>4. ASSUME NoneMarked' PROVE OneApplied' /\ EngineCounts'
    <3>1. /\ NoneMarked
          /\ \/ /\ engine'.remaining = engine.remaining
                /\ engine'.noted = engine.noted
                /\ engine'.closed = engine.closed
                /\ engine'.scale \in {engine.scale, FALSE}
             \/ \E t \in Threads : Note(t)
      BY <2>1, <2>4, MarkingSteps DEF CountInv
    <3>2. /\ Unsighted /\ FullIsFlat /\ NotesApplied
          /\ OneApplied /\ EngineCounts
      BY <3>1 DEF CountInv, FinalInv
    <3>3. OneApplied'
      BY <3>2, OneStaysApplied
    <3>4. EngineCounts'
      BY <3>1, <3>2, EngineStaysCounting
    <3>. QED
      BY <3>3, <3>4
  <2>. QED
    BY <2>1, <2>2, <2>3, <2>4 DEF CountInv
<1>3. TypeOK /\ Executed /\ FinalInv /\ CountInv => CountedOnceUnlessMarked
  <2>. SUFFICES ASSUME TypeOK, Executed, FinalInv, OneApplied, EngineCounts
                PROVE  engine.remaining >= holdings
    BY DEF CountInv, CountedOnceUnlessMarked
  <2>1. /\ holdings \in 0..PositionQty
        /\ engine.remaining \in Nat
        /\ engine.noted \in [ExitOrders -> Quantity]
    BY PositionQtyAssumption DEF TypeOK, ManagedPosition, Quantity
  <2>2. CASE engine.closed
    BY <2>1, <2>2 DEF EngineCounts
  <2>3. ASSUME ~engine.closed, NEW o \in ExitOrders, mark[o] > 0
        PROVE  engine.remaining >= holdings
    <3>1. /\ engine.remaining = PositionQty - engine.noted[o]
          /\ engine.noted[o] =< mark[o]
          /\ engine.noted[o] \in Int
      BY <2>1, <2>3, PositionQtyAssumption DEF EngineCounts, Quantity
    <3>2. Disjoint
      BY DEF FinalInv
    <3>. QED
      BY <2>1, <3>1, <3>2, Chain, PositionQtyAssumption
  <2>4. ASSUME ~engine.closed, \A o \in ExitOrders : mark[o] = 0
        PROVE  engine.remaining >= holdings
    BY <2>1, <2>4, PositionQtyAssumption DEF EngineCounts
  <2>5. \A o \in ExitOrders : mark[o] > 0 \/ mark[o] = 0
    BY PositionQtyAssumption DEF TypeOK, Quantity
  <2>. QED
    BY <2>2, <2>3, <2>4, <2>5
<1>. QED
  BY <1>1, <1>2, <1>3, TypeCorrect, OnlyExecutedReported, ClosedIsFlat,
     PositionIsShared, PTL DEF Spec

-----------------------------------------------------------------------------
(* The refinement: ExitFill implements FillAccounting. *)

\* An order was sent and its row shows that: a submission that has not come
\* back from the broker leaves it EXIT_REQUESTED.
Shown(o) ==
    /\ broker[o].state # "unsent"
    /\ ~(submit.pc = "posted" /\ submit.order = o)

\* The row of such an order shows a status of the broker's, and goes on
\* showing one.
RowsOfSent ==
    \A o \in ExitOrders :
        IF Shown(o) THEN rows[o].status \in Working \cup Terminal
        ELSE rows[o].status = "EXIT_REQUESTED"

\* A thread is only at work for such an order.
CallsForSent ==
    \A t \in Threads : pc[t] # "idle" => Shown(job[t].order)

\* An order is sent once, and while no other one works.
SendsOne ==
    /\ submit.pc = "decided" =>
          NoExitActive /\ broker[submit.order].state = "unsent"
    /\ submit.pc = "posted" => broker[submit.order].state # "unsent"

SentInv == RowsOfSent /\ CallsForSent /\ SendsOne

\* A thread keeps its order, and takes one up that works at the broker.
LEMMA CallSteps ==
    ASSUME TypeOK, [Next]_vars, NEW t \in Threads, pc'[t] # "idle"
    PROVE  /\ job'[t].order \in ExitOrders
           /\ \/ pc[t] # "idle" /\ job'[t].order = job[t].order
              \/ rows[job'[t].order].status \in Working
<1> DEFINE Kept == pc[t] # "idle" /\ job'[t].order = job[t].order
<1>1. /\ job \in [Threads -> Job] /\ pc \in [Threads -> Statements]
      /\ \A v \in Threads : job[v].order \in ExitOrders
  BY DEF TypeOK, Job
<1>2. ASSUME UNCHANGED <<pc, job>>
      PROVE  Kept
  BY <1>2
<1>3. ASSUME NEW v \in Threads, pc[v] # "idle",
             Leave(v) \/ Second(v) \/ Failed(v) \/ Succeeded(v)
      PROVE  Kept
  BY <1>1, <1>3 DEF Leave, Second, Failed, Succeeded, Job
<1>4. ASSUME NEW v \in Threads, pc[v] # "idle", NEW to,
             pc' = [pc EXCEPT ![v] = to],
             \/ UNCHANGED job
             \/ \E r, n : job' = [job EXCEPT ![v].result = r, ![v].count = n]
             \/ \E n : job' = [job EXCEPT ![v].count = n]
             \/ \E req : job' = [job EXCEPT ![v].req = req,
                                           ![v].then = "nothing"]
      PROVE  Kept
  <2>1. pc[t] # "idle"
    <3>1. v # t => pc'[t] = pc[t]
      BY <1>1, <1>4
    <3>. QED
      BY <1>4, <3>1
  <2>2. ASSUME NEW r, NEW n,
               job' = [job EXCEPT ![v].result = r, ![v].count = n]
        PROVE  job'[t].order = job[t].order
    BY <1>1, <2>2 DEF Job
  <2>3. ASSUME NEW n, job' = [job EXCEPT ![v].count = n]
        PROVE  job'[t].order = job[t].order
    BY <1>1, <2>3 DEF Job
  <2>4. ASSUME NEW req,
               job' = [job EXCEPT ![v].req = req, ![v].then = "nothing"]
        PROVE  job'[t].order = job[t].order
    BY <1>1, <2>4 DEF Job
  <2>. QED
    BY <1>4, <2>1, <2>2, <2>3, <2>4
<1>5. ASSUME NEW v \in Threads, Continue(v)
      PROVE  Kept
  <2>1. pc[v] # "idle"
    BY <1>5 DEF Continue, Commit, Converge, Note, Persist, Again, Clear, Reopen
  <2>2. CASE Commit(v)
    <3>1. \/ Leave(v) \/ Second(v) \/ Failed(v) \/ Succeeded(v)
          \/ (\E to : pc' = [pc EXCEPT ![v] = to]) /\ UNCHANGED job
      BY <2>2 DEF Commit
    <3>2. CASE (\E to : pc' = [pc EXCEPT ![v] = to]) /\ UNCHANGED job
      <4>1. PICK to : pc' = [pc EXCEPT ![v] = to]
        BY <3>2
      <4>. QED
        BY <1>4, <2>1, <3>2, <4>1
    <3>3. CASE Leave(v) \/ Second(v) \/ Failed(v) \/ Succeeded(v)
      BY <1>3, <2>1, <3>3
    <3>. QED
      BY <3>1, <3>2, <3>3
  <2>3. CASE Converge(v)
    <3>1. \/ Leave(v) \/ Second(v) \/ Failed(v) \/ Succeeded(v)
          \/ /\ pc' = [pc EXCEPT ![v] = "note"]
             /\ job' = [job EXCEPT ![v].result = Result(job[v].order),
                                   ![v].count = rows[job[v].order].filled]
      BY <2>3 DEF Converge
    <3>2. ASSUME NEW r, NEW n, pc' = [pc EXCEPT ![v] = "note"],
                 job' = [job EXCEPT ![v].result = r, ![v].count = n]
          PROVE  Kept
      BY <1>4, <2>1, <3>2
    <3>. HIDE DEF Kept
    <3>. QED
      BY <1>3, <2>1, <3>1, <3>2
  <2>4. CASE Note(v)
    BY <1>3, <1>4, <2>1, <2>4 DEF Note
  <2>5. CASE Again(v)
    BY <1>3, <1>4, <2>1, <2>5 DEF Again
  <2>6. CASE Persist(v) \/ Clear(v) \/ Reopen(v)
    BY <1>3, <1>4, <2>1, <2>6 DEF Persist, Clear, Reopen
  <2>. QED
    BY <1>5, <2>2, <2>3, <2>4, <2>5, <2>6 DEF Continue
<1>6. ASSUME NEW o \in ExitOrders,
             Poll(o) \/ Reconcile(o) \/ StaleAcknowledged(o)
      PROVE  /\ job'[t].order \in ExitOrders
             /\ Kept \/ rows[job'[t].order].status \in Working
  <2>1. \E v \in Threads : \E req, then : Begin(v, o, req, then)
    BY <1>6 DEF Poll, Reconcile, StaleAcknowledged, Threads
  <2>2. rows[o].status \in Working
    BY <1>6 DEF Poll, Reconcile, StaleAcknowledged, Working, ExitActive
  <2>3. ASSUME NEW v \in Threads, NEW req, NEW then, Begin(v, o, req, then)
        PROVE  job'[t].order = IF v = t THEN o ELSE job[t].order
    BY <1>1, <2>3 DEF Begin
  <2>4. ASSUME NEW v \in Threads, NEW req, NEW then, Begin(v, o, req, then),
               v # t
        PROVE  pc[t] # "idle"
    BY <1>1, <2>4 DEF Begin
  <2>. QED
    BY <1>1, <2>1, <2>2, <2>3, <2>4
<1>7. ASSUME \/ \E o \in ExitOrders : Execute(o) \/ EndAtBroker(o) \/ Heal(o)
             \/ UNCHANGED vars \/ Submits \/ Observe \/ SyncRow \/ SyncEngine
      PROVE  UNCHANGED <<pc, job>>
  BY <1>7, SubmitSteps
  DEF Execute, EndAtBroker, Heal, vars, Observe, SyncRow, SyncEngine
<1>. QED
  BY <1>1, <1>2, <1>5, <1>6, <1>7 DEF Next, Submits

\* Rows are written by the submission and by transition() only.
LEMMA RowSteps ==
    ASSUME [Next]_vars
    PROVE  \/ UNCHANGED rows
           \/ Submitted
           \/ \E t \in Threads : Commit(t)
BY DEF Next, vars, Decide, GiveUp, Post, Tell, MarkSubmitted, Own, Execute,
       EndAtBroker, Poll, Reconcile, StaleAcknowledged, Heal, Begin, Continue,
       Converge, Note, Persist, Again, Clear, Reopen, Observe, SyncRow,
       SyncEngine

\* Neither does anything else touch the submission.
LEMMA CallerSteps ==
    ASSUME [Next]_vars
    PROVE  UNCHANGED submit \/ Submits
BY DEF Next, Submits, vars, Execute, EndAtBroker, Poll, Reconcile,
       StaleAcknowledged, Heal, Begin, Continue, Commit, Converge, Note,
       Persist, Again, Clear, Reopen, Observe, SyncRow, SyncEngine

\* What transition() writes into the row of a call.
LEMMA CommitWrites ==
    ASSUME TypeOK, NEW t \in Threads, Commit(t)
    PROVE  LET o == job[t].order IN
           /\ o \in ExitOrders
           /\ pc[t] = "commit"
           /\ UNCHANGED <<holdings, broker, mark, position>>
           /\ \A p \in ExitOrders : p # o => rows'[p] = rows[p]
           /\ \/ /\ rows'[o].status = rows[o].status
                 /\ rows'[o].filled = rows[o].filled
              \/ /\ rows[o].status \notin Terminal
                 /\ \/ rows'[o].status = rows[o].status
                    \/ rows'[o].status \in Transitions[rows[o].status]
                 /\ rows'[o].filled >= rows[o].filled
<1> DEFINE o == job[t].order
           req == job[t].req
<1>1. /\ o \in ExitOrders /\ req \in Request /\ rows[o] \in Row
      /\ rows \in [ExitOrders -> Row]
  BY DEF TypeOK, Job
<1>2. rows[o].filled \in Int /\ req.fill \in NoFill..PositionQty
  BY <1>1 DEF Row, Request
<1>3. /\ pc[t] = "commit"
      /\ UNCHANGED <<holdings, broker, mark, position>>
      /\ \/ rows' = rows
         \/ /\ ~Refused(rows[o], req) /\ Legal(rows[o], req)
            /\ rows' = [rows EXCEPT ![o] = Updated(rows[o], req)]
         \/ rows' = [rows EXCEPT ![o] = ErrorRecorded(rows[o])]
  BY DEF Commit
<1>4. CASE /\ ~Refused(rows[o], req) /\ Legal(rows[o], req)
           /\ rows' = [rows EXCEPT ![o] = Updated(rows[o], req)]
  <2>1. /\ rows'[o].status = req.new
        /\ rows'[o].filled = IF req.fill = NoFill THEN rows[o].filled
                             ELSE req.fill
    BY <1>1, <1>4 DEF Updated, Row
  <2>2. rows'[o].filled >= rows[o].filled
    BY <1>2, <1>4, <2>1, PositionQtyAssumption
    DEF Refused, FillRegresses, NoFill
  <2>3. /\ rows[o].status \notin Terminal
        /\ rows[o].status = req.new \/ req.new \in Transitions[rows[o].status]
    BY <1>4 DEF Legal
  <2>. QED
    BY <1>1, <1>3, <1>4, <2>1, <2>2, <2>3
<1>5. CASE rows' = [rows EXCEPT ![o] = ErrorRecorded(rows[o])]
  <2>1. /\ ErrorRecorded(rows[o]).status = rows[o].status
        /\ ErrorRecorded(rows[o]).filled = rows[o].filled
    BY <1>1 DEF ErrorRecorded, Row
  <2>. QED
    BY <1>1, <1>3, <1>5, <2>1
<1>. QED
  BY <1>1, <1>3, <1>4, <1>5

LEMMA TableFacts ==
    /\ "EXIT_REQUESTED" \notin Working \cup Terminal
    /\ Working \cap Terminal = {}
    /\ \A s \in Working : Transitions[s] \subseteq Working \cup Terminal
<1>1. Working = {"EXIT_SUBMITTED", "EXIT_ACKNOWLEDGED", "EXIT_PARTIAL_FILL"}
  BY DEF Working, ExitActive
<1>2. /\ Transitions["EXIT_SUBMITTED"] =
            {"EXIT_ACKNOWLEDGED", "EXIT_PARTIAL_FILL", "EXIT_FILLED"}
               \cup Failures
      /\ Transitions["EXIT_ACKNOWLEDGED"] = ExitFillStatuses \cup Failures
      /\ Transitions["EXIT_PARTIAL_FILL"] = {"EXIT_FILLED"} \cup Failures
  BY DEF Transitions, Status, EntryActive, ExitActive, PreTrade, Terminal
<1>. QED
  BY <1>1, <1>2 DEF Terminal, Failures, ExitFillStatuses

\* An order that shows as sent goes on doing so; another one comes to it by
\* the commit of its submission.
LEMMA ShownSteps ==
    ASSUME TypeOK, SendsOne, [Next]_vars, NEW o \in ExitOrders
    PROVE  /\ Shown(o) => Shown(o)'
           /\ ~Shown(o) /\ Shown(o)' => Submitted /\ submit.order = o
<1>1. broker \in [ExitOrders -> AtBroker] /\ submit \in Submission
  BY DEF TypeOK
<1>2. submit.order \in ExitOrders
  BY <1>1 DEF Submission
<1>3. ASSUME NEW p \in ExitOrders, Execute(p) \/ EndAtBroker(p)
      PROVE  /\ (broker'[o].state # "unsent") = (broker[o].state # "unsent")
             /\ UNCHANGED submit
  BY <1>1, <1>3 DEF Execute, EndAtBroker, AtBroker
<1>4. CASE Post
  <2>1. /\ submit'.pc = "posted" /\ submit'.order = submit.order
        /\ submit.pc = "decided"
        /\ broker'[submit.order].state = "working"
        /\ o # submit.order => broker'[o] = broker[o]
    BY <1>1, <1>2, <1>4 DEF Post, Submission, AtBroker
  <2>2. broker[submit.order].state = "unsent"
    BY <2>1 DEF SendsOne
  <2>. QED
    BY <2>1, <2>2 DEF Shown
<1>5. CASE Submits /\ ~Post
  <2>1. broker' = broker
    BY <1>5 DEF Submits, Decide, GiveUp, Submitted, Tell, MarkSubmitted, Own
  <2>2. submit.pc = "posted" => Submitted
    BY <1>5 DEF Submits, Decide, GiveUp, Tell, MarkSubmitted, Own
  <2>3. submit'.pc # "posted"
    BY <1>1, <1>5 DEF Submits, Decide, GiveUp, Submitted, Tell, MarkSubmitted,
                      Own, NoSubmission, Submission
  <2>. QED
    BY <2>1, <2>2, <2>3 DEF Shown
<1>6. CASE UNCHANGED broker /\ UNCHANGED submit
  BY <1>6 DEF Shown
<1>. QED
  BY <1>3, <1>4, <1>5, <1>6, BrokerSteps, CallerSteps DEF Shown

LEMMA RowsStaySent ==
    ASSUME TypeOK, SentInv, [Next]_vars
    PROVE  RowsOfSent'
<1>1. rows \in [ExitOrders -> Row] /\ submit.order \in ExitOrders
  BY DEF TypeOK, Submission
<1>. SUFFICES ASSUME NEW o \in ExitOrders
              PROVE  IF Shown(o)'
                        THEN rows'[o].status \in Working \cup Terminal
                        ELSE rows'[o].status = "EXIT_REQUESTED"
  BY DEF RowsOfSent, Shown
<1>2. /\ Shown(o) => Shown(o)'
      /\ ~Shown(o) /\ Shown(o)' => Submitted /\ submit.order = o
  BY ShownSteps DEF SentInv
<1>3. IF Shown(o) THEN rows[o].status \in Working \cup Terminal
      ELSE rows[o].status = "EXIT_REQUESTED"
  BY DEF SentInv, RowsOfSent
<1>4. CASE Submitted /\ submit.order = o
  <2>1. /\ broker[o].state # "unsent" /\ broker' = broker
        /\ submit'.pc = "submitted"
    BY <1>4 DEF Submitted, SentInv, SendsOne, TypeOK, Submission
  <2>2. rows'[o].status = "EXIT_SUBMITTED"
    BY <1>1, <1>4 DEF Submitted, Row
  <2>. QED
    BY <2>1, <2>2 DEF Shown, Working, ExitActive
<1>5. CASE rows'[o].status = rows[o].status /\ ~(Submitted /\ submit.order = o)
  BY <1>2, <1>3, <1>5
<1>6. CASE rows'[o].status # rows[o].status /\ ~(Submitted /\ submit.order = o)
  <2>1. ~Submitted
    BY <1>1, <1>6 DEF Submitted
  <2>2. PICK t \in Threads : Commit(t)
    BY <1>6, <2>1, RowSteps
  <2>3. /\ job[t].order = o /\ pc[t] = "commit"
        /\ rows[o].status \notin Terminal
        /\ rows'[o].status \in Transitions[rows[o].status]
    BY <1>6, <2>2, CommitWrites
  <2>4. Shown(o)
    BY <2>3 DEF SentInv, CallsForSent
  <2>. QED
    BY <1>2, <1>3, <2>3, <2>4, TableFacts
<1>. QED
  BY <1>4, <1>5, <1>6

LEMMA CallsStayForSent ==
    ASSUME TypeOK, SentInv, [Next]_vars
    PROVE  CallsForSent'
<1>. SUFFICES ASSUME NEW t \in Threads, pc'[t] # "idle",
                     NEW o, o = job'[t].order
              PROVE  Shown(o)'
  BY DEF CallsForSent, Shown
<1>1. /\ o \in ExitOrders
      /\ \/ pc[t] # "idle" /\ o = job[t].order
         \/ rows[o].status \in Working
  BY CallSteps
<1>2. Shown(o)
  BY <1>1, TableFacts DEF SentInv, CallsForSent, RowsOfSent
<1>. QED
  BY <1>1, <1>2, ShownSteps DEF SentInv

LEMMA SendsStayOne ==
    ASSUME TypeOK, SentInv, [Next]_vars
    PROVE  SendsOne'
<1>1. broker \in [ExitOrders -> AtBroker] /\ submit \in Submission
  BY DEF TypeOK
<1>2. submit.order \in ExitOrders
  BY <1>1 DEF Submission
<1>3. ASSUME UNCHANGED submit, submit.pc = "decided", NEW o \in ExitOrders
      PROVE  rows'[o].status \notin Working
  <2>1. rows[o].status \notin Working
    BY <1>3 DEF SentInv, SendsOne, NoExitActive
  <2>2. ~Submitted
    BY <1>3 DEF Submitted
  <2>3. ASSUME NEW t \in Threads, Commit(t)
        PROVE  rows'[o].status = rows[o].status
    <3>1. CASE o # job[t].order
      BY <2>3, <3>1, CommitWrites
    <3>2. CASE o = job[t].order
      <4>1. Shown(o)
        BY <2>3, <3>2, CommitWrites DEF SentInv, CallsForSent
      <4>2. rows[o].status \in Terminal
        BY <2>1, <4>1 DEF SentInv, RowsOfSent
      <4>. QED
        BY <2>3, <3>2, <4>2, CommitWrites
    <3>. QED
      BY <3>1, <3>2
  <2>. QED
    BY <2>1, <2>2, <2>3, RowSteps
<1>4. CASE UNCHANGED submit
  <2>1. (broker'[submit.order].state = "unsent")
           = (broker[submit.order].state = "unsent")
        \/ Post
    BY <1>1, <1>2, BrokerSteps DEF Execute, EndAtBroker, AtBroker
  <2>2. ~Post
    BY <1>1, <1>4 DEF Post, Submission
  <2>. QED
    BY <1>3, <1>4, <2>1, <2>2 DEF SentInv, SendsOne, NoExitActive
<1>5. ASSUME NEW o \in ExitOrders, Decide(o)
      PROVE  SendsOne'
  BY <1>5 DEF Decide, SendsOne, NoExitActive
<1>6. CASE Post
  BY <1>1, <1>2, <1>6 DEF Post, SendsOne, Submission, AtBroker
<1>7. CASE GiveUp \/ Submitted \/ Tell \/ MarkSubmitted \/ Own
  <2>1. submit'.pc \notin {"decided", "posted"}
    BY <1>1, <1>7 DEF GiveUp, Submitted, Tell, MarkSubmitted, Own,
                      NoSubmission, Submission
  <2>. QED
    BY <2>1 DEF SendsOne
<1>. QED
  BY <1>4, <1>5, <1>6, <1>7, CallerSteps DEF Submits

-----------------------------------------------------------------------------
(* The steps, as FillAccounting sees them. *)

Counts == <<holdings, Account, position.status = "CLOSED">>

LEMMA AccountFields ==
    ASSUME NEW o \in ExitOrders
    PROVE  /\ Account[o].sent = (broker[o].state # "unsent")
           /\ Account[o].executed = broker[o].executed
           /\ Account[o].durable = rows[o].filled
           /\ Account[o].applied = mark[o]
           /\ Account[o].over = (rows[o].status \in Terminal)
BY DEF Account

LEMMA PostSends ==
    ASSUME TypeOK, SentInv, Post
    PROVE  Accounting!Send(submit.order)
<1> DEFINE o == submit.order
<1>1. /\ broker \in [ExitOrders -> AtBroker]
      /\ rows \in [ExitOrders -> Row]
      /\ o \in ExitOrders
  BY DEF TypeOK, Submission
<1>2. /\ broker[o].state = "unsent"
      /\ NoExitActive
      /\ submit.pc # "posted"
  BY DEF Post, SentInv, SendsOne
<1>3. ~Account[o].sent
  BY <1>1, <1>2, AccountFields
<1>4. ASSUME NEW p \in ExitOrders, Account[p].sent
      PROVE  Account[p].over
  <2>1. Shown(p)
    BY <1>2, <1>4, AccountFields DEF Shown
  <2>2. rows[p].status \in Terminal
    BY <1>2, <2>1 DEF NoExitActive, SentInv, RowsOfSent
  <2>. QED
    BY <2>2, AccountFields
<1>5. Account' = [Account EXCEPT ![o].sent = TRUE]
  <2>1. /\ broker'[o].state = "working"
        /\ broker'[o].executed = broker[o].executed
        /\ rows' = rows
        /\ mark' = mark
    BY <1>1 DEF Post, AtBroker
  <2>2. \A p \in ExitOrders \ {o} : broker'[p] = broker[p]
    BY <1>1 DEF Post
  <2>. QED
    <3>1. /\ (broker[o].state # "unsent") = FALSE
          /\ (broker'[o].state # "unsent") = TRUE
          /\ (rows'[o].status \in Terminal) = (rows[o].status \in Terminal)
      BY <1>2, <2>1
    <3>2. Account'[o] = [Account[o] EXCEPT !.sent = TRUE]
      <4> DEFINE was == broker[o].state # "unsent"
                 ended == rows[o].status \in Terminal
                 yes == TRUE
      <4>1. Account[o] = [sent |-> was, executed |-> broker[o].executed,
                          durable |-> rows[o].filled, applied |-> mark[o],
                          over |-> ended]
        BY <1>1 DEF Account
      <4>2. Account'[o] = [sent |-> yes, executed |-> broker[o].executed,
                           durable |-> rows[o].filled, applied |-> mark[o],
                           over |-> ended]
        BY <1>1, <2>1, <3>1 DEF Account
      <4>. HIDE DEF was, ended, yes
      <4>3. Account'[o] = [Account[o] EXCEPT !.sent = yes]
        BY <4>1, <4>2
      <4>. QED
        BY <4>3 DEF yes
    <3>3. \A p \in ExitOrders \ {o} : Account'[p] = Account[p]
      BY <2>1, <2>2 DEF Account
    <3>4. /\ Account = [p \in ExitOrders |-> Account[p]]
          /\ Account' = [p \in ExitOrders |-> Account'[p]]
      BY DEF Account
    <3>. HIDE DEF Account
    <3>. QED
      BY <1>1, <3>2, <3>3, <3>4
<1>. QED
  BY <1>3, <1>4, <1>5 DEF Accounting!Send, Post

\* The account has nothing to say about what else a submission does.
LEMMA SubmitsStutter ==
    ASSUME TypeOK, SentInv, Submits, ~Post
    PROVE  UNCHANGED Counts
<1>1. UNCHANGED <<holdings, broker, mark, position>>
  BY SubmitSteps
  DEF Submits, Decide, GiveUp, Submitted, Tell, MarkSubmitted, Own
<1>2. CASE UNCHANGED rows
  BY <1>1, <1>2 DEF Counts, Account
<1>3. CASE Submitted
  <2> DEFINE o == submit.order
  <2>1. o \in ExitOrders /\ rows \in [ExitOrders -> Row]
    BY DEF TypeOK, Submission
  <2>2. rows[o].status = "EXIT_REQUESTED"
    BY <1>3, <2>1 DEF Submitted, SentInv, RowsOfSent, Shown
  <2>3. rows'[o].status = "EXIT_SUBMITTED" /\ rows'[o].filled = rows[o].filled
    BY <1>3, <2>1 DEF Submitted, Row
  <2>4. \A p \in ExitOrders :
           /\ rows'[p].filled = rows[p].filled
           /\ (rows'[p].status \in Terminal) = (rows[p].status \in Terminal)
    <3>1. \A p \in ExitOrders : p # o => rows'[p] = rows[p]
      BY <1>3, <2>1 DEF Submitted
    <3>2. "EXIT_REQUESTED" \notin Terminal /\ "EXIT_SUBMITTED" \notin Terminal
      BY DEF Terminal, Failures
    <3>. QED
      BY <2>2, <2>3, <3>1, <3>2
  <2>5. Account' = Account
    BY <1>1, <2>4 DEF Account
  <2>. QED
    BY <1>1, <2>5 DEF Counts
<1>. QED
  BY <1>2, <1>3 DEF Submits, Decide, GiveUp, Tell, MarkSubmitted, Own

LEMMA ExecuteExecutes ==
    ASSUME TypeOK, NEW o \in ExitOrders, Execute(o)
    PROVE  Accounting!Execute(o)
<1>1. broker \in [ExitOrders -> AtBroker]
  BY DEF TypeOK
<1>2. Account[o].sent /\ Account[o].executed < Asked[o]
  BY AccountFields DEF Execute
<1>3. Account' = [Account EXCEPT ![o].executed = @ + 1]
  <2>1. /\ broker'[o].state = broker[o].state
        /\ broker'[o].executed = broker[o].executed + 1
        /\ \A p \in ExitOrders \ {o} : broker'[p] = broker[p]
        /\ rows' = rows /\ mark' = mark
    BY <1>1 DEF Execute, AtBroker
  <2>. QED
    BY <2>1 DEF Account
<1>. QED
  BY <1>2, <1>3 DEF Accounting!Execute, Execute

LEMMA CommitReports ==
    ASSUME TypeOK, Executed', CallsForSent, NEW t \in Threads, Commit(t),
           TypeOK'
    PROVE  Accounting!Report(job[t].order) \/ UNCHANGED Counts
<1> DEFINE o == job[t].order
           n == rows'[o].filled
           end == rows'[o].status \in Terminal
<1>1. /\ o \in ExitOrders /\ pc[t] = "commit"
      /\ UNCHANGED <<holdings, broker, mark, position>>
      /\ \A p \in ExitOrders : p # o => rows'[p] = rows[p]
  BY CommitWrites
<1>2. CASE rows'[o].status = rows[o].status /\ rows'[o].filled = rows[o].filled
  <2>1. Account' = Account
    BY <1>1, <1>2 DEF Account
  <2>. QED
    BY <1>1, <2>1 DEF Counts
<1>3. CASE rows[o].status \notin Terminal /\ rows'[o].filled >= rows[o].filled
  <2>1. Account' = [Account EXCEPT ![o].durable = n, ![o].over = end]
    BY <1>1 DEF Account
  <2>2. n \in Account[o].durable .. Account[o].executed
    <3>1. n =< broker'[o].executed
      BY <1>1 DEF Executed, AppliedWereExecuted
    <3>2. rows[o].filled \in Int /\ n \in Int /\ broker[o].executed \in Int
      BY <1>1, PositionQtyAssumption DEF TypeOK, Row, AtBroker, Quantity
    <3>. QED
      BY <1>1, <1>3, <3>1, <3>2, AccountFields
  <2>3. end \in BOOLEAN
    OBVIOUS
  <2>4. Account[o].sent /\ ~Account[o].over
    BY <1>1, <1>3, AccountFields DEF CallsForSent, Shown
  <2>5. UNCHANGED <<holdings, position.status = "CLOSED">>
    BY <1>1
  <2>. HIDE DEF n, end
  <2>. QED
    BY <2>1, <2>2, <2>3, <2>4, <2>5 DEF Accounting!Report
<1>. QED
  BY <1>2, <1>3, CommitWrites

LEMMA ConvergenceApplies ==
    ASSUME TypeOK, NEW o \in ExitOrders, Converges(o), Project(o),
           UNCHANGED <<holdings, broker, rows>>
    PROVE  Accounting!Apply(o) \/ UNCHANGED Counts
<1>1. mark \in [ExitOrders -> Quantity] /\ rows[o] \in Row
  BY DEF TypeOK
<1>2. CASE Delta(o) = 0
  BY <1>2 DEF Project, Counts, Account
<1>3. CASE Delta(o) # 0
  <2>1. /\ position' = Projected(o)
        /\ mark' = [mark EXCEPT ![o] = rows[o].filled]
    BY <1>3 DEF Project
  <2>2. /\ Delta(o) \in Int /\ position.remaining - Delta(o) \in Nat
        /\ Delta(o) \in Nat
        /\ position.remaining - Delta(o) = PositionQty - rows[o].filled
        /\ position.remaining \in Int /\ PositionQty \in Int
        /\ rows[o].filled \in Int /\ mark[o] \in Int
    BY <1>1, ConvergenceFits, PositionQtyAssumption
    DEF TypeOK, Position, Row, Quantity
  <2>3. position.status # "CLOSED"
    <3>1. position.remaining # 0
      BY <1>3, <2>2
    <3>. QED
      BY <3>1 DEF Converges
  <2>4. Account[o].applied < Account[o].durable
    <3>1. mark[o] =< rows[o].filled /\ mark[o] # rows[o].filled
      BY <1>3, <2>2 DEF Converges, Delta
    <3>. QED
      BY <2>2, <3>1, AccountFields
  <2>5. Account' = [Account EXCEPT ![o].applied = Account[o].durable]
    <3>1. /\ mark'[o] = rows[o].filled
          /\ \A p \in ExitOrders \ {o} : mark'[p] = mark[p]
      BY <1>1, <2>1
    <3>. QED
      BY <3>1 DEF Account
  <2>6. (position'.status = "CLOSED") = (Account[o].durable = PositionQty)
    <3>1. (Delta(o) = position.remaining) <=> (rows[o].filled = PositionQty)
      BY <2>2
    <3>2. (position'.status = "CLOSED") <=> (Delta(o) = position.remaining)
      BY <2>1 DEF Projected
    <3>. QED
      BY <3>1, <3>2, AccountFields
  <2>. QED
    BY <2>3, <2>4, <2>5, <2>6 DEF Accounting!Apply
<1>. QED
  BY <1>2, <1>3

\* Every step is one of the account's, or does not show in it.
LEMMA StepsKeepAccounts ==
    ASSUME TypeOK, TypeOK', Executed', SentInv, [Next]_vars
    PROVE  Accounting!Next \/ UNCHANGED Counts
<1>1. position \in Position /\ broker \in [ExitOrders -> AtBroker]
  BY DEF TypeOK
<1>2. CASE UNCHANGED <<holdings, broker, rows>>
  <2>1. CASE UNCHANGED mark /\ (position'.status = "CLOSED")
                                  = (position.status = "CLOSED")
    BY <1>2, <2>1 DEF Counts, Account
  <2>2. ASSUME NEW o \in ExitOrders, Converges(o), Project(o)
        PROVE  Accounting!Next \/ UNCHANGED Counts
    BY <1>2, <2>2, ConvergenceApplies DEF Accounting!Next
  <2>3. CASE UNCHANGED position
    BY <2>3, <2>1, <2>2, PositionSteps
  <2>4. ASSUME NEW t \in Threads, Persist(t)
        PROVE  position'.status = position.status
    BY <1>1, <2>4 DEF Persist, Position
  <2>5. ASSUME position.status = "CLOSING",
               position' = [position EXCEPT !.status = "OPEN"]
        PROVE  position'.status # "CLOSED" /\ position.status # "CLOSED"
    BY <1>1, <2>5 DEF Position
  <2>6. ASSUME RowOpen, position' = Synced(sight.qty)
        PROVE  position'.status # "CLOSED" /\ position.status # "CLOSED"
    BY <1>1, <2>6 DEF RowOpen, Synced, Position
  <2>. QED
    BY <2>1, <2>2, <2>4, <2>5, <2>6, PositionSteps
<1>3. ASSUME NEW o \in ExitOrders, EndAtBroker(o)
      PROVE  UNCHANGED Counts
  <2>1. \A p \in ExitOrders :
           /\ broker'[p].executed = broker[p].executed
           /\ (broker'[p].state # "unsent") = (broker[p].state # "unsent")
    BY <1>1, <1>3 DEF EndAtBroker, AtBroker
  <2>. QED
    BY <1>3, <2>1 DEF EndAtBroker, Counts, Account
<1>4. CASE \E t \in Threads : Commit(t)
  BY <1>4, CommitReports, CommitWrites DEF Accounting!Next, SentInv
<1>5. ASSUME NEW o \in ExitOrders, Execute(o)
      PROVE  Accounting!Next
  BY <1>5, ExecuteExecutes DEF Accounting!Next
<1>6. CASE Submits
  <2>1. Post => Accounting!Next
    BY PostSends DEF Accounting!Next, TypeOK, Submission
  <2>. QED
    BY <1>6, <2>1, SubmitsStutter
<1>7. Post \/ Submitted => Submits
  BY DEF Submits
<1>. QED
  BY <1>2, <1>3, <1>4, <1>5, <1>6, <1>7, BrokerSteps, RowSteps

\* For any orders, with and without the precheck: whatever the fill monitor,
\* the reconciler, the heal, the engine and its precheck overwrite of each
\* other, a contract goes from executed to durable to applied and never back,
\* for one order at a time, and the position closes for good with its last.
THEOREM ExitsKeepAccounts == Spec => KeepsAccounts
<1>1. Init => Accounting!Init
  <2>. SUFFICES ASSUME Init PROVE Accounting!Init
    OBVIOUS
  <2>1. /\ \A o \in ExitOrders : /\ broker[o].state = "unsent"
                                 /\ broker[o].executed = 0
                                 /\ rows[o].filled = 0 /\ mark[o] = 0
                                 /\ rows[o].status = "EXIT_REQUESTED"
        /\ position.status = "OPEN" /\ holdings = PositionQty
    BY DEF Init, NewRow
  <2>2. "EXIT_REQUESTED" \notin Terminal
    BY DEF Terminal, Failures
  <2>. QED
    <3>1. ASSUME NEW o \in ExitOrders
          PROVE  Account[o] = Accounting!Unsent
      <4>1. /\ (broker[o].state # "unsent") = FALSE
            /\ (rows[o].status \in Terminal) = FALSE
        BY <2>1, <2>2
      <4>. QED
        BY <2>1, <4>1 DEF Account, Accounting!Unsent
    <3>2. Account = [o \in ExitOrders |-> Accounting!Unsent]
      BY <3>1 DEF Account
    <3>3. (position.status = "CLOSED") = FALSE
      BY <2>1
    <3>. QED
      BY <2>1, <3>2, <3>3 DEF Accounting!Init
<1>2. Init => SentInv
  <2>. SUFFICES ASSUME Init PROVE SentInv
    OBVIOUS
  <2>1. submit.pc = "idle"
    BY DEF Init, NoSubmission
  <2>2. \A o \in ExitOrders :
           broker[o].state = "unsent" /\ rows[o].status = "EXIT_REQUESTED"
    BY DEF Init, NewRow
  <2>3. \A t \in Threads : pc[t] = "idle"
    BY DEF Init
  <2>. QED
    BY <2>1, <2>2, <2>3
    DEF SentInv, RowsOfSent, CallsForSent, SendsOne, Shown
<1>3. TypeOK /\ SentInv /\ [Next]_vars => SentInv'
  BY RowsStaySent, CallsStayForSent, SendsStayOne DEF SentInv
<1>4. /\ TypeOK /\ TypeOK' /\ Executed' /\ SentInv /\ [Next]_vars
      => [Accounting!Next]_Counts
  BY StepsKeepAccounts
<1>. QED
  BY <1>1, <1>2, <1>3, <1>4, TypeCorrect, OnlyExecutedReported, PTL
  DEF Spec, KeepsAccounts, Accounting!Spec, Counts

=============================================================================
