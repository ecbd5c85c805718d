------------------------- MODULE OrderPromiseProofs -------------------------
(***************************************************************************)
(* OrderLifecycle implements OrderPromise for any number of rows, workers, *)
(* identities and contracts.  What the two need of each other beyond the   *)
(* invariants of OrderLifecycleProofs is that nobody writes into a row     *)
(* more than the broker has said: no identity before the order was sent,   *)
(* no status of an order at the broker without its identity, no more       *)
(* contracts than were executed.                                           *)
(***************************************************************************)
EXTENDS OrderLifecycleProofs

\* A request, and a row, that says no more than there is to say of an order
\* that was sent "sent" times and of which "done" contracts were executed.
Backed(req, sent, done) ==
    /\ req.bid # NoBroker => sent > 0
    /\ req.new \in Promise!AtBroker => req.bid # NoBroker
    /\ req.fill =< done

Shows(row, sent, done) ==
    /\ row.broker # NoBroker => sent > 0
    /\ row.status \in Promise!AtBroker => row.broker # NoBroker
    /\ row.filled =< done

ReportsBacked ==
    \A w \in Workers :
        Backed(job[w].req, submissions[job[w].order], executed[job[w].order])

FlagsNamed ==
    \A w \in Workers : pc[w] = "flag" => job[w].req.bid # NoBroker

RowsBacked == \A o \in Orders : Shows(orders[o], submissions[o], executed[o])

AllBacked == ReportsBacked /\ FlagsNamed /\ RowsBacked

LEMMA AtBrokerFacts ==
    /\ Promise!AtBroker \subseteq Status
    /\ Promise!AtBroker \cap PreTrade = {}
    /\ Promise!AtBroker \cap Failures = {}
    /\ "EXIT_REQUESTED" \notin Promise!AtBroker
BY DEF Promise!AtBroker, Promise!Status, Promise!PreTrade, Promise!Failures,
       Promise!EntryActive, Promise!ExitActive, Promise!Terminal, Status,
       PreTrade, Failures, EntryActive, ExitActive, Terminal

LEMMA SameTable ==
    /\ Promise!Status = Status
    /\ Promise!Terminal = Terminal
    /\ Promise!Transitions = Transitions
BY DEF Promise!Status, Promise!PreTrade, Promise!Failures, Promise!EntryActive,
       Promise!ExitActive, Promise!Terminal, Promise!Transitions,
       Promise!ExitFillStatuses, Status, PreTrade, Failures, EntryActive,
       ExitActive, Terminal, Transitions, ExitFillStatuses

-----------------------------------------------------------------------------
(* The broker forgets nothing. *)

LEMMA BrokerRemembers ==
    ASSUME TypeOK, [Next]_vars, NEW o \in Orders
    PROVE  /\ submissions[o] \in Nat /\ submissions'[o] \in Nat
           /\ submissions'[o] >= submissions[o]
           /\ executed[o] \in 0..Qty /\ executed'[o] \in Int
           /\ executed'[o] >= executed[o]
<1>1. submissions[o] \in Nat /\ executed[o] \in 0..Qty
  BY DEF TypeOK
<1>2. submissions'[o] = submissions[o] \/ submissions'[o] = submissions[o] + 1
  BY PostEndsAttempt
<1>3. executed'[o] = executed[o] \/ executed'[o] = executed[o] + 1
  <2>1. ASSUME NEW p \in Orders, Execute(p)
        PROVE  executed'[o] = executed[o] \/ executed'[o] = executed[o] + 1
    BY <2>1 DEF Execute, TypeOK
  <2>2. ASSUME NEW w \in Workers, Calls(w)
        PROVE  executed' = executed
    BY <2>2 DEF Calls, Arm, GiveUp, Watchdog, ExitGuard, Intend, AdoptByTag,
                Monitor, Reconciler
  <2>3. ASSUME NEW w \in Workers, Continue(w)
        PROVE  executed' = executed
    BY <2>3 DEF Continue, CheckPending, Prove, Post, Read, Update, Reread,
                RecordError, Flag, Resolve
  <2>4. ASSUME NEW p \in Orders, Retire(p)
        PROVE  executed' = executed
    BY <2>4 DEF Retire
  <2>. QED
    BY <2>1, <2>2, <2>3, <2>4 DEF Next, vars
<1>. QED
  BY <1>1, <1>2, <1>3, QtyAssumption

\* What was backed stays backed.
LEMMA BackedStays ==
    ASSUME TypeOK, [Next]_vars, NEW o \in Orders
    PROVE  /\ \A req \in Request :
                 Backed(req, submissions[o], executed[o]) =>
                     Backed(req, submissions'[o], executed'[o])
           /\ \A row \in Row :
                 Shows(row, submissions[o], executed[o]) =>
                     Shows(row, submissions'[o], executed'[o])
<1>1. /\ submissions[o] \in Nat /\ submissions'[o] \in Nat
      /\ submissions'[o] >= submissions[o]
      /\ executed[o] \in Int /\ executed'[o] \in Int
      /\ executed'[o] >= executed[o]
  BY BrokerRemembers
<1>2. \A req \in Request : req.fill \in Int
  BY QtyAssumption DEF Request, NoFill
<1>3. \A row \in Row : row.filled \in Int
  BY DEF Row
<1>. QED
  BY <1>1, <1>2, <1>3 DEF Backed, Shows

-----------------------------------------------------------------------------
(* What workers report. *)

\* A request with neither an identity nor a quantity, and no status of an
\* order at the broker, is backed by anything.
LEMMA BlankIsBacked ==
    ASSUME NEW s \in PreTrade \cup Failures, NEW sent, NEW done \in Nat
    PROVE  /\ Backed(MoveTo(s), sent, done)
           /\ Backed(Why(MoveTo(s)), sent, done)
           /\ \A b : Backed([Why(MoveTo(s)) EXCEPT !.owner = b], sent, done)
BY AtBrokerFacts DEF Backed, Why, MoveTo, NoFill

LEMMA NamedIsBacked ==
    ASSUME NEW sent \in Nat, sent > 0, NEW done \in Nat, NEW bid, bid # NoBroker
    PROVE  /\ \A kind : Backed(Submitted(kind, bid), sent, done)
           /\ Backed([MoveTo("CREATED") EXCEPT !.bid = bid], sent, done)
BY DEF Backed, Submitted, MoveTo, NoFill

LEMMA AnswersBacked ==
    ASSUME TypeOK, RowsBacked, NEW o \in Orders, orders[o].broker # NoBroker,
           NEW req \in Answers(o)
    PROVE  Backed(req, submissions[o], executed[o])
<1>1. executed[o] \in 0..Qty /\ submissions[o] > 0
  BY DEF TypeOK, RowsBacked, Shows
<1>2. ASSUME NEW s
      PROVE  /\ Backed(Answer(o, s), submissions[o], executed[o])
             /\ Backed(Why(Answer(o, s)), submissions[o], executed[o])
  BY <1>1 DEF Backed, Answer, Why, MoveTo, NoFill
<1>3. ASSUME NEW s, NEW t
      PROVE  Backed(FillAnswer(o, s, t), submissions[o], executed[o])
  BY <1>1 DEF Backed, FillAnswer, Answer, MoveTo
<1>. QED
  BY <1>2, <1>3 DEF Answers

\* A caller starts with a request that is backed.
LEMMA CallsBacked ==
    ASSUME TypeOK, RowsBacked, NEW w \in Workers, Calls(w)
    PROVE  /\ UNCHANGED <<submissions, executed>>
           /\ Backed(job'[w].req, submissions[job'[w].order],
                     executed[job'[w].order])
           /\ pc'[w] # "flag"
<1>1. pc \in [Workers -> Statements] /\ job \in [Workers -> Job]
  BY DEF TypeOK
<1>2. PICK o \in Orders :
         \/ Arm(w, o) \/ GiveUp(w, o) \/ Watchdog(w, o) \/ ExitGuard(w, o)
         \/ Intend(w, o) \/ AdoptByTag(w, o) \/ Monitor(w, o)
         \/ Reconciler(w, o)
  BY DEF Calls
<1>3. executed[o] \in Nat /\ submissions[o] \in Nat
  BY QtyAssumption DEF TypeOK
<1>4. PICK statement, by, req :
         /\ Start(w, statement, by, o, req)
         /\ statement # "flag"
         /\ Backed(req, submissions[o], executed[o])
  <2>1. CASE \/ Arm(w, o) \/ GiveUp(w, o) \/ Watchdog(w, o) \/ ExitGuard(w, o)
             \/ Intend(w, o)
    BY <1>3, <2>1, BlankIsBacked
    DEF Arm, GiveUp, Watchdog, ExitGuard, Intend, PreTrade, Failures
  <2>2. CASE AdoptByTag(w, o)
    BY <1>3, <2>2, NamedIsBacked, BrokerAssumption DEF AdoptByTag
  <2>3. CASE Monitor(w, o)
    BY <2>3, AnswersBacked DEF Monitor
  <2>4. CASE Reconciler(w, o)
    BY <1>3, <2>4, NamedIsBacked DEF Reconciler, RowsBacked, Shows
  <2>. QED
    BY <1>2, <2>1, <2>2, <2>3, <2>4
<1>5. UNCHANGED <<submissions, executed>>
  BY <1>2 DEF Arm, GiveUp, Watchdog, ExitGuard, Intend, AdoptByTag, Monitor,
              Reconciler
<1>. QED
  BY <1>1, <1>4, <1>5 DEF Start

\* A worker that goes on carries the same request, none, or what the broker
\* answered to the POST it just made.
LEMMA ContinueBacked ==
    ASSUME TypeOK, ReportsBacked, FlagsNamed, [Next]_vars, NEW w \in Workers,
           Continue(w)
    PROVE  /\ Backed(job'[w].req, submissions'[job'[w].order],
                     executed'[job'[w].order])
           /\ pc'[w] = "flag" => job'[w].req.bid # NoBroker
<1>1. /\ pc \in [Workers -> Statements] /\ job \in [Workers -> Job]
      /\ job[w] \in Job
  BY DEF TypeOK
<1>2. job[w].order \in Orders /\ job[w].req \in Request /\ NoJob.order \in Orders
  BY <1>1, NoJobIsAJob DEF Job
<1>3. ASSUME NEW o \in Orders
      PROVE  submissions'[o] \in Nat /\ executed'[o] \in Nat
  BY BrokerRemembers
<1>4. Backed(job[w].req, submissions'[job[w].order], executed'[job[w].order])
  BY <1>2, BackedStays DEF ReportsBacked
<1>5. Backed(NoJob.req, submissions'[NoJob.order], executed'[NoJob.order])
  BY <1>2, <1>3, BlankIsBacked DEF NoJob, PreTrade
<1>6. CASE Leave(w)
  <2>1. job'[w] = NoJob /\ pc'[w] = "idle"
    BY <1>1, <1>6 DEF Leave
  <2>. QED
    BY <1>5, <2>1
<1>7. CASE Post(w) /\ ~Leave(w)
  <2>1. submissions'[job[w].order] > 0
    BY <1>1, <1>2, <1>7 DEF Post, TypeOK
  <2>2. ASSUME NEW bid \in BrokerIds, NEW kind,
               job' = [job EXCEPT ![w].req = Submitted(kind, bid)]
        PROVE  /\ Backed(job'[w].req, submissions'[job'[w].order],
                         executed'[job'[w].order])
               /\ job'[w].req.bid # NoBroker
    <3>1. job'[w].order = job[w].order /\ job'[w].req = Submitted(kind, bid)
      BY <1>1, <2>2 DEF Job
    <3>2. bid # NoBroker
      BY BrokerAssumption
    <3>3. Backed(Submitted(kind, bid), submissions'[job[w].order],
                 executed'[job[w].order])
      BY <1>2, <1>3, <2>1, <3>2, NamedIsBacked
    <3>4. Submitted(kind, bid).bid = bid
      BY DEF Submitted, MoveTo
    <3>. QED
      BY <3>1, <3>2, <3>3, <3>4
  <2>3. ASSUME NEW b,
               job' = [job EXCEPT ![w].req =
                          [Why(MoveTo("ERROR")) EXCEPT !.owner = b]]
        PROVE  Backed(job'[w].req, submissions'[job'[w].order],
                      executed'[job'[w].order])
    <3>1. /\ job'[w].order = job[w].order
          /\ job'[w].req = [Why(MoveTo("ERROR")) EXCEPT !.owner = b]
      BY <1>1, <2>3 DEF Job
    <3>2. Backed([Why(MoveTo("ERROR")) EXCEPT !.owner = b],
                 submissions'[job[w].order], executed'[job[w].order])
      BY <1>2, <1>3, BlankIsBacked DEF Failures
    <3>. QED
      BY <3>1, <3>2
  <2>. QED
    BY <1>1, <1>7, <2>2, <2>3 DEF Post
<1>8. CASE ~Post(w) /\ ~Leave(w)
  <2>1. /\ job'[w].req = job[w].req /\ job'[w].order = job[w].order
        /\ pc'[w] = "flag" => job[w].req.bid # NoBroker
    BY <1>1, <1>8 DEF Continue, CheckPending, Prove, Read, Update, Reread,
          RecordError, Flag, Resolve, ReturnTrue, ReturnFalse, Goto, Job
  <2>. QED
    BY <1>4, <2>1
<1>. QED
  BY <1>6, <1>7, <1>8

LEMMA ReportsStayBacked ==
    ASSUME TypeOK, AllBacked, [Next]_vars
    PROVE  ReportsBacked' /\ FlagsNamed'
<1>. SUFFICES ASSUME NEW w \in Workers
              PROVE  /\ Backed(job'[w].req, submissions'[job'[w].order],
                               executed'[job'[w].order])
                     /\ pc'[w] = "flag" => job'[w].req.bid # NoBroker
  BY DEF ReportsBacked, FlagsNamed
<1>1. job[w].order \in Orders /\ job[w].req \in Request
  BY DEF TypeOK, Job
<1>2. Backed(job[w].req, submissions'[job[w].order], executed'[job[w].order])
  BY <1>1, BackedStays DEF AllBacked, ReportsBacked
<1>3. pc[w] = "flag" => job[w].req.bid # NoBroker
  BY DEF AllBacked, FlagsNamed
<1>4. CASE pc'[w] = pc[w] /\ job'[w] = job[w]
  BY <1>2, <1>3, <1>4
<1>5. CASE UNCHANGED vars \/ \E p \in Orders : Retire(p) \/ Execute(p)
  BY <1>4, <1>5 DEF vars, Retire, Execute
<1>6. ASSUME NEW v \in Workers, v # w, Calls(v) \/ Continue(v)
      PROVE  pc'[w] = pc[w] /\ job'[w] = job[w]
  BY <1>6, OthersUntouched
<1>7. CASE Calls(w)
  BY <1>7, CallsBacked DEF AllBacked
<1>8. CASE Continue(w)
  BY <1>8, ContinueBacked DEF AllBacked
<1>. QED
  BY <1>4, <1>5, <1>6, <1>7, <1>8 DEF Next

-----------------------------------------------------------------------------
(* What rows show. *)

\* A report that is backed leaves a row that is, and so does a quarantine
\* under an identity the broker gave.
LEMMA WritesBacked ==
    ASSUME NEW row \in Row, NEW sent \in Nat, NEW done \in Nat,
           Shows(row, sent, done)
    PROVE  /\ \A req \in Request :
                 Backed(req, sent, done) => Shows(Updated(row, req), sent, done)
           /\ Shows(ErrorRecorded(row), sent, done)
           /\ \A bid \in BrokerIds :
                 sent > 0 => Shows(Flagged(row, bid), sent, done)
           /\ Shows(Resolved(row), sent, done)
           /\ Shows(IntentPersisted(row), sent, done)
           /\ Shows(Retired(row), sent, done)
<1>1. ASSUME NEW req \in Request, Backed(req, sent, done)
      PROVE  Shows(Updated(row, req), sent, done)
  <2>1. /\ Updated(row, req).status = req.new
        /\ Updated(row, req).broker =
              IF req.bid = NoBroker THEN row.broker ELSE req.bid
        /\ Updated(row, req).filled =
              IF req.fill = NoFill THEN row.filled ELSE req.fill
    BY DEF Updated, Row
  <2>. QED
    BY <1>1, <2>1 DEF Shows, Backed
<1>2. Shows(ErrorRecorded(row), sent, done)
  BY DEF Shows, ErrorRecorded, Row
<1>3. ASSUME NEW bid \in BrokerIds, sent > 0
      PROVE  Shows(Flagged(row, bid), sent, done)
  <2>1. /\ Flagged(row, bid).broker = bid
        /\ Flagged(row, bid).filled = row.filled
    BY DEF Flagged, Row
  <2>. QED
    BY <1>3, <2>1, BrokerAssumption DEF Shows
<1>4. Shows(Resolved(row), sent, done) /\ Shows(IntentPersisted(row), sent, done)
  BY DEF Shows, Resolved, IntentPersisted, Row
<1>5. Shows(Retired(row), sent, done)
  <2>1. /\ Retired(row).status = "ERROR"
        /\ Retired(row).broker = row.broker
        /\ Retired(row).filled = row.filled
    BY DEF Retired, Row
  <2>. QED
    BY <2>1, AtBrokerFacts DEF Shows, Failures
<1>. QED
  BY <1>1, <1>2, <1>3, <1>4, <1>5

\* The row of a step's UPDATE or quarantine is the row of its worker's call.
LEMMA WritersReport ==
    ASSUME TypeOK, AllBacked, [Next]_vars, NEW o \in Orders,
           orders'[o] # orders[o]
    PROVE  /\ UNCHANGED <<submissions, executed>>
           /\ \/ \E req \in Request : /\ orders'[o] = Updated(orders[o], req)
                                     /\ Backed(req, submissions[o], executed[o])
              \/ orders'[o] = ErrorRecorded(orders[o])
              \/ \E bid \in BrokerIds : /\ orders'[o] = Flagged(orders[o], bid)
                                        /\ submissions[o] > 0
              \/ orders'[o] = Resolved(orders[o])
              \/ orders'[o] = IntentPersisted(orders[o])
              \/ orders'[o] = Retired(orders[o])
<1>1. orders \in [Orders -> Row]
  BY DEF TypeOK
<1>2. orders' # orders
  OBVIOUS
<1>3. ASSUME NEW p \in Orders, Execute(p)
      PROVE  FALSE
  BY <1>2, <1>3 DEF Execute
<1>4. ASSUME NEW p \in Orders, Retire(p)
      PROVE  /\ UNCHANGED <<submissions, executed>>
             /\ orders'[o] = Retired(orders[o])
  BY <1>1, <1>4 DEF Retire
<1>5. ASSUME NEW w \in Workers, Calls(w)
      PROVE  /\ UNCHANGED <<submissions, executed>>
             /\ orders'[o] = IntentPersisted(orders[o])
  <2>1. PICK p \in Orders : Intend(w, p)
    BY <1>2, <1>5 DEF Calls, Arm, GiveUp, Watchdog, ExitGuard, AdoptByTag,
                      Monitor, Reconciler
  <2>. QED
    BY <1>1, <2>1 DEF Intend
<1>6. ASSUME NEW w \in Workers, Continue(w)
      PROVE  /\ UNCHANGED <<submissions, executed>>
             /\ \/ \E req \in Request :
                      /\ orders'[o] = Updated(orders[o], req)
                      /\ Backed(req, submissions[o], executed[o])
                \/ orders'[o] = ErrorRecorded(orders[o])
                \/ \E bid \in BrokerIds : /\ orders'[o] = Flagged(orders[o], bid)
                                          /\ submissions[o] > 0
                \/ orders'[o] = Resolved(orders[o])
  <2>1. /\ job[w].order \in Orders
        /\ job[w].req \in Request
        /\ job[w].req.bid \in BrokerIds \cup {NoBroker}
    BY DEF TypeOK, Job, Request
  <2>2. Backed(job[w].req, submissions[job[w].order], executed[job[w].order])
    BY DEF AllBacked, ReportsBacked
  <2>3. CASE Update(w)
    <3>1. orders' = [orders EXCEPT ![job[w].order] =
                        Updated(orders[job[w].order], job[w].req)]
          /\ UNCHANGED <<submissions, executed>>
      BY <1>2, <2>3 DEF Update, Row_, Write
    <3>2. job[w].order = o /\ orders'[o] = Updated(orders[o], job[w].req)
      BY <1>1, <2>1, <3>1
    <3>. QED
      BY <2>1, <2>2, <3>1, <3>2
  <2>4. CASE RecordError(w)
    BY <1>1, <2>1, <2>4 DEF RecordError, Row_, Write
  <2>5. CASE Flag(w)
    <3>1. orders' = [orders EXCEPT ![job[w].order] =
                        Flagged(orders[job[w].order], job[w].req.bid)]
          /\ UNCHANGED <<submissions, executed>>
          /\ pc[w] = "flag"
      BY <1>2, <2>5 DEF Flag, Row_, Write
    <3>2. job[w].order = o /\ orders'[o] = Flagged(orders[o], job[w].req.bid)
      BY <1>1, <2>1, <3>1
    <3>3. job[w].req.bid \in BrokerIds /\ submissions[o] > 0
      BY <2>1, <2>2, <3>1, <3>2 DEF AllBacked, FlagsNamed, Backed
    <3>. QED
      BY <3>1, <3>2, <3>3
  <2>6. CASE Resolve(w)
    BY <1>1, <1>2, <2>1, <2>6 DEF Resolve, Row_, Write
  <2>. QED
    BY <1>2, <1>6, <2>3, <2>4, <2>5, <2>6
    DEF Continue, CheckPending, Prove, Post, Read, Reread
<1>. QED
  BY <1>2, <1>3, <1>4, <1>5, <1>6 DEF Next, vars

LEMMA RowsStayBacked ==
    ASSUME TypeOK, AllBacked, [Next]_vars
    PROVE  RowsBacked'
<1>. SUFFICES ASSUME NEW o \in Orders
              PROVE  Shows(orders'[o], submissions'[o], executed'[o])
  BY DEF RowsBacked
<1>1. /\ orders[o] \in Row /\ submissions[o] \in Nat /\ executed[o] \in Nat
      /\ Shows(orders[o], submissions[o], executed[o])
  BY QtyAssumption DEF TypeOK, AllBacked, RowsBacked
<1>2. CASE orders'[o] = orders[o]
  BY <1>1, <1>2, BackedStays
<1>3. CASE orders'[o] # orders[o]
  BY <1>1, <1>3, WritersReport, WritesBacked
<1>. QED
  BY <1>2, <1>3

-----------------------------------------------------------------------------
(* The refinement. *)

\* A step that changes what is to be seen of a row finds it open.
LEMMA OnlyOpenRowsChange ==
    ASSUME TypeOK, Checked, [Next]_vars, NEW o \in Orders,
           \/ orders'[o].status # orders[o].status
           \/ orders'[o].broker # orders[o].broker
           \/ orders'[o].filled # orders[o].filled
    PROVE  orders[o].status \notin Terminal
<1>1. orders[o] \in Row
  BY DEF TypeOK
<1>2. ASSUME NEW w \in Workers, UpdatedBy(w, o)
      PROVE  orders[o].status \notin Terminal
  BY <1>2 DEF UpdatedBy, UpdateMatches, Checked, Legal
<1>3. ASSUME NEW bid \in BrokerIds \cup {NoBroker}, FlaggedWith(o, bid)
      PROVE  orders[o].status \notin Terminal
  BY <1>3 DEF FlaggedWith, FlagMatches, EntryActive, ExitActive, PreTrade,
              Terminal, Failures
<1>4. RetiredRow(o) => orders[o].status \notin Terminal
  BY DEF RetiredRow, RetireMatches, Terminal, Failures
<1>5. \A row \in {ErrorRecorded(orders[o]), IntentPersisted(orders[o]),
                  Resolved(orders[o])} :
         /\ row.status = orders[o].status
         /\ row.broker = orders[o].broker
         /\ row.filled = orders[o].filled
  BY <1>1 DEF ErrorRecorded, IntentPersisted, Resolved, Row
<1>. QED
  BY <1>2, <1>3, <1>4, <1>5, SixWriters DEF ResolvedWith, ClaimedBy

\* A step writes one row, or the broker's side of one order, or neither.
LEMMA OneAtATime ==
    ASSUME TypeOK, [Next]_vars
    PROVE  \/ UNCHANGED <<orders, submissions, executed>>
           \/ \E o \in Orders : Execute(o)
           \/ \E o \in Orders, w \in Workers :
                 /\ Attempting(w, o)
                 /\ submissions' = [submissions EXCEPT ![o] = @ + 1]
                 /\ UNCHANGED <<orders, executed>>
           \/ \E o \in Orders : \E row :
                 /\ orders' = [orders EXCEPT ![o] = row]
                 /\ UNCHANGED <<submissions, executed>>
<1>1. ASSUME NEW w \in Workers, Calls(w)
      PROVE  /\ UNCHANGED <<submissions, executed>>
             /\ \/ UNCHANGED orders
                \/ \E o \in Orders : \E row : orders' = [orders EXCEPT ![o] = row]
  BY <1>1 DEF Calls, Arm, GiveUp, Watchdog, ExitGuard, Intend, AdoptByTag,
              Monitor, Reconciler
<1>2. ASSUME NEW w \in Workers, Continue(w)
      PROVE  /\ UNCHANGED executed
             /\ \/ UNCHANGED <<orders, submissions>>
                \/ /\ Attempting(w, job[w].order)
                   /\ submissions' = [submissions EXCEPT ![job[w].order] = @ + 1]
                   /\ UNCHANGED orders
                \/ /\ \E row : orders' = [orders EXCEPT ![job[w].order] = row]
                   /\ UNCHANGED submissions
  BY <1>2 DEF Continue, CheckPending, Prove, Post, Read, Update, Reread,
              RecordError, Flag, Resolve, Write, Attempting
<1>3. \A w \in Workers : job[w].order \in Orders
  BY DEF TypeOK, Job
<1>4. ASSUME NEW o \in Orders, Retire(o)
      PROVE  /\ \E row : orders' = [orders EXCEPT ![o] = row]
             /\ UNCHANGED <<submissions, executed>>
  BY <1>4 DEF Retire
<1>. QED
  BY <1>1, <1>2, <1>3, <1>4 DEF Next, vars

\* What is to be seen of a row that a step wrote is a move of the promise.
LEMMA RowMoves ==
    ASSUME TypeOK, TypeOK', Checked, QuantifiedReports, FillsComeLate,
           RowsBacked', [Next]_vars, NEW o \in Orders, NEW row,
           orders' = [orders EXCEPT ![o] = row],
           UNCHANGED <<submissions, executed>>
    PROVE  Promise!Move(o) \/ UNCHANGED View
<1>1. /\ orders \in [Orders -> Row] /\ orders' \in [Orders -> Row]
      /\ orders'[o] = row
  BY DEF TypeOK
<1>2. \A p \in Orders : p # o => orders'[p] = orders[p]
  BY <1>1
<1>3. View[o] = [status |-> orders[o].status, broker |-> orders[o].broker,
                 sent |-> submissions[o], executed |-> executed[o],
                 filled |-> orders[o].filled]
  BY DEF View
<1>4. View' = [View EXCEPT ![o] =
                  [View[o] EXCEPT !.status = row.status, !.broker = row.broker,
                                  !.filled = row.filled]]
  BY <1>1, <1>2 DEF View
<1>5. CASE /\ row.status = orders[o].status
           /\ row.broker = orders[o].broker
           /\ row.filled = orders[o].filled
  <2>1. View' = View
    BY <1>1, <1>2, <1>5 DEF View
  <2>. QED
    BY <2>1
<1>6. CASE ~(/\ row.status = orders[o].status
             /\ row.broker = orders[o].broker
             /\ row.filled = orders[o].filled)
  <2>1. orders[o].status \notin Terminal
    BY <1>1, <1>6, OnlyOpenRowsChange
  <2>2. /\ row.status \in Status
        /\ row.broker \in BrokerIds \cup {NoBroker}
        /\ row.filled \in 0 .. Qty
    BY <1>1 DEF Row
  <2>3. row.status = orders[o].status
           \/ row.status \in Transitions[orders[o].status]
    BY <1>1, StatusSteps
  <2>4. orders[o].broker # NoBroker => row.broker = orders[o].broker
    BY <1>1, IdentityStays
  <2>5. /\ row.broker # NoBroker => submissions[o] > 0
        /\ row.status \in Promise!AtBroker => row.broker # NoBroker
        /\ row.filled =< executed[o]
    BY <1>1 DEF RowsBacked, Shows
  <2>6. row.status # orders[o].status => row.filled >= orders[o].filled
    BY <1>1, StatusStepKeepsFill
  <2>7. /\ View[o].status = orders[o].status
        /\ View[o].broker = orders[o].broker
        /\ View[o].filled = orders[o].filled
        /\ View[o].executed = executed[o]
        /\ View[o].sent = submissions[o]
    BY <1>3
  <2>8. Promise!Becomes(o, [View[o] EXCEPT !.status = row.status,
                                           !.broker = row.broker,
                                           !.filled = row.filled])
    BY <1>4 DEF Promise!Becomes
  <2>9. Promise!Move(o)
    BY <2>1, <2>2, <2>3, <2>4, <2>5, <2>6, <2>7, <2>8, SameTable
    DEF Promise!Move
  <2>. QED
    BY <2>9
<1>. QED
  BY <1>5, <1>6

\* Every step keeps the promise or cannot be seen.
LEMMA StepsKeepPromise ==
    ASSUME TypeOK, TypeOK', Checked, OneAttempt, QuantifiedReports,
           FillsComeLate, RowsBacked', [Next]_vars
    PROVE  Promise!Next \/ UNCHANGED View
<1>1. CASE UNCHANGED <<orders, submissions, executed>>
  BY <1>1 DEF View
<1>2. ASSUME NEW o \in Orders, Execute(o)
      PROVE  Promise!Execute(o)
  <2>1. View' = [View EXCEPT ![o] = [View[o] EXCEPT !.executed = @ + 1]]
    BY <1>2 DEF Execute, View, TypeOK
  <2>2. View[o].sent > 0 /\ View[o].executed < Qty
    BY <1>2 DEF Execute, View
  <2>. QED
    BY <2>1, <2>2 DEF Promise!Execute, Promise!Becomes
<1>3. ASSUME NEW o \in Orders, NEW w \in Workers, Attempting(w, o),
             submissions' = [submissions EXCEPT ![o] = @ + 1],
             UNCHANGED <<orders, executed>>
      PROVE  Promise!Send(o)
  <2>1. submissions[o] = 0 /\ submissions \in [Orders -> Nat]
    BY <1>3 DEF OneAttempt, TypeOK
  <2>2. /\ submissions'[o] = 1
        /\ \A p \in Orders : p # o => submissions'[p] = submissions[p]
    BY <1>3, <2>1
  <2>3. View' = [View EXCEPT ![o] = [View[o] EXCEPT !.sent = 1]]
    BY <1>3, <2>2 DEF View
  <2>4. View[o].sent = 0
    BY <2>1 DEF View
  <2>. QED
    BY <2>3, <2>4 DEF Promise!Send, Promise!Becomes
<1>4. ASSUME NEW o \in Orders, NEW row, orders' = [orders EXCEPT ![o] = row],
             UNCHANGED <<submissions, executed>>
      PROVE  Promise!Move(o) \/ UNCHANGED View
  BY <1>4, RowMoves
<1>. QED
  BY <1>1, <1>2, <1>3, <1>4, OneAtATime DEF Promise!Next

\* The orders table and everybody who writes to it, statement by statement,
\* keep the promise: an order is sent once, gets its identity after that and
\* for good, never shows more than the broker executed, moves along the table
\* and does not change once it has ended.
THEOREM LifecycleKeepsPromise == Spec => KeepsPromise
<1>1. Init => Promise!Init
  <2>. SUFFICES ASSUME Init PROVE Promise!Init
    OBVIOUS
  <2>1. ASSUME NEW o \in Orders
        PROVE  View[o] \in {Promise!Fresh("CREATED"),
                            Promise!Fresh("EXIT_REQUESTED")}
    <3>1. orders[o] = NewRow("ENTRY") \/ orders[o] = NewRow("EXIT")
      BY DEF Init
    <3>2. View[o] = Promise!Fresh(orders[o].status)
      BY <3>1 DEF Init, View, Promise!Fresh, NewRow
    <3>. QED
      BY <3>1, <3>2 DEF NewRow
  <2>. QED
    BY <2>1 DEF Promise!Init, View
<1>2. Init => AllBacked /\ OneAttempt /\ QuantifiedReports /\ FillsComeLate
  <2>. SUFFICES ASSUME Init
                PROVE  AllBacked /\ OneAttempt /\ QuantifiedReports /\ FillsComeLate
    OBVIOUS
  <2>1. OneAttempt
    BY DEF Init, OneAttempt, Attempting, SubmittedOnce
  <2>2. QuantifiedReports /\ FillsComeLate
    BY DEF Init, QuantifiedReports, FillsComeLate, NoJob, MoveTo, NewRow
  <2>3. RowsBacked
    BY AtBrokerFacts DEF Init, RowsBacked, Shows, NewRow, PreTrade
  <2>4. ReportsBacked /\ FlagsNamed
    <3>1. NoJob.order \in Orders
      BY NoJobIsAJob DEF Job
    <3>2. Backed(NoJob.req, 0, 0)
      BY BlankIsBacked DEF NoJob, PreTrade
    <3>. QED
      BY <3>1, <3>2 DEF Init, ReportsBacked, FlagsNamed
  <2>. QED
    BY <2>1, <2>2, <2>3, <2>4 DEF AllBacked
<1>3. TypeOK /\ AllBacked /\ [Next]_vars => AllBacked'
  BY ReportsStayBacked, RowsStayBacked DEF AllBacked
<1>4. TypeOK /\ OneAttempt /\ [Next]_vars => OneAttempt'
  BY OneAttemptStays
<1>5. TypeOK /\ QuantifiedReports /\ [Next]_vars => QuantifiedReports'
  BY ReportsStayQuantified
<1>6. TypeOK /\ Checked /\ QuantifiedReports /\ FillsComeLate /\ [Next]_vars
        => FillsComeLate'
  BY FillsStayLate
<1>7. /\ TypeOK /\ TypeOK' /\ Checked /\ OneAttempt /\ QuantifiedReports
      /\ FillsComeLate /\ AllBacked' /\ [Next]_vars
      => [Promise!Next]_View
  BY StepsKeepPromise DEF AllBacked
<1>. QED
  BY <1>1, <1>2, <1>3, <1>4, <1>5, <1>6, <1>7, TypeCorrect,
     CheckedBeforeUpdate, PTL DEF Spec, KeepsPromise, Promise!Spec

=============================================================================
