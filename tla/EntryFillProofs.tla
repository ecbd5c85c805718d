-------------------------- MODULE EntryFillProofs ---------------------------
(***************************************************************************)
(* Proofs about EntryFill, for any number of rows, contracts and restarts: *)
(* types, that open_position() inserts one row for a fill, and that the    *)
(* rows claim no more than the account holds.                              *)
(***************************************************************************)
EXTENDS EntryFill, Integers, TLAPS

(* Types. *)

LEMMA IdleIsThread == Idle \in Thread
BY FillAssumption DEF Idle, Thread, Steps, Quantities

LEMMA StepMembers ==
    \A s \in {"idle", "advance", "select", "insert", "link", "bind", "import", "name",
              "fallback", "fetch", "direct", "patch"} : s \in Steps
BY DEF Steps

LEMMA ThreadIsRecord ==
    ASSUME TypeOK, NEW t \in Threads
    PROVE  /\ thread[t] \in Thread
           /\ \A s \in Steps : [thread[t] EXCEPT !.at = s] \in Thread
           /\ \A s \in Steps, r \in Ids : With(t, s, r) \in Thread
           /\ \A s \in Steps, k \in Identity : Identified(t, s, k) \in Thread
<1>1. thread[t] \in Thread
  BY DEF TypeOK
<1>2. \A s \in Steps : [thread[t] EXCEPT !.at = s] \in Thread
  BY <1>1 DEF Thread
<1>3. \A s \in Steps, r \in Ids : With(t, s, r) \in Thread
  BY <1>1 DEF Thread, With
<1>4. \A s \in Steps, k \in Identity : Identified(t, s, k) \in Thread
  BY <1>1 DEF Thread, Identified, Identity
<1>. QED  BY <1>1, <1>2, <1>3, <1>4

LEMMA ThreadsStay ==
    ASSUME TypeOK, NEW t \in Threads, NEW new \in Thread, Goes(t, new)
    PROVE  thread' \in [Threads -> Thread]
BY DEF Goes, TypeOK

LEMMA ThreadMoves ==
    ASSUME TypeOK, NEW t \in Threads, NEW s \in Steps, GoesTo(t, s)
    PROVE  thread' \in [Threads -> Thread]
BY ThreadIsRecord, ThreadsStay DEF GoesTo

LEMMA ElseIsThread ==
    ASSUME TypeOK, NEW t \in Threads
    PROVE  Else(t) \in Thread /\ Then(t) \in Steps
BY IdleIsThread, StepMembers, ThreadIsRecord DEF Else, Then

LEMMA RowsStay ==
    ASSUME TypeOK, NEW r \in Ids, NEW new \in Row, rows' = [rows EXCEPT ![r] = new]
    PROVE  rows' \in [Ids -> Row]
BY DEF TypeOK

LEMMA UnusedIsRow == Unused \in Row
BY FillAssumption DEF Unused, Row, Plan, NoPlan, Quantities

LEMMA NewRowIsRow ==
    ASSUME TypeOK, NEW t \in Threads, NEW made \in {"fill", "guess", "direct"}
    PROVE  NewRow(t, made) \in Row /\ NewRow(t, made).made = made
<1>1. thread[t] \in Thread
  BY DEF TypeOK
<1>2. PlanOf(t) \in Plan
  BY <1>1, FillAssumption DEF PlanOf, OrderPlan, Plan, Thread, Quantities
<1>3. SignalOf(t) \in {"order", "other"} /\ Named(t) \in BOOLEAN
  BY <1>1 DEF SignalOf, Named, Thread
<1>4. (IF thread[t].job = "import" THEN thread[t].count ELSE Qty) \in Quantities
  BY <1>1, FillAssumption DEF Thread, Quantities
<1>. QED  BY <1>2, <1>3, <1>4 DEF NewRow, Row

LEMMA InitTyped == Init => TypeOK
<1>. SUFFICES ASSUME Init PROVE TypeOK
  OBVIOUS
<1>1. rows \in [Ids -> Row] /\ thread \in [Threads -> Thread]
  BY IdleIsThread, UnusedIsRow DEF Init
<1>2. /\ broker \in [executed : Quantities, canceled : BOOLEAN, sold : Quantities]
      /\ restarts \in 0 .. MaxRestarts
  BY FillAssumption DEF Init, Quantities
<1>3. order \in [status : {"open", "FILLED", "ended"}, pos : Ids \cup {NoRow}]
  BY DEF Init
<1>. QED  BY <1>1, <1>2, <1>3 DEF Init, TypeOK

LEMMA ExitTyped ==
    ASSUME TypeOK, NEW r \in Ids, Exit(r)
    PROVE  TypeOK'
<1>. DEFINE k == IF rows[r].left =< Held THEN rows[r].left ELSE Held
<1>1. broker.executed \in Quantities /\ broker.sold \in Quantities
  BY DEF TypeOK
<1>2. rows[r] \in Row /\ rows[r].left \in Quantities
  BY DEF TypeOK, Row
<1>3. k > 0 /\ k =< rows[r].left /\ k =< broker.executed - broker.sold /\ k \in Int
  BY <1>1, <1>2, FillAssumption DEF Exit, Held, Quantities
<1>4. broker.sold + k \in Quantities /\ rows[r].left - k \in Quantities
  BY <1>1, <1>2, <1>3, FillAssumption DEF Quantities
<1>5. broker' = [broker EXCEPT !.sold = @ + k]
  BY DEF Exit
<1>6. rows' = [rows EXCEPT
          ![r].left = @ - k,
          ![r].status = IF rows[r].left = k THEN "CLOSED" ELSE "OPEN"]
  BY DEF Exit
<1>7. broker' \in [executed : Quantities, canceled : BOOLEAN, sold : Quantities]
  BY <1>4, <1>5 DEF TypeOK
<1>8. rows' \in [Ids -> Row]
  BY <1>2, <1>4, <1>6 DEF TypeOK, Row
<1>. QED  BY <1>7, <1>8 DEF Exit, TypeOK

LEMMA BrokerTyped ==
    ASSUME TypeOK, Execute \/ Cancel \/ Restart
    PROVE  TypeOK'
<1>1. CASE Execute
  <2>1. broker.executed \in 0 .. Qty /\ broker.executed # Qty
    BY <1>1 DEF Execute, Over, Filled, TypeOK, Quantities
  <2>2. broker.executed + 1 \in Quantities
    BY <2>1, FillAssumption DEF Quantities
  <2>. QED  BY <1>1, <2>2 DEF Execute, TypeOK
<1>2. CASE Cancel
  BY <1>2 DEF Cancel, TypeOK
<1>3. CASE Restart
  <2>1. [Idle EXCEPT !.at = "fetch", !.job = "repair"] \in Thread
    BY IdleIsThread, StepMembers DEF Thread
  <2>2. thread' \in [Threads -> Thread]
    BY <1>3, <2>1, IdleIsThread DEF Restart
  <2>3. restarts' \in 0 .. MaxRestarts
    BY <1>3, FillAssumption DEF Restart, TypeOK
  <2>. QED  BY <1>3, <2>2, <2>3 DEF Restart, TypeOK
<1>. QED  BY <1>1, <1>2, <1>3

LEMMA OrderTyped ==
    ASSUME TypeOK, NEW t \in {"monitor", "reconciler"}, Load(t) \/ Advance(t) \/ End(t)
    PROVE  TypeOK'
<1>1. t \in Threads
  BY DEF Threads
<1>2. CASE Load(t)
  <2>1. [Idle EXCEPT !.at = "advance", !.job = "fill"] \in Thread
    BY IdleIsThread, StepMembers DEF Thread
  <2>. QED  BY <1>1, <1>2, <2>1, ThreadsStay DEF Load, TypeOK
<1>3. CASE Advance(t)
  <2>1. thread' \in [Threads -> Thread]
    <3>1. CASE GoesTo(t, "select")
      BY <1>1, <3>1, ThreadMoves, StepMembers
    <3>2. CASE \E r \in Active : Goes(t, With(t, "link", r))
      BY <1>1, <3>2, ThreadIsRecord, ThreadsStay, StepMembers DEF Active
    <3>3. CASE Goes(t, Idle)
      BY <1>1, <3>3, IdleIsThread, ThreadsStay
    <3>. QED  BY <1>3, <3>1, <3>2, <3>3 DEF Advance
  <2>. QED  BY <1>3, <2>1 DEF Advance, TypeOK
<1>4. CASE End(t)
  BY <1>4 DEF End, TypeOK
<1>. QED  BY <1>2, <1>3, <1>4

LEMMA OpenTyped ==
    ASSUME TypeOK, NEW t \in Threads,
           Select(t) \/ Insert(t) \/ OpenFails(t) \/ Fail(t)
    PROVE  TypeOK'
<1>1. CASE Select(t)
  <2>1. Existing(t) \subseteq Ids
    BY DEF Existing, ByIds, ByPlan, BySignal, Used, Active
  <2>2. thread' \in [Threads -> Thread]
    BY <1>1, <2>1, StepMembers, ElseIsThread, ThreadIsRecord, ThreadsStay, ThreadMoves
       DEF Select
  <2>. QED  BY <1>1, <2>2 DEF Select, TypeOK
<1>2. CASE Insert(t)
  <2>1. PICK r \in Ids :
          /\ rows' = [rows EXCEPT ![r] = NewRow(t, IF Named(t) THEN "fill" ELSE "guess")]
          /\ Goes(t, With(t, Then(t), r)) \/ Goes(t, Else(t))
    BY <1>2 DEF Insert
  <2>2. rows' \in [Ids -> Row]
    BY <2>1, NewRowIsRow, RowsStay
  <2>3. thread' \in [Threads -> Thread]
    BY <2>1, ElseIsThread, ThreadIsRecord, ThreadsStay
  <2>. QED  BY <1>2, <2>2, <2>3 DEF Insert, TypeOK
<1>3. CASE OpenFails(t)
  BY <1>3, ElseIsThread, ThreadsStay DEF OpenFails, TypeOK
<1>4. CASE Fail(t)
  <2>1. thread' \in [Threads -> Thread]
    BY <1>4, IdleIsThread, StepMembers, ThreadsStay, ThreadMoves DEF Fail
  <2>. QED  BY <1>4, <2>1 DEF Fail, TypeOK
<1>. QED  BY <1>1, <1>2, <1>3, <1>4

LEMMA LinkTyped ==
    ASSUME TypeOK, NEW t \in {"reconciler", "startup"}, Name(t) \/ Fallback(t) \/ Link(t)
    PROVE  TypeOK'
<1>1. t \in Threads
  BY DEF Threads
<1>2. thread[t].row \in Ids \cup {NoRow}
  BY <1>1 DEF TypeOK, Thread
<1>3. CASE Name(t)
  <2>1. thread' \in [Threads -> Thread]
    BY <1>1, <1>3, IdleIsThread, StepMembers, ThreadsStay, ThreadMoves DEF Name
  <2>2. thread[t].proven \in BOOLEAN
    BY <1>1 DEF TypeOK, Thread
  <2>3. rows' \in [Ids -> Row]
    <3>1. CASE thread[t].row \in Ids
      <4>. DEFINE r == thread[t].row
      <4>1. rows[r] \in Row
        BY <3>1 DEF TypeOK
      <4>2. [rows[r] EXCEPT !.ids = @ \/ thread[t].proven] \in Row
        BY <2>2, <4>1 DEF Row
      <4>. QED  BY <1>3, <3>1, <4>2 DEF Name, TypeOK
    <3>2. CASE thread[t].row \notin Ids
      BY <1>3, <3>2 DEF Name, TypeOK
    <3>. QED  BY <3>1, <3>2
  <2>. QED  BY <1>3, <2>1, <2>3 DEF Name, TypeOK
<1>4. CASE Fallback(t)
  <2>1. PICK r \in Ids : Goes(t, With(t, "name", r))
    BY <1>4 DEF Fallback
  <2>2. thread' \in [Threads -> Thread]
    BY <1>1, <2>1, StepMembers, ThreadIsRecord, ThreadsStay
  <2>3. rows' \in [Ids -> Row]
    BY <1>1, <1>4, NewRowIsRow, RowsStay DEF Fallback, TypeOK
  <2>. QED  BY <1>4, <2>2, <2>3 DEF Fallback, TypeOK
<1>5. CASE Link(t)
  <2>1. order' \in [status : {"open", "FILLED", "ended"}, pos : Ids \cup {NoRow}]
    BY <1>2, <1>5 DEF Link, TypeOK
  <2>2. thread' \in [Threads -> Thread]
    BY <1>1, <1>5, IdleIsThread, ThreadsStay DEF Link
  <2>. QED  BY <1>5, <2>1, <2>2 DEF Link, TypeOK
<1>. QED  BY <1>3, <1>4, <1>5

LEMMA ImportTyped ==
    ASSUME TypeOK, Bind \/ List \/ Import
    PROVE  TypeOK'
<1>1. "monitor" \in Threads /\ "reconciler" \in Threads
  BY DEF Threads
<1>2. CASE Bind
  <2>1. thread' \in [Threads -> Thread]
    BY <1>1, <1>2, IdleIsThread, ThreadsStay DEF Bind
  <2>2. CASE UNCHANGED <<rows, order>>
    BY <1>2, <2>1, <2>2 DEF Bind, TypeOK
  <2>3. CASE ~UNCHANGED <<rows, order>>
    <3>. DEFINE r == thread["monitor"].row
    <3>1. r \in Ids
      BY <1>2, <2>3 DEF Bind, Bindable, Active
    <3>2. rows[r] \in Row
      BY <3>1 DEF TypeOK
    <3>3. [rows[r] EXCEPT !.ids = TRUE] \in Row
      BY <3>2 DEF Row
    <3>4. rows' \in [Ids -> Row]
      BY <1>2, <2>3, <3>1, <3>3 DEF Bind, TypeOK
    <3>5. order' \in [status : {"open", "FILLED", "ended"}, pos : Ids \cup {NoRow}]
      BY <1>2, <2>3, <3>1 DEF Bind, TypeOK
    <3>. QED  BY <1>2, <2>1, <3>4, <3>5 DEF Bind, TypeOK
  <2>. QED  BY <2>2, <2>3
<1>3. CASE List
  <2>1. broker.executed \in Quantities /\ broker.sold \in Quantities
    BY DEF TypeOK
  <2>2. Held \in Quantities
    BY <1>3, <2>1, FillAssumption DEF List, Held, Quantities
  <2>3. [Idle EXCEPT !.at = "import", !.job = "import", !.count = Held] \in Thread
    BY <2>2, IdleIsThread, StepMembers DEF Thread
  <2>. QED  BY <1>1, <1>3, <2>3, ThreadsStay DEF List, TypeOK
<1>4. CASE Import
  <2>1. \A k \in Identity, r \in Ids :
           [Identified("reconciler", "name", k) EXCEPT !.row = r] \in Thread
    <3>1. \A k \in Identity : Identified("reconciler", "name", k) \in Thread
      BY <1>1, StepMembers, ThreadIsRecord
    <3>. QED  BY <3>1 DEF Thread
  <2>2. \A k \in Identity : Identified("reconciler", "select", k) \in Thread
    BY <1>1, StepMembers, ThreadIsRecord
  <2>3. thread' \in [Threads -> Thread]
    BY <1>1, <1>4, <2>1, <2>2, IdleIsThread, ThreadsStay DEF Import
  <2>. QED  BY <1>4, <2>3 DEF Import, TypeOK
<1>. QED  BY <1>2, <1>3, <1>4

LEMMA RepairTyped ==
    ASSUME TypeOK, Orphan \/ Direct \/ Patch
    PROVE  TypeOK'
<1>. DEFINE t == "startup"
<1>1. t \in Threads
  BY DEF Threads
<1>2. thread[t].row \in Ids \cup {NoRow} /\ thread[t].count \in Quantities
  BY <1>1 DEF TypeOK, Thread
<1>3. CASE Orphan
  <2>1. \A k \in Identity, n \in {0, Qty} :
           [Identified(t, "select", k) EXCEPT !.count = n] \in Thread
    <3>1. \A k \in Identity : Identified(t, "select", k) \in Thread
      BY <1>1, StepMembers, ThreadIsRecord
    <3>2. {0, Qty} \subseteq Quantities
      BY FillAssumption DEF Quantities
    <3>. QED  BY <3>1, <3>2 DEF Thread
  <2>2. \A r \in Used : With(t, "link", r) \in Thread
    BY <1>1, StepMembers, ThreadIsRecord DEF Used
  <2>3. thread' \in [Threads -> Thread]
    BY <1>1, <1>3, <2>1, <2>2, IdleIsThread, ThreadsStay DEF Orphan
  <2>. QED  BY <1>3, <2>3 DEF Orphan, TypeOK
<1>4. CASE Direct
  <2>1. PICK r \in Ids :
          /\ rows' = [rows EXCEPT ![r] = [Unused EXCEPT
                !.made = "direct", !.status = "OPEN", !.ids = TRUE,
                !.left = thread[t].count]]
          /\ Goes(t, With(t, "patch", r))
    BY <1>4 DEF Direct
  <2>2. rows' \in [Ids -> Row]
    <3>1. [Unused EXCEPT !.made = "direct", !.status = "OPEN", !.ids = TRUE,
                         !.left = thread[t].count] \in Row
      BY <1>2, UnusedIsRow DEF Row
    <3>. QED  BY <2>1, <3>1, RowsStay
  <2>3. thread' \in [Threads -> Thread]
    BY <1>1, <2>1, StepMembers, ThreadIsRecord, ThreadsStay
  <2>. QED  BY <1>4, <2>2, <2>3 DEF Direct, TypeOK
<1>5. CASE Patch
  <2>1. thread' \in [Threads -> Thread]
    BY <1>1, <1>5, StepMembers, ThreadMoves DEF Patch
  <2>2. reopened' \in BOOLEAN
    BY <1>5 DEF Patch, TypeOK, AsInserted
  <2>3. rows' \in [Ids -> Row]
    <3>. DEFINE s == IF thread[t].count = 0 THEN "CLOSED_REPAIR" ELSE "OPEN"
                r == thread[t].row
    <3>1. CASE rows' = rows
      BY <3>1 DEF TypeOK
    <3>2. CASE rows' = [rows EXCEPT ![r].status = s, ![r].left = thread[t].count]
      <4>1. CASE r \in Ids
        <5>1. rows[r] \in Row
          BY <4>1 DEF TypeOK
        <5>2. [rows[r] EXCEPT !.status = s, !.left = thread[t].count] \in Row
          BY <1>2, <5>1 DEF Row
        <5>. QED  BY <3>2, <4>1, <5>2 DEF TypeOK
      <4>2. CASE r \notin Ids
        BY <3>2, <4>2 DEF TypeOK
      <4>. QED  BY <4>1, <4>2
    <3>. QED  BY <1>5, <3>1, <3>2 DEF Patch
  <2>. QED  BY <1>5, <2>1, <2>2, <2>3 DEF Patch, TypeOK
<1>. QED  BY <1>3, <1>4, <1>5

LEMMA NextTyped == TypeOK /\ [Next]_vars => TypeOK'
<1>. SUFFICES ASSUME TypeOK, [Next]_vars PROVE TypeOK'
  OBVIOUS
<1>1. CASE Next
  BY <1>1, BrokerTyped, ExitTyped, OrderTyped, ImportTyped, RepairTyped, LinkTyped, OpenTyped
     DEF Next
<1>2. CASE UNCHANGED vars
  BY <1>2 DEF vars, TypeOK
<1>. QED  BY <1>1, <1>2

\* The rows, the threads, the order and the account keep their types: a sale
\* and an import stay within what was asked for, whichever rows there are.
THEOREM TypeCorrect == Spec => []TypeOK
BY InitTyped, NextTyped, PTL DEF Spec

-----------------------------------------------------------------------------
(* One row for the fill. *)

\* A thread that is about to insert the row of the fill, under the lock.
Claims(t) == At(t, "insert") /\ Named(t)

FillNamed == \A r \in Ids : rows[r].made = "fill" => rows[r].ids /\ rows[r].status # "none"
NothingMade == \A t \in Threads : Claims(t) => \A r \in Ids : rows[r].made # "fill"
OneClaim == \A t, u \in Threads : Claims(t) /\ Claims(u) => t = u

FillInv ==
    /\ FillNamed
    /\ NothingMade
    /\ OneClaim
    /\ OneFillRow

\* What every step but Select and Insert does.
NoNewClaim == \A t \in Threads : Claims(t)' => Claims(t)
NoNewFill ==
    \A r \in Ids : rows'[r].made = "fill" =>
        /\ rows[r].made = "fill"
        /\ rows[r].ids => rows'[r].ids
        /\ rows[r].status # "none" => rows'[r].status # "none"

LEMMA QuietFill ==
    ASSUME FillInv, NoNewClaim, NoNewFill
    PROVE  FillInv'
BY DEF FillInv, FillNamed, NothingMade, OneClaim, OneFillRow, NoNewClaim, NoNewFill

LEMMA RowsUnchanged == rows' = rows => NoNewFill
BY DEF NoNewFill

LEMMA ThreadsUnchanged == thread' = thread => NoNewClaim
BY DEF NoNewClaim, Claims, At, Named

\* A thread that goes anywhere else claims nothing.
LEMMA GoesElsewhere ==
    ASSUME TypeOK, NEW t \in Threads, NEW new, Goes(t, new), new.at # "insert"
    PROVE  NoNewClaim
<1>1. thread' = [thread EXCEPT ![t] = new] /\ thread \in [Threads -> Thread]
  BY DEF Goes, TypeOK
<1>2. thread'[t].at # "insert"
  BY <1>1
<1>3. \A u \in Threads \ {t} : thread'[u] = thread[u]
  BY <1>1
<1>. QED  BY <1>2, <1>3 DEF NoNewClaim, Claims, At, Named

\* Where a thread is after a move.
LEMMA Whereabouts ==
    ASSUME TypeOK, NEW t \in Threads
    PROVE  /\ \A s \in Steps : [thread[t] EXCEPT !.at = s].at = s
           /\ \A s \in Steps, r \in Ids : With(t, s, r).at = s
           /\ \A s \in Steps, k \in Identity : Identified(t, s, k).at = s
           /\ Idle.at = "idle"
           /\ Else(t).at \in {"idle", "fallback"}
           /\ Then(t) \in {"bind", "link", "name"}
<1>1. thread[t] \in Thread
  BY DEF TypeOK
<1>2. [thread[t] EXCEPT !.at = "fallback"].at = "fallback"
  BY <1>1 DEF Thread
<1>3. \A s \in Steps : [thread[t] EXCEPT !.at = s].at = s
  BY <1>1 DEF Thread
<1>4. \A s \in Steps, r \in Ids : With(t, s, r).at = s
  BY <1>1 DEF Thread, With
<1>5. \A s \in Steps, k \in Identity : Identified(t, s, k).at = s
  BY <1>1 DEF Thread, Identified
<1>6. Idle.at = "idle"
  BY DEF Idle
<1>7. Else(t).at \in {"idle", "fallback"}
  BY <1>2, <1>6 DEF Else
<1>8. Then(t) \in {"bind", "link", "name"}
  BY DEF Then
<1>. QED  BY <1>3, <1>4, <1>5, <1>6, <1>7, <1>8

LEMMA GoesToElsewhere ==
    ASSUME TypeOK, NEW t \in Threads, NEW s \in Steps, s # "insert", GoesTo(t, s)
    PROVE  NoNewClaim
<1>. DEFINE new == [thread[t] EXCEPT !.at = s]
<1>1. Goes(t, new)
  BY DEF GoesTo
<1>2. new.at # "insert"
  BY Whereabouts
<1>. HIDE DEF new
<1>. QED  BY <1>1, <1>2, GoesElsewhere

\* A fresh row that is not of the fill.
LEMMA FreshOther ==
    ASSUME TypeOK, NEW r \in Ids, NEW new \in Row, new.made # "fill",
           rows' = [rows EXCEPT ![r] = new]
    PROVE  NoNewFill
BY DEF NoNewFill, TypeOK

LEMMA InitFill == Init => FillInv
BY DEF Init, FillInv, FillNamed, NothingMade, OneClaim, OneFillRow, Claims, At, Idle, Unused

LEMMA SelectFill ==
    ASSUME TypeOK, FillInv, NEW t \in Threads, Select(t)
    PROVE  FillInv'
<1>1. rows' = rows
  BY DEF Select
<1>2. CASE GoesTo(t, "insert") /\ Existing(t) = {}
  <2>1. thread' = [thread EXCEPT ![t] = [thread[t] EXCEPT !.at = "insert"]]
    BY <1>2 DEF GoesTo, Goes
  <2>2. thread \in [Threads -> Thread] /\ thread[t] \in Thread
    BY DEF TypeOK
  <2>3. \A u \in Threads \ {t} : thread'[u] = thread[u]
    BY <2>1, <2>2
  <2>4. thread'[t].job = thread[t].job /\ thread'[t].proven = thread[t].proven
    BY <2>1, <2>2 DEF Thread
  <2>5. Named(t)' <=> Named(t)
    BY <2>4 DEF Named
  <2>6. \A u \in Threads \ {t} : Claims(u)' <=> Claims(u)
    BY <2>3 DEF Claims, At, Named
  <2>7. ASSUME Named(t)
        PROVE  /\ \A r \in Ids : rows[r].made # "fill"
               /\ \A u \in Threads \ {t} : ~Claims(u)
    <3>1. ByIds(t) = {}
      BY <1>2 DEF Existing
    <3>2. \A r \in Ids : rows[r].made # "fill"
      BY <2>7, <3>1 DEF ByIds, Used, FillInv, FillNamed
    <3>3. \A u \in Threads \ {t} : At(u, "insert") => ~SameKey(t, u)
      BY DEF Select, Unlocked
    <3>. QED  BY <2>7, <3>2, <3>3 DEF Claims, SameKey
  <2>8. CASE Named(t)
    BY <1>1, <2>6, <2>7, <2>8 DEF FillInv, FillNamed, NothingMade, OneClaim, OneFillRow
  <2>9. CASE ~Named(t)
    <3>1. ~Claims(t)'
      BY <2>5, <2>9 DEF Claims
    <3>. QED  BY <1>1, <2>6, <3>1, QuietFill, RowsUnchanged DEF NoNewClaim
  <2>. QED  BY <2>8, <2>9
<1>3. CASE \E r \in Existing(t) : Goes(t, With(t, Then(t), r))
  <2>1. PICK r \in Existing(t) : Goes(t, With(t, Then(t), r))
    BY <1>3
  <2>2. r \in Ids
    BY DEF Existing, ByIds, ByPlan, BySignal, Used, Active
  <2>3. With(t, Then(t), r).at # "insert"
    BY <2>2, Whereabouts, ElseIsThread
  <2>. QED  BY <1>1, <2>1, <2>3, GoesElsewhere, QuietFill, RowsUnchanged
<1>. QED  BY <1>2, <1>3 DEF Select

LEMMA InsertFill ==
    ASSUME TypeOK, FillInv, NEW t \in Threads, Insert(t)
    PROVE  FillInv'
<1>. DEFINE new == NewRow(t, IF Named(t) THEN "fill" ELSE "guess")
<1>1. PICK r \in Ids :
        /\ rows' = [rows EXCEPT ![r] = new]
        /\ Goes(t, With(t, Then(t), r)) \/ Goes(t, Else(t))
  BY DEF Insert
<1>2. NoNewClaim /\ ~Claims(t)'
  <2>1. \A n : Goes(t, n) /\ n.at # "insert" => ~Claims(t)'
    BY DEF Goes, Claims, At, TypeOK
  <2>2. With(t, Then(t), r).at # "insert" /\ Else(t).at # "insert"
    BY Whereabouts, ElseIsThread
  <2>. QED  BY <1>1, <2>1, <2>2, GoesElsewhere
<1>3. new \in Row /\ new.made = (IF Named(t) THEN "fill" ELSE "guess")
  BY NewRowIsRow
<1>4. CASE Named(t)
  <2>1. Claims(t)
    BY <1>4 DEF Insert, Claims
  <2>2. \A u \in Threads : ~Claims(u)'
    BY <1>2, <2>1 DEF NoNewClaim, FillInv, OneClaim
  <2>3. \A q \in Ids \ {r} : rows'[q].made # "fill"
    BY <1>1, <2>1 DEF FillInv, NothingMade, TypeOK
  <2>4. rows'[r].ids /\ rows'[r].status # "none"
    BY <1>1, <1>4 DEF NewRow, TypeOK
  <2>. QED  BY <2>2, <2>3, <2>4 DEF FillInv, FillNamed, NothingMade, OneClaim, OneFillRow
<1>5. CASE ~Named(t)
  BY <1>1, <1>2, <1>3, <1>5, FreshOther, QuietFill
<1>. QED  BY <1>4, <1>5

LEMMA BrokerFill ==
    ASSUME TypeOK, FillInv,
           Execute \/ Cancel \/ Restart \/ \E r \in Ids : Exit(r)
    PROVE  FillInv'
<1>1. CASE Execute \/ Cancel
  BY <1>1, QuietFill, RowsUnchanged, ThreadsUnchanged DEF Execute, Cancel
<1>2. CASE Restart
  <2>1. \A t \in Threads : thread'[t].at \in {"idle", "fetch"}
    BY <1>2 DEF Restart, Idle
  <2>2. NoNewClaim
    BY <2>1 DEF NoNewClaim, Claims, At
  <2>. QED  BY <1>2, <2>2, QuietFill, RowsUnchanged DEF Restart
<1>3. CASE \E r \in Ids : Exit(r)
  <2>0. PICK r \in Ids : Exit(r)
    BY <1>3
  <2>. DEFINE left == rows[r].left - (IF rows[r].left =< Held THEN rows[r].left ELSE Held)
              status == IF rows[r].left = (IF rows[r].left =< Held THEN rows[r].left ELSE Held)
                        THEN "CLOSED" ELSE "OPEN"
  <2>1. rows' = [rows EXCEPT ![r].left = left, ![r].status = status] /\ thread' = thread
    BY <2>0 DEF Exit
  <2>2. status # "none" /\ \A q \in Ids : rows[q] \in Row
    BY DEF TypeOK
  <2>. HIDE DEF left, status
  <2>3. \A q \in Ids : /\ rows'[q].made = rows[q].made
                       /\ rows[q].status # "none" => rows'[q].status # "none"
                       /\ rows'[q].ids = rows[q].ids
    BY <2>1, <2>2 DEF TypeOK, Row
  <2>4. NoNewFill
    BY <2>3 DEF NoNewFill
  <2>. QED  BY <2>1, <2>4, QuietFill, ThreadsUnchanged
<1>. QED  BY <1>1, <1>2, <1>3

LEMMA OrderFill ==
    ASSUME TypeOK, FillInv, NEW t \in Threads, Load(t) \/ Advance(t) \/ End(t) \/ Link(t)
    PROVE  FillInv'
<1>1. rows' = rows
  BY DEF Load, Advance, End, Link
<1>2. NoNewClaim
  <2>1. CASE Load(t)
    <3>1. [Idle EXCEPT !.at = "advance", !.job = "fill"].at = "advance"
      BY DEF Idle
    <3>. QED  BY <2>1, <3>1, GoesElsewhere DEF Load
  <2>2. CASE Advance(t)
    <3>1. CASE GoesTo(t, "select")
      BY <3>1, GoesToElsewhere, StepMembers
    <3>2. CASE \E r \in Active : Goes(t, With(t, "link", r))
      BY <3>2, GoesElsewhere, Whereabouts, StepMembers DEF Active
    <3>3. CASE Goes(t, Idle)
      BY <3>3, GoesElsewhere, Whereabouts
    <3>. QED  BY <2>2, <3>1, <3>2, <3>3 DEF Advance
  <2>3. CASE End(t)
    BY <2>3, ThreadsUnchanged DEF End
  <2>4. CASE Link(t)
    BY <2>4, GoesElsewhere, Whereabouts DEF Link
  <2>. QED  BY <2>1, <2>2, <2>3, <2>4
<1>. QED  BY <1>1, <1>2, QuietFill, RowsUnchanged

LEMMA FailFill ==
    ASSUME TypeOK, FillInv, NEW t \in Threads, OpenFails(t) \/ Fail(t)
    PROVE  FillInv'
<1>1. rows' = rows
  BY DEF OpenFails, Fail
<1>2. NoNewClaim
  <2>1. CASE OpenFails(t)
    BY <2>1, GoesElsewhere, Whereabouts DEF OpenFails
  <2>2. CASE Fail(t)
    BY <2>2, GoesElsewhere, GoesToElsewhere, Whereabouts, StepMembers DEF Fail
  <2>. QED  BY <2>1, <2>2
<1>. QED  BY <1>1, <1>2, QuietFill, RowsUnchanged

LEMMA NameFill ==
    ASSUME TypeOK, FillInv, NEW t \in Threads, Name(t) \/ Fallback(t)
    PROVE  FillInv'
<1>1. CASE Name(t)
  <2>1. NoNewClaim
    BY <1>1, GoesElsewhere, GoesToElsewhere, Whereabouts, StepMembers DEF Name
  <2>2. NoNewFill
    <3>. DEFINE q == thread[t].row
    <3>1. rows' = [rows EXCEPT ![q].ids = @ \/ thread[t].proven]
      BY <1>1 DEF Name
    <3>2. \A r \in Ids : rows[r] \in Row
      BY DEF TypeOK
    <3>. HIDE DEF q
    <3>3. \A r \in Ids : /\ rows'[r].made = rows[r].made
                         /\ rows'[r].status = rows[r].status
                         /\ rows[r].ids => rows'[r].ids
      BY <3>1, <3>2 DEF TypeOK, Row
    <3>. QED  BY <3>3 DEF NoNewFill
  <2>. QED  BY <2>1, <2>2, QuietFill
<1>2. CASE Fallback(t)
  <2>1. PICK r \in Ids :
          /\ Goes(t, With(t, "name", r))
          /\ rows' = rows \/ rows' = [rows EXCEPT ![r] = NewRow(t, "direct")]
    BY <1>2 DEF Fallback
  <2>2. NoNewClaim
    BY <2>1, GoesElsewhere, Whereabouts, StepMembers
  <2>3. NewRow(t, "direct") \in Row /\ NewRow(t, "direct").made = "direct"
    BY NewRowIsRow
  <2>4. NoNewFill
    BY <2>1, <2>3, FreshOther, RowsUnchanged
  <2>. QED  BY <2>2, <2>4, QuietFill
<1>. QED  BY <1>1, <1>2

LEMMA ImportFill ==
    ASSUME TypeOK, FillInv, Bind \/ List \/ Import
    PROVE  FillInv'
<1>1. "monitor" \in Threads /\ "reconciler" \in Threads
  BY DEF Threads
<1>2. CASE Bind
  <2>1. NoNewClaim
    BY <1>1, <1>2, GoesElsewhere, Whereabouts DEF Bind
  <2>2. NoNewFill
    <3>. DEFINE q == thread["monitor"].row
    <3>1. rows' = [rows EXCEPT ![q].ids = TRUE] \/ rows' = rows
      BY <1>2 DEF Bind
    <3>2. \A r \in Ids : rows[r] \in Row
      BY DEF TypeOK
    <3>. HIDE DEF q
    <3>3. \A r \in Ids : /\ rows'[r].made = rows[r].made
                         /\ rows'[r].status = rows[r].status
                         /\ rows[r].ids => rows'[r].ids
      BY <3>1, <3>2 DEF TypeOK, Row
    <3>. QED  BY <3>3 DEF NoNewFill
  <2>. QED  BY <2>1, <2>2, QuietFill
<1>3. CASE List
  <2>1. [Idle EXCEPT !.at = "import", !.job = "import", !.count = Held].at = "import"
    BY DEF Idle
  <2>2. NoNewClaim
    BY <1>1, <1>3, <2>1, GoesElsewhere DEF List
  <2>. QED  BY <1>3, <2>2, QuietFill, RowsUnchanged DEF List
<1>4. CASE Import
  <2>. DEFINE t == "reconciler"
  <2>1. thread[t] \in Thread
    BY <1>1 DEF TypeOK
  <2>2. \A k \in Identity, r \in Ids : [Identified(t, "name", k) EXCEPT !.row = r].at = "name"
    BY <2>1 DEF Identified, Thread
  <2>3. \A k \in Identity : Identified(t, "select", k).at = "select"
    BY <1>1, Whereabouts, StepMembers
  <2>4. NoNewClaim
    BY <1>1, <1>4, <2>2, <2>3, GoesElsewhere, Whereabouts DEF Import
  <2>. QED  BY <1>4, <2>4, QuietFill, RowsUnchanged DEF Import
<1>. QED  BY <1>2, <1>3, <1>4

LEMMA RepairFill ==
    ASSUME TypeOK, FillInv, Orphan \/ Direct \/ Patch
    PROVE  FillInv'
<1>. DEFINE t == "startup"
<1>1. t \in Threads
  BY DEF Threads
<1>2. thread[t] \in Thread
  BY <1>1 DEF TypeOK
<1>3. CASE Orphan
  <2>1. \A k \in Identity, n \in {0, Qty} :
           [Identified(t, "select", k) EXCEPT !.count = n].at = "select"
    BY <1>2 DEF Identified, Thread
  <2>2. \A r \in Used : With(t, "link", r).at = "link"
    BY <1>1, Whereabouts, StepMembers DEF Used
  <2>3. NoNewClaim
    BY <1>1, <1>3, <2>1, <2>2, GoesElsewhere, Whereabouts DEF Orphan
  <2>. QED  BY <1>3, <2>3, QuietFill, RowsUnchanged DEF Orphan
<1>4. CASE Direct
  <2>. DEFINE new == [Unused EXCEPT !.made = "direct", !.status = "OPEN", !.ids = TRUE,
                                    !.left = thread[t].count]
  <2>1. PICK r \in Ids : rows' = [rows EXCEPT ![r] = new] /\ Goes(t, With(t, "patch", r))
    BY <1>4 DEF Direct
  <2>2. new.made = "direct"
    BY DEF Unused
  <2>3. \A q \in Ids : rows'[q].made = "fill" => rows'[q] = rows[q]
    BY <2>1, <2>2 DEF TypeOK
  <2>4. NoNewFill
    BY <2>3 DEF NoNewFill
  <2>5. NoNewClaim
    BY <1>1, <2>1, GoesElsewhere, Whereabouts, StepMembers
  <2>. QED  BY <2>4, <2>5, QuietFill
<1>5. CASE Patch
  <2>1. NoNewClaim
    BY <1>1, <1>5, GoesToElsewhere, StepMembers DEF Patch
  <2>2. NoNewFill
    <3>. DEFINE q == thread[t].row
                n == thread[t].count
                s == IF n = 0 THEN "CLOSED_REPAIR" ELSE "OPEN"
    <3>1. rows' = [rows EXCEPT ![q].status = s, ![q].left = n] \/ rows' = rows
      BY <1>5 DEF Patch
    <3>2. \A r \in Ids : rows[r] \in Row
      BY DEF TypeOK
    <3>3. s # "none"
      OBVIOUS
    <3>. HIDE DEF q, n, s
    <3>4. \A r \in Ids : /\ rows'[r].made = rows[r].made
                         /\ rows[r].status # "none" => rows'[r].status # "none"
                         /\ rows'[r].ids = rows[r].ids
      BY <3>1, <3>2, <3>3 DEF TypeOK, Row
    <3>. QED  BY <3>4 DEF NoNewFill
  <2>. QED  BY <2>1, <2>2, QuietFill
<1>. QED  BY <1>3, <1>4, <1>5

LEMMA NextFill == TypeOK /\ FillInv /\ [Next]_vars => FillInv'
<1>. SUFFICES ASSUME TypeOK, FillInv, [Next]_vars PROVE FillInv'
  OBVIOUS
<1>1. CASE Execute \/ Cancel \/ Restart \/ \E r \in Ids : Exit(r)
  BY <1>1, BrokerFill
<1>2. CASE \E t \in {"monitor", "reconciler"} : Load(t) \/ Advance(t) \/ End(t)
  BY <1>2, OrderFill DEF Threads
<1>3. CASE Bind \/ List \/ Import \/ Orphan \/ Direct \/ Patch
  BY <1>3, ImportFill, RepairFill
<1>4. CASE \E t \in {"reconciler", "startup"} : Name(t) \/ Fallback(t) \/ Link(t)
  BY <1>4, NameFill, OrderFill DEF Threads
<1>5. CASE \E t \in Threads : Select(t) \/ Insert(t) \/ OpenFails(t) \/ Fail(t)
  BY <1>5, SelectFill, InsertFill, FailFill
<1>6. CASE UNCHANGED vars
  BY <1>6, QuietFill, RowsUnchanged, ThreadsUnchanged DEF vars
<1>. QED  BY <1>1, <1>2, <1>3, <1>4, <1>5, <1>6 DEF Next

\* However often and from wherever a fill is reported, and whatever dies in
\* between, open_position() inserts one row for it: the lock and the look-up
\* by the order's ids leave one thread before the INSERT, and none once the
\* row is there, whatever became of that row since.
THEOREM FillRowIsUnique == Spec => []OneFillRow
<1>1. FillInv => OneFillRow
  BY DEF FillInv
<1>. QED  BY InitTyped, InitFill, NextTyped, NextFill, <1>1, PTL DEF Spec

-----------------------------------------------------------------------------
(* What the rows claim. *)

\* Who knows the order's ids knows that it is filled; an import carries what the
\* account held.
Tidy(x) ==
    /\ x.job = "fill" \/ x.proven => Filled
    /\ x.at = "advance" => x.job = "fill"
    /\ x.job = "import" => x.count =< broker.executed

\* What the repair carries: the whole order or nothing.
Repairs(x) == x.count \in {0, Qty} /\ x.job # "import"

Duties ==
    /\ order.status = "FILLED" => Filled
    /\ \A t \in Threads : Tidy(thread[t])
    /\ Repairs(thread["startup"])

LEMMA IdleIsTidy == Tidy(Idle) /\ Repairs(Idle)
BY DEF Tidy, Repairs, Idle

LEMMA TidyGoes ==
    ASSUME TypeOK, Duties, NEW t \in Threads, NEW new, Goes(t, new), Tidy(new),
           t = "startup" => Repairs(new),
           broker' = broker, order'.status = "FILLED" => Filled
    PROVE  Duties'
<1>1. thread' = [thread EXCEPT ![t] = new] /\ thread \in [Threads -> Thread]
  BY DEF Goes, TypeOK
<1>2. thread'[t] = new /\ \A u \in Threads \ {t} : thread'[u] = thread[u]
  BY <1>1
<1>3. \A u \in Threads : Tidy(thread[u])'
  BY <1>2 DEF Duties, Tidy, Filled
<1>4. Repairs(thread["startup"])'
  BY <1>2 DEF Duties, Threads, Repairs
<1>. QED  BY <1>3, <1>4 DEF Duties, Filled

\* A move that keeps what the thread knows keeps it tidy.
LEMMA TidyMoves ==
    ASSUME TypeOK, Duties, NEW t \in Threads
    PROVE  /\ \A s \in Steps \ {"advance"} :
                 /\ Tidy([thread[t] EXCEPT !.at = s])
                 /\ Repairs(thread[t]) => Repairs([thread[t] EXCEPT !.at = s])
           /\ \A s \in Steps \ {"advance"}, r \in Ids :
                 Tidy(With(t, s, r)) /\ (Repairs(thread[t]) => Repairs(With(t, s, r)))
           /\ \A s \in Steps \ {"advance"}, k \in Identity : Tidy(Identified(t, s, k))
           /\ Tidy(Else(t)) /\ (t = "startup" => Repairs(Else(t)))
<1>1. thread[t] \in Thread /\ Tidy(thread[t])
  BY DEF TypeOK, Duties
<1>2. \A s \in Steps \ {"advance"} :
         /\ Tidy([thread[t] EXCEPT !.at = s])
         /\ Repairs(thread[t]) => Repairs([thread[t] EXCEPT !.at = s])
  BY <1>1 DEF Thread, Tidy, Repairs
<1>3. \A s \in Steps \ {"advance"}, r \in Ids :
         Tidy(With(t, s, r)) /\ (Repairs(thread[t]) => Repairs(With(t, s, r)))
  BY <1>1 DEF Thread, Tidy, With, Repairs
<1>4. \A s \in Steps \ {"advance"}, k \in Identity : Tidy(Identified(t, s, k))
  <2>1. \A k \in Identity : k.proven => Filled
    BY DEF Identity, Duties
  <2>2. \A s \in Steps \ {"advance"}, k \in Identity :
           /\ Identified(t, s, k).job = thread[t].job
           /\ Identified(t, s, k).count = thread[t].count
           /\ Identified(t, s, k).proven = k.proven
           /\ Identified(t, s, k).at = s
    BY <1>1 DEF Thread, Identified
  <2>. QED  BY <1>1, <2>1, <2>2 DEF Tidy
<1>5. Tidy(Else(t)) /\ (t = "startup" => Repairs(Else(t)))
  BY <1>2, IdleIsTidy, StepMembers DEF Else, Duties
<1>. QED  BY <1>2, <1>3, <1>4, <1>5

LEMMA InitDuties == Init => Duties
BY IdleIsTidy DEF Init, Duties, Threads

LEMMA BrokerDuties ==
    ASSUME TypeOK, Duties,
           Execute \/ Cancel \/ Restart \/ (\E r \in Ids : Exit(r)) \/ UNCHANGED vars
    PROVE  Duties'
<1>1. CASE UNCHANGED vars
  BY <1>1 DEF Duties, Tidy, Filled, Repairs, vars
<1>2. CASE Restart
  <2>1. broker' = broker /\ order' = order
    BY <1>2 DEF Restart
  <2>. DEFINE repair == [Idle EXCEPT !.at = "fetch", !.job = "repair"]
              quiet(x) == /\ x.job \notin {"fill", "import"} /\ x.at # "advance"
                          /\ ~x.proven /\ Repairs(x)
  <2>a. quiet(repair) /\ quiet(Idle)
    BY DEF Idle, Repairs
  <2>2. \A t \in Threads : thread'[t] \in {Idle, repair}
    BY <1>2 DEF Restart
  <2>. HIDE DEF repair
  <2>3. \A t \in Threads : quiet(thread'[t])
    BY <2>a, <2>2
  <2>. QED  BY <2>1, <2>3 DEF Duties, Tidy, Filled, Threads, Repairs
<1>3. CASE Execute \/ Cancel \/ \E r \in Ids : Exit(r)
  <2>1. order' = order /\ thread' = thread
    BY <1>3 DEF Execute, Cancel, Exit
  <2>2. broker.executed \in Nat /\ \A t \in Threads : thread[t].count \in Nat
    BY FillAssumption DEF TypeOK, Thread, Quantities
  <2>3. broker.executed =< broker'.executed /\ broker'.executed \in Nat /\ (Filled => Filled')
    <3>1. CASE Execute
      BY <2>2, <3>1 DEF Execute, Over, Filled, TypeOK
    <3>2. CASE Cancel
      BY <2>2, <3>2 DEF Cancel, Filled, TypeOK
    <3>3. CASE \E r \in Ids : Exit(r)
      <4>1. broker'.executed = broker.executed
        BY <3>3 DEF Exit, TypeOK
      <4>. QED  BY <2>2, <4>1 DEF Filled
    <3>. QED  BY <1>3, <3>1, <3>2, <3>3
  <2>. QED  BY <2>1, <2>2, <2>3 DEF Duties, Tidy, Repairs
<1>. QED  BY <1>1, <1>2, <1>3

LEMMA OrderDuties ==
    ASSUME TypeOK, Duties, NEW t \in Threads,
           (Load(t) /\ t # "startup") \/ Advance(t) \/ End(t) \/ Link(t)
    PROVE  Duties'
<1>1. broker' = broker
  BY DEF Load, Advance, End, Link
<1>2. CASE Load(t) /\ t # "startup"
  <2>1. Tidy([Idle EXCEPT !.at = "advance", !.job = "fill"])
    BY <1>2 DEF Load, Tidy, Idle
  <2>. QED  BY <1>1, <1>2, <2>1, TidyGoes DEF Load, Duties
<1>3. CASE Advance(t)
  <2>1. Filled /\ Repairs(thread["startup"])
    BY <1>3 DEF Advance, At, Duties, Tidy
  <2>2. CASE GoesTo(t, "select")
    BY <1>1, <2>1, <2>2, TidyGoes, TidyMoves, StepMembers DEF GoesTo
  <2>3. CASE \E r \in Active : Goes(t, With(t, "link", r))
    BY <1>1, <2>1, <2>3, TidyGoes, TidyMoves, StepMembers DEF Active
  <2>4. CASE Goes(t, Idle)
    BY <1>1, <2>1, <2>4, TidyGoes, IdleIsTidy
  <2>. QED  BY <1>3, <2>2, <2>3, <2>4 DEF Advance
<1>4. CASE End(t)
  BY <1>1, <1>4 DEF End, Duties, Tidy, Filled, Repairs, TypeOK
<1>5. CASE Link(t)
  <2>1. order'.status = order.status
    BY <1>5 DEF Link, TypeOK
  <2>. QED  BY <1>1, <1>5, <2>1, TidyGoes, IdleIsTidy DEF Link, Duties
<1>. QED  BY <1>2, <1>3, <1>4, <1>5

LEMMA OpenDuties ==
    ASSUME TypeOK, Duties, NEW t \in Threads,
           Select(t) \/ Insert(t) \/ OpenFails(t) \/ Fail(t) \/ Name(t) \/ Fallback(t)
    PROVE  Duties'
<1>1. broker' = broker /\ order' = order /\ (order'.status = "FILLED" => Filled)
  BY DEF Select, Insert, OpenFails, Fail, Name, Fallback, Duties
<1>2. t = "startup" => Repairs(thread[t])
  BY DEF Duties
<1>3. Then(t) \in Steps \ {"advance"}
  BY ElseIsThread DEF Then
<1>4. ASSUME NEW s \in Steps \ {"advance"}, GoesTo(t, s)
      PROVE  Duties'
  BY <1>1, <1>2, <1>4, TidyGoes, TidyMoves DEF GoesTo
<1>5. ASSUME NEW s \in Steps \ {"advance"}, NEW r \in Ids, Goes(t, With(t, s, r))
      PROVE  Duties'
  BY <1>1, <1>2, <1>5, TidyGoes, TidyMoves
<1>6. ASSUME Goes(t, Else(t)) \/ Goes(t, Idle)
      PROVE  Duties'
  BY <1>1, <1>6, TidyGoes, TidyMoves, IdleIsTidy
<1>7. CASE Select(t)
  <2>1. Existing(t) \subseteq Ids
    BY DEF Existing, ByIds, ByPlan, BySignal, Used, Active
  <2>. QED  BY <1>3, <1>4, <1>5, <1>7, <2>1, StepMembers DEF Select
<1>8. CASE Insert(t)
  BY <1>3, <1>5, <1>6, <1>8 DEF Insert
<1>9. CASE OpenFails(t) \/ Fail(t)
  BY <1>4, <1>6, <1>9, StepMembers DEF OpenFails, Fail
<1>10. CASE Name(t) \/ Fallback(t)
  BY <1>4, <1>5, <1>6, <1>10, StepMembers DEF Name, Fallback
<1>. QED  BY <1>7, <1>8, <1>9, <1>10

LEMMA ImportDuties ==
    ASSUME TypeOK, Duties, Bind \/ List \/ Import \/ Orphan \/ Direct \/ Patch
    PROVE  Duties'
<1>1. /\ "monitor" \in Threads /\ "reconciler" \in Threads /\ "startup" \in Threads
      /\ thread["reconciler"] \in Thread /\ thread["startup"] \in Thread
  BY DEF Threads, TypeOK
<1>2. broker' = broker /\ (order'.status = "FILLED" => Filled)
  BY DEF Bind, List, Import, Orphan, Direct, Patch, Duties, TypeOK
<1>3. CASE Bind
  BY <1>1, <1>2, <1>3, TidyGoes, IdleIsTidy DEF Bind
<1>4. CASE List
  <2>1. Held =< broker.executed
    BY FillAssumption DEF Held, TypeOK, Quantities
  <2>2. Tidy([Idle EXCEPT !.at = "import", !.job = "import", !.count = Held])
    BY <2>1 DEF Tidy, Idle
  <2>. QED  BY <1>1, <1>2, <1>4, <2>2, TidyGoes DEF List
<1>5. CASE Import
  <2>. DEFINE t == "reconciler"
  <2>1. \A k \in Identity, r \in Ids : Tidy([Identified(t, "name", k) EXCEPT !.row = r])
    <3>1. \A k \in Identity : Tidy(Identified(t, "name", k))
      BY <1>1, TidyMoves, StepMembers
    <3>. QED  BY <1>1, <3>1 DEF Tidy, Identified, Thread
  <2>2. \A k \in Identity : Tidy(Identified(t, "select", k))
    BY <1>1, TidyMoves, StepMembers
  <2>3. t # "startup"
    OBVIOUS
  <2>. HIDE DEF t
  <2>4. \A new : Goes(t, new) /\ Tidy(new) => Duties'
    BY <1>1, <1>2, <2>3, TidyGoes DEF t
  <2>5. \/ Goes(t, Idle)
        \/ \E k \in Identity : Goes(t, Identified(t, "select", k))
        \/ \E k \in Identity, r \in Ids :
              Goes(t, [Identified(t, "name", k) EXCEPT !.row = r])
    BY <1>5 DEF Import, t
  <2>. QED  BY <2>1, <2>2, <2>4, <2>5, IdleIsTidy
<1>6. CASE Orphan
  <2>. DEFINE t == "startup"
  <2>1. \A k \in Identity, n \in {0, Qty} :
           LET new == [Identified(t, "select", k) EXCEPT !.count = n] IN
           Tidy(new) /\ Repairs(new)
    <3>1. \A k \in Identity : Tidy(Identified(t, "select", k))
      BY <1>1, TidyMoves, StepMembers
    <3>2. thread[t].job # "import"
      BY DEF Duties, Repairs
    <3>. QED  BY <1>1, <3>1, <3>2 DEF Tidy, Repairs, Identified, Thread
  <2>2. \A r \in Used : Tidy(With(t, "link", r)) /\ Repairs(With(t, "link", r))
    BY <1>1, TidyMoves, StepMembers DEF Used, Duties
  <2>. QED  BY <1>1, <1>2, <1>6, <2>1, <2>2, TidyGoes, IdleIsTidy DEF Orphan
<1>7. CASE Direct
  <2>1. PICK r \in Ids : Goes("startup", With("startup", "patch", r))
    BY <1>7 DEF Direct
  <2>. QED  BY <1>1, <1>2, <2>1, TidyGoes, TidyMoves, StepMembers DEF Duties
<1>8. CASE Patch
  BY <1>1, <1>2, <1>8, TidyGoes, TidyMoves, StepMembers DEF Patch, GoesTo, Duties
<1>. QED  BY <1>3, <1>4, <1>5, <1>6, <1>7, <1>8

LEMMA NextDuties == TypeOK /\ Duties /\ [Next]_vars => Duties'
<1>. SUFFICES ASSUME TypeOK, Duties, [Next]_vars PROVE Duties'
  OBVIOUS
<1>1. CASE Execute \/ Cancel \/ Restart \/ (\E r \in Ids : Exit(r)) \/ UNCHANGED vars
  BY <1>1, BrokerDuties
<1>2. CASE \E t \in {"monitor", "reconciler"} : Load(t) \/ Advance(t) \/ End(t)
  BY <1>2, OrderDuties DEF Threads
<1>3. CASE Bind \/ List \/ Import \/ Orphan \/ Direct \/ Patch
  BY <1>3, ImportDuties
<1>4. CASE \E t \in {"reconciler", "startup"} : Name(t) \/ Fallback(t) \/ Link(t)
  BY <1>4, OpenDuties, OrderDuties DEF Threads
<1>5. CASE \E t \in Threads : Select(t) \/ Insert(t) \/ OpenFails(t) \/ Fail(t)
  BY <1>5, OpenDuties
<1>. QED  BY <1>1, <1>2, <1>3, <1>4, <1>5 DEF Next

\* Nothing is sold before there is a row, and never more than was executed.
Covered ==
    /\ broker.sold =< broker.executed
    /\ Used = {} => broker.sold = 0
    /\ NeverOverclaims

LEMMA Amounts ==
    ASSUME TypeOK
    PROVE  /\ broker.executed \in Nat /\ broker.sold \in Nat /\ Qty \in Nat
           /\ \A r \in Ids : rows[r] \in Row /\ rows[r].left \in Nat
           /\ \A t \in Threads : thread[t] \in Thread /\ thread[t].count \in Nat
BY FillAssumption DEF TypeOK, Quantities, Row, Thread

LEMMA FreshIsUnused ==
    ASSUME NEW r \in Ids, Fresh(r)
    PROVE  r \notin Used
<1>1. \E q \in Ids \ Used : TRUE
  BY DEF Fresh, Used
<1>2. (CHOOSE q \in Ids \ Used : TRUE) \in Ids \ Used
  BY <1>1
<1>. QED  BY <1>2 DEF Fresh

LEMMA InitCovered == Init => Covered
BY DEF Init, Covered, NeverOverclaims, Active, Unused

\* Steps that sell nothing and leave what the rows claim.
LEMMA QuietCovered ==
    ASSUME TypeOK, Covered,
           broker'.sold = broker.sold, broker'.executed \in Nat,
           broker.executed =< broker'.executed, reopened' = reopened,
           \A r \in Ids : /\ rows'[r].made = rows[r].made
                          /\ rows'[r].status = rows[r].status
                          /\ rows'[r].left = rows[r].left
    PROVE  Covered'
<1>1. Used' = Used /\ Active' = Active
  BY DEF Used, Active
<1>2. OnlyFills' = OnlyFills
  BY <1>1 DEF OnlyFills, Used
<1>3. Active \subseteq Ids
  BY DEF Active
<1>4. Held =< Held' /\ Held \in Int /\ Held' \in Int
  BY Amounts DEF Held
<1>5. NeverOverclaims'
  BY <1>1, <1>2, <1>3, <1>4, Amounts DEF Covered, NeverOverclaims
<1>. QED  BY <1>1, <1>5, Amounts DEF Covered

\* A row that did not come of the fill ends the claim of the invariant.
LEMMA GuessCovered ==
    ASSUME TypeOK, Covered, broker' = broker,
           NEW r \in Ids, NEW new, rows' = [rows EXCEPT ![r] = new],
           new.status # "none", new.made # "fill"
    PROVE  Covered'
<1>1. rows'[r] = new
  BY DEF TypeOK
<1>2. r \in Used'
  BY <1>1 DEF Used
<1>3. ~OnlyFills'
  BY <1>1, <1>2 DEF OnlyFills
<1>. QED  BY <1>2, <1>3 DEF Covered, NeverOverclaims

LEMMA ExitCovered ==
    ASSUME TypeOK, FillInv, Covered, NEW r \in Ids, Exit(r)
    PROVE  Covered'
<1>. DEFINE k == IF rows[r].left =< Held THEN rows[r].left ELSE Held
            s == IF rows[r].left = k THEN "CLOSED" ELSE "OPEN"
<1>1. /\ r \in Active /\ k > 0
      /\ broker' = [broker EXCEPT !.sold = @ + k]
      /\ rows' = [rows EXCEPT ![r].left = @ - k, ![r].status = s]
      /\ reopened' = reopened
  BY DEF Exit
<1>2. Held \in Int /\ k \in Int /\ k =< Held
  BY Amounts DEF Held
<1>3. s \in {"CLOSED", "OPEN"}
  OBVIOUS
<1>4. broker'.sold = broker.sold + k /\ broker'.executed = broker.executed
  BY <1>1 DEF TypeOK
<1>. HIDE DEF k, s
<1>5. /\ rows'[r].left = rows[r].left - k /\ rows'[r].status = s
      /\ rows'[r].made = rows[r].made
      /\ \A q \in Ids \ {r} : rows'[q] = rows[q]
  BY <1>1, Amounts DEF TypeOK, Row
<1>6. Used' = Used /\ r \in Used
  BY <1>1, <1>3, <1>5 DEF Used, Active
<1>7. broker'.sold =< broker'.executed
  BY <1>2, <1>4, Amounts DEF Held
<1>8. Held' = Held - k
  BY <1>2, <1>4, Amounts DEF Held
<1>9. ASSUME OnlyFills', ~reopened', NEW q \in Active'
      PROVE  rows'[q].left =< Held'
  <2>1. OnlyFills
    BY <1>5, <1>6, <1>9 DEF OnlyFills, Used
  <2>2. q \in Ids /\ q \in Used
    BY <1>6, <1>9 DEF Active, Used
  <2>3. q = r
    BY <1>6, <2>1, <2>2 DEF OnlyFills, FillInv, OneFillRow
  <2>4. rows[r].left =< Held
    BY <1>1, <1>9, <2>1 DEF Covered, NeverOverclaims
  <2>. QED  BY <1>2, <1>5, <1>8, <2>3, <2>4, Amounts
<1>. QED  BY <1>6, <1>7, <1>9 DEF Covered, NeverOverclaims

LEMMA InsertCovered ==
    ASSUME TypeOK, FillInv, Duties, Covered, NEW t \in Threads, Insert(t)
    PROVE  Covered'
<1>. DEFINE made == IF Named(t) THEN "fill" ELSE "guess"
<1>1. PICK r \in Ids : Fresh(r) /\ rows' = [rows EXCEPT ![r] = NewRow(t, made)]
  BY DEF Insert
<1>2. broker' = broker /\ reopened' = reopened /\ At(t, "insert")
  BY DEF Insert
<1>3. NewRow(t, made).made = made /\ NewRow(t, made).status = "OPEN"
  BY DEF NewRow
<1>4. CASE ~Named(t)
  BY <1>1, <1>2, <1>3, <1>4, GuessCovered
<1>5. CASE Named(t)
  <2>1. \A q \in Ids : rows[q].made # "fill"
    BY <1>2, <1>5 DEF FillInv, NothingMade, Claims
  <2>2. rows'[r] = NewRow(t, made) /\ \A q \in Ids \ {r} : rows'[q] = rows[q]
    BY <1>1 DEF TypeOK
  <2>3. r \in Used'
    BY <1>3, <2>2 DEF Used
  <2>4. rows'[r].left =< broker.executed
    <3>1. Filled /\ (thread[t].job = "import" => thread[t].count =< broker.executed)
      BY <1>5 DEF Duties, Tidy, Named
    <3>. QED  BY <2>2, <3>1, Amounts DEF NewRow, Filled
  <2>5. ASSUME OnlyFills', ~reopened', NEW q \in Active'
        PROVE  rows'[q].left =< Held'
    <3>1. \A p \in Ids : p # r => p \notin Used
      BY <2>1, <2>2, <2>5 DEF OnlyFills, Used
    <3>2. q = r
      BY <2>2, <2>5, <3>1 DEF Active, Used
    <3>3. Used = {}
      BY <1>1, <3>1, FreshIsUnused DEF Used
    <3>4. Held' = broker.executed
      BY <1>2, <3>3, Amounts DEF Held, Covered
    <3>. QED  BY <2>4, <3>2, <3>4
  <2>. QED  BY <1>2, <2>3, <2>5 DEF Covered, NeverOverclaims
<1>. QED  BY <1>4, <1>5

\* Steps that write ids only, and rows that did not come of the fill.
LEMMA NameCovered ==
    ASSUME TypeOK, Covered, NEW t \in Threads,
           Name(t) \/ Fallback(t) \/ Bind \/ Direct
    PROVE  Covered'
<1>1. broker' = broker /\ reopened' = reopened
  BY DEF Name, Fallback, Bind, Direct
<1>2. ASSUME NEW r, NEW v, rows' = [rows EXCEPT ![r].ids = v]
      PROVE  Covered'
  <2>1. \A q \in Ids : /\ rows'[q].made = rows[q].made
                       /\ rows'[q].status = rows[q].status
                       /\ rows'[q].left = rows[q].left
    BY <1>2, Amounts DEF TypeOK, Row
  <2>. QED  BY <1>1, <2>1, QuietCovered, Amounts
<1>3. CASE rows' = rows
  BY <1>1, <1>3, QuietCovered, Amounts
<1>4. CASE Name(t)
  <2>1. rows' = [rows EXCEPT ![thread[t].row].ids = rows[thread[t].row].ids \/ thread[t].proven]
    BY <1>4 DEF Name
  <2>. QED  BY <1>2, <2>1
<1>5. CASE Bind
  <2>1. rows' = [rows EXCEPT ![thread["monitor"].row].ids = TRUE] \/ rows' = rows
    BY <1>5 DEF Bind
  <2>. QED  BY <1>2, <1>3, <2>1
<1>6. CASE Fallback(t) /\ rows' # rows
  <2>1. PICK r \in Ids : rows' = [rows EXCEPT ![r] = NewRow(t, "direct")]
    BY <1>6 DEF Fallback
  <2>2. NewRow(t, "direct").status = "OPEN" /\ NewRow(t, "direct").made = "direct"
    BY DEF NewRow
  <2>. QED  BY <1>1, <2>1, <2>2, GuessCovered
<1>7. CASE Direct
  <2>. DEFINE new == [Unused EXCEPT !.made = "direct", !.status = "OPEN", !.ids = TRUE,
                                    !.left = thread["startup"].count]
  <2>1. PICK r \in Ids : rows' = [rows EXCEPT ![r] = new]
    BY <1>7 DEF Direct
  <2>2. new.status = "OPEN" /\ new.made = "direct"
    BY DEF Unused
  <2>. HIDE DEF new
  <2>. QED  BY <1>1, <2>1, <2>2, GuessCovered
<1>. QED  BY <1>3, <1>4, <1>5, <1>6, <1>7

LEMMA PatchCovered ==
    ASSUME TypeOK, Duties, Covered, Patch
    PROVE  Covered'
<1>. DEFINE r == thread["startup"].row
            n == thread["startup"].count
            s == IF n = 0 THEN "CLOSED_REPAIR" ELSE "OPEN"
<1>1. broker' = broker
  BY DEF Patch
<1>2. CASE UNCHANGED <<rows, reopened>>
  BY <1>1, <1>2, QuietCovered, Amounts
<1>3. CASE ~UNCHANGED <<rows, reopened>>
  <2>1. /\ rows' = [rows EXCEPT ![r].status = s, ![r].left = n]
        /\ reopened' = (reopened \/ ~AsInserted(r))
    BY <1>3 DEF Patch
  <2>2. n \in {0, Qty}
    BY DEF Duties, Repairs
  <2>3. ~reopened' => AsInserted(r) /\ ~reopened
    BY <2>1
  <2>4. AsInserted(r) <=> rows[r].status = "OPEN" /\ rows[r].left \in {Qty, n}
    BY DEF AsInserted
  <2>5. (s = "OPEN" /\ n # 0) \/ s = "CLOSED_REPAIR"
    OBVIOUS
  <2>. HIDE DEF r, n, s
  <2>6. \A q \in Ids : /\ rows'[q].made = rows[q].made
                       /\ q # r => rows'[q] = rows[q]
                       /\ q = r => rows'[q].status = s /\ rows'[q].left = n
    BY <2>1, Amounts DEF TypeOK, Row
  <2>7. Used \subseteq Used'
    BY <2>5, <2>6 DEF Used
  <2>8. Held' = Held
    BY <1>1 DEF Held
  <2>9. ASSUME OnlyFills', ~reopened', NEW q \in Active'
        PROVE  rows'[q].left =< Held'
    <3>1. OnlyFills
      BY <2>6, <2>7, <2>9 DEF OnlyFills, Used
    <3>2. q \in Ids /\ rows'[q].status = "OPEN"
      BY <2>9 DEF Active
    <3>3. CASE q # r
      BY <2>3, <2>6, <2>8, <2>9, <3>1, <3>2, <3>3 DEF Covered, NeverOverclaims, Active
    <3>4. CASE q = r
      <4>1. s = "OPEN" /\ n = Qty
        BY <2>2, <2>5, <2>6, <3>2, <3>4
      <4>2. q \in Active /\ rows[q].left = n
        BY <2>3, <2>4, <2>9, <3>2, <3>4, <4>1 DEF Active
      <4>. QED  BY <2>3, <2>6, <2>8, <2>9, <3>1, <3>2, <3>4, <4>2 DEF Covered, NeverOverclaims
    <3>. QED  BY <3>3, <3>4
  <2>. QED  BY <1>1, <2>7, <2>9 DEF Covered, NeverOverclaims
<1>. QED  BY <1>2, <1>3

LEMMA NextCovered == TypeOK /\ FillInv /\ Duties /\ Covered /\ [Next]_vars => Covered'
<1>. SUFFICES ASSUME TypeOK, FillInv, Duties, Covered, [Next]_vars PROVE Covered'
  OBVIOUS
<1>1. ASSUME broker' = broker, rows' = rows, reopened' = reopened
      PROVE  Covered'
  BY <1>1, QuietCovered, Amounts
<1>2. CASE Execute
  BY <1>2, QuietCovered, Amounts DEF Execute, TypeOK
<1>3. CASE Cancel
  BY <1>3, QuietCovered, Amounts DEF Cancel, TypeOK
<1>4. CASE \E r \in Ids : Exit(r)
  BY <1>4, ExitCovered
<1>5. CASE \E t \in Threads : Insert(t)
  BY <1>5, InsertCovered
<1>6. CASE Bind \/ Direct \/ \E t \in {"reconciler", "startup"} : Name(t) \/ Fallback(t)
  BY <1>6, NameCovered DEF Threads
<1>7. CASE Patch
  BY <1>7, PatchCovered
<1>8. CASE \/ Restart \/ List \/ Import \/ Orphan \/ UNCHANGED vars
           \/ \E t \in {"monitor", "reconciler"} : Load(t) \/ Advance(t) \/ End(t)
           \/ \E t \in {"reconciler", "startup"} : Link(t)
           \/ \E t \in Threads : Select(t) \/ OpenFails(t) \/ Fail(t)
  <2>1. broker' = broker /\ rows' = rows /\ reopened' = reopened
    BY <1>8 DEF Restart, List, Import, Orphan, Load, Advance, End, Link, Select, OpenFails,
                Fail, vars
  <2>. QED  BY <1>1, <2>1
<1>. QED  BY <1>2, <1>3, <1>4, <1>5, <1>6, <1>7, <1>8 DEF Next

\* Rows that came of the fill, and were not written over by the repair, claim no
\* contract the account does not hold, whatever was sold, failed or died: there
\* is one of them, it is inserted with what the account then holds, and only its
\* own exit sells.
THEOREM ClaimsAreCovered == Spec => []NeverOverclaims
<1>1. Covered => NeverOverclaims
  BY DEF Covered
<1>. QED  BY InitTyped, InitFill, InitDuties, InitCovered, NextTyped, NextFill, NextDuties,
             NextCovered, <1>1, PTL DEF Spec

=============================================================================
