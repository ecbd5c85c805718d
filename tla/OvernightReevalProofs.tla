----------------------- MODULE OvernightReevalProofs -----------------------
(***************************************************************************)
(* Proofs about OvernightReeval, for any number of orders the setup could  *)
(* get: types, that it never gets a second one, and that neither the       *)
(* ledger nor an attempt counted as done hides an order nobody watches.    *)
(***************************************************************************)
EXTENDS OvernightReeval, TLAPS

LEMMA StepMembers ==
    /\ "idle" \in Steps
    /\ Deciding \subseteq Steps /\ Admitting \subseteq Steps
    /\ Creating \subseteq Steps /\ Reattaching \subseteq Steps
    /\ Proving \subseteq Steps
BY DEF Steps

LEMMA AttemptIsRecord ==
    ASSUME attempt \in Attempt
    PROVE  /\ Idle \in Attempt
           /\ \A s \in Steps : [attempt EXCEPT !.at = s] \in Attempt
           /\ \A s \in Steps, o \in Slots :
                 [attempt EXCEPT !.at = s, !.order = o] \in Attempt
           /\ \A o \in Slots :
                 [attempt EXCEPT !.at = "reattach", !.order = o, !.again = TRUE]
                    \in Attempt
           /\ \A p \in BOOLEAN : [attempt EXCEPT !.at = "active", !.proof = p]
                                    \in Attempt
           /\ [Idle EXCEPT !.at = "ledger"] \in Attempt
<1>1. Idle \in Attempt
  BY StepMembers DEF Idle, Attempt
<1>2. /\ "reattach" \in Steps /\ "active" \in Steps /\ "ledger" \in Steps
  BY StepMembers DEF Reattaching, Deciding
<1>. QED  BY <1>1, <1>2 DEF Attempt

-----------------------------------------------------------------------------
(* The ledger row. *)

LEMMA Patches ==
    ASSUME NEW m \in Meta
    PROVE  /\ ModeSession(m) \in Meta /\ Fencing(m) \in Meta
           /\ Clearing(m) \in Meta /\ SessionOnly(m) \in Meta
BY DEF Meta, Sessions, ModeSession, Fencing, Clearing, SessionOnly

LEMMA RowIsRecord ==
    ASSUME NEW row \in Ledger
    PROVE  /\ row.status \in LedgerStatuses /\ row.meta \in Meta
           /\ NoMeta \in Meta
BY DEF Ledger, Meta, NoMeta, Sessions

\* What update_opportunity() leaves: a status that was there or is asked for,
\* metadata that were there or are asked for.
LEMMA UpdatedRow ==
    ASSUME NEW row \in Ledger, NEW status \in LedgerStatuses,
           NEW metas \in SUBSET Meta, NEW new \in Updated(row, status, metas)
    PROVE  /\ new \in Ledger
           /\ row.status # "none" => new.meta \in metas
           /\ row.status = "none" => new = row
<1>1. CASE row.status = "none"
  BY <1>1 DEF Updated
<1>2. CASE row.status # "none"
  <2>1. PICK s \in Written(row.status, status), m \in metas :
           new = [status |-> s, meta |-> m]
    BY <1>2 DEF Updated
  <2>2. s \in LedgerStatuses
    BY <2>1, RowIsRecord DEF Written
  <2>. QED  BY <1>2, <2>1, <2>2 DEF Ledger
<1>. QED  BY <1>1, <1>2

LEMMA EnsuredRow ==
    ASSUME NEW row \in Ledger
    PROVE  /\ Ensured(row) \in Ledger
           /\ Ensured(row).meta = row.meta
           /\ Ensured(row).status # "none"
           /\ Settles(Ensured(row)) => Settles(row)
<1>1. "progress" \in LedgerStatuses /\ "progress" # "none"
  BY DEF LedgerStatuses
<1>2. "progress" \notin Settling
  BY DEF Settling, Terminal
<1>. QED  BY <1>1, <1>2 DEF Ensured, Ledger, Settles, ThisSession

LEMMA StatusMembers ==
    /\ "progress" \in LedgerStatuses /\ "MISSED" \in LedgerStatuses
    /\ "WATCHER_ARMED" \in LedgerStatuses /\ "terminal" \in LedgerStatuses
    /\ "BROKER_SUBMITTED" \in LedgerStatuses /\ "FILLED" \in LedgerStatuses
BY DEF LedgerStatuses

LEMMA ReadableMetas ==
    ASSUME ledger \in Ledger
    PROVE  /\ Readable \in SUBSET Meta
           /\ {ModeSession(m) : m \in Readable} \in SUBSET Meta
           /\ {Fencing(m) : m \in Readable} \in SUBSET Meta
           /\ {Clearing(m) : m \in Readable} \in SUBSET Meta
           /\ {NotePatch(m) : m \in Readable} \in SUBSET Meta
<1>1. Readable \in SUBSET Meta
  BY RowIsRecord DEF Readable
<1>. QED  BY <1>1, Patches DEF NotePatch

-----------------------------------------------------------------------------
(* Types. *)

LEMMA OrderMembers ==
    /\ "none" \in Statuses /\ "PENDING_TRIGGER" \in Statuses
    /\ "owned" \in Statuses /\ "ended" \in Statuses
BY DEF Statuses

LEMMA VerdictMembers ==
    /\ "none" \in Verdicts /\ "retry" \in Verdicts /\ "resolved" \in Verdicts
    /\ "armed" \in Verdicts /\ "rejected" \in Verdicts /\ "error" \in Verdicts
BY DEF Verdicts

\* The newest of a set of orders is one of them.
LEMMA NewestIsMember ==
    ASSUME NEW S \in SUBSET Slots, S # {}, \A o, p \in S : o = p
    PROVE  Newest(S) \in S
<1>1. \E o \in S : \A p \in S : p =< o
  <2>1. PICK o \in S : TRUE
    OBVIOUS
  <2>2. \A p \in S : p = o
    BY <2>1
  <2>3. o =< o
    BY <2>1, MaxOrdersAssumption DEF Slots
  <2>. QED  BY <2>1, <2>2, <2>3
<1>. QED  BY <1>1 DEF Newest

LEMMA PlacedSubset == Placed \in SUBSET Slots
BY DEF Placed

\* Where the attempt is, it can only be for an order that exists.
Engaged == Creating \cup Reattaching \cup Proving
Ordered == attempt.at \in Engaged => attempt.order \in Placed
Unplaced == attempt.at \in Admitting => Placed = {}
Held == watched \subseteq Placed
Single == TypeOK /\ OneEntryEver /\ Ordered /\ Unplaced /\ Held

THEOREM InitSingle == Init => Single
<1>. SUFFICES ASSUME Init PROVE Single
  OBVIOUS
<1>1. TypeOK
  BY AttemptIsRecord, VerdictMembers, StepMembers DEF Init, TypeOK, Idle, Attempt
<1>2. OneEntryEver
  BY MaxOrdersAssumption DEF Init, OneEntryEver, Placed, Slots
<1>3. Ordered /\ Unplaced
  BY DEF Init, Ordered, Unplaced, Idle, Engaged, Creating, Reattaching, Proving, Admitting
<1>4. Held
  BY DEF Init, Held, Placed
<1>. QED  BY <1>1, <1>2, <1>3, <1>4 DEF Single

\* Moves of the attempt alone.
LEMMA Going ==
    ASSUME TypeOK, NEW s \in Steps, To(s), UNCHANGED verdict
    PROVE  /\ attempt' \in Attempt /\ attempt'.at = s
           /\ attempt'.order = attempt.order /\ verdict' \in Verdicts
<1>1. attempt' \in Attempt
  BY AttemptIsRecord DEF TypeOK, To
<1>. QED  BY <1>1 DEF TypeOK, To, Attempt

LEMMA Concluding ==
    ASSUME TypeOK, NEW v \in Verdicts, Conclude(v)
    PROVE  /\ attempt' \in Attempt /\ attempt'.at = "idle" /\ verdict' \in Verdicts
           /\ attempt'.at \notin Engaged /\ attempt'.at \notin Admitting
BY AttemptIsRecord DEF TypeOK, Conclude, Idle, Engaged, Creating, Reattaching,
      Proving, Admitting

\* A step that touches no order keeps Single if the attempt goes on rightly.
LEMMA SameOrders ==
    ASSUME Single, UNCHANGED orders, watched' \subseteq watched \cup Placed, ledger' \in Ledger,
           lost' \subseteq Slots, suppressed' \subseteq Slots,
           attempt' \in Attempt, verdict' \in Verdicts,
           attempt'.at \in Engaged => attempt'.order \in Placed,
           attempt'.at \in Admitting => Placed = {}
    PROVE  Single'
<1>1. Placed' = Placed
  BY DEF Placed
<1>2. TypeOK' /\ Held'
  BY <1>1, PlacedSubset DEF Single, TypeOK, Held
<1>3. OneEntryEver'
  BY <1>1 DEF Single, OneEntryEver
<1>4. Ordered' /\ Unplaced'
  BY <1>1 DEF Ordered, Unplaced
<1>. QED  BY <1>2, <1>3, <1>4 DEF Single

\* A step that moves an order that exists, likewise.
LEMMA MovedOrder ==
    ASSUME Single, NEW o \in Placed, NEW s \in Statuses \ {"none"},
           orders' = [orders EXCEPT ![o] = s],
           watched' \subseteq watched \cup Placed, UNCHANGED <<ledger, lost, suppressed>>,
           attempt' \in Attempt, verdict' \in Verdicts,
           attempt'.at \in Engaged => attempt'.order \in Placed,
           attempt'.at \in Admitting => Placed = {}
    PROVE  Single'
<1>1. o \in Slots /\ orders[o] # "none"
  BY DEF Placed
<1>2. TypeOK'
  BY <1>1, PlacedSubset DEF Single, TypeOK, Held
<1>3. Placed' = Placed /\ Held'
  BY <1>1 DEF Placed, Single, TypeOK, Held
<1>4. OneEntryEver'
  BY <1>3 DEF Single, OneEntryEver
<1>5. Ordered' /\ Unplaced'
  BY <1>3 DEF Ordered, Unplaced
<1>. QED  BY <1>2, <1>3, <1>4, <1>5 DEF Single

LEMMA RetriedSingle ==
    ASSUME Single, Retried
    PROVE  Single'
<1>1. TypeOK /\ Conclude("retry") /\ OnlyAttempt
  BY DEF Single, Retried
<1>. QED  BY <1>1, Concluding, VerdictMembers, SameOrders DEF OnlyAttempt, Keeping, TypeOK

LEMMA DisposedSingle ==
    ASSUME Single, NEW o \in Placed, Disposed(o), OnlyAttempt
    PROVE  Single'
<1>. USE DEF Single
<1>0. /\ TypeOK /\ o \in Slots
      /\ UNCHANGED <<orders, watched, ledger, lost, suppressed>>
  BY DEF OnlyAttempt, Keeping, Placed
<1>1. CASE \E v \in Verdicts : Conclude(v)
  BY <1>0, <1>1, Concluding, SameOrders DEF TypeOK
<1>2. CASE /\ attempt' = [attempt EXCEPT !.at = "reattach", !.order = o, !.again = TRUE]
           /\ UNCHANGED verdict
  <2>1. attempt' \in Attempt
    BY <1>0, <1>2, AttemptIsRecord DEF TypeOK
  <2>2. attempt'.at = "reattach" /\ attempt'.order = o
    BY <1>0, <1>2 DEF TypeOK, Attempt
  <2>3. "reattach" \notin Admitting
    BY DEF Admitting
  <2>. QED  BY <1>0, <1>2, <2>1, <2>2, <2>3, SameOrders DEF TypeOK
<1>. QED  BY <1>1, <1>2, VerdictMembers DEF Disposed

-----------------------------------------------------------------------------
(* Single, action by action. *)

\* Steps of the attempt that change nothing else, from how they end.
LEMMA GoingOn ==
    ASSUME Single, NEW s \in Steps, To(s), UNCHANGED verdict, OnlyAttempt,
           s \in Engaged => attempt.order \in Placed,
           s \in Admitting => Placed = {}
    PROVE  Single'
<1>1. TypeOK
  BY DEF Single
<1>. QED  BY <1>1, Going, SameOrders DEF OnlyAttempt, Keeping, TypeOK

LEMMA Ending ==
    ASSUME Single, NEW v \in Verdicts, Conclude(v), OnlyAttempt
    PROVE  Single'
<1>1. TypeOK
  BY DEF Single
<1>. QED  BY <1>1, Concluding, SameOrders DEF OnlyAttempt, Keeping, TypeOK

\* Steps that write the ledger row, and maybe the marked orders.
LEMMA Recording ==
    ASSUME Single, UNCHANGED <<orders, watched, lost>>, ledger' \in Ledger,
           suppressed' \subseteq Slots,
           \/ \E v \in Verdicts : Conclude(v)
           \/ \E s \in Steps : To(s) /\ UNCHANGED verdict
                  /\ (s \in Engaged => attempt.order \in Placed)
                  /\ s \notin Admitting
    PROVE  Single'
<1>1. TypeOK
  BY DEF Single
<1>2. CASE \E v \in Verdicts : Conclude(v)
  BY <1>1, <1>2, Concluding, SameOrders DEF TypeOK
<1>3. ASSUME NEW s \in Steps, To(s), UNCHANGED verdict, s \notin Admitting,
             s \in Engaged => attempt.order \in Placed
      PROVE  Single'
  BY <1>1, <1>3, Going, SameOrders DEF TypeOK
<1>. QED  BY <1>2, <1>3

\* Where each step may go.
LEMMA StepPlaces ==
    /\ {"active", "latest"} \subseteq Deciding
    /\ {"ledger", "active", "latest"} \cap (Engaged \cup Admitting) = {}
    /\ {"admit", "create"} = Admitting /\ Admitting \cap Engaged = {}
    /\ {"ensure", "arm", "cleanup", "note", "noteLeft"} = Creating
    /\ {"reattach", "fenced", "rearm", "recheck", "suppress", "suppressed",
         "blind", "blinded"} = Reattaching
    /\ {"prove", "proved", "clear", "cleared"} = Proving
    /\ Engaged \subseteq Steps
BY StepMembers DEF Deciding, Admitting, Creating, Reattaching, Proving, Engaged

LEMMA DecidingSingle ==
    ASSUME Single, Begin \/ ReadLedger \/ ReadActive \/ ReadLatest
    PROVE  Single'
<1>0. TypeOK /\ OneEntryEver
  BY DEF Single
<1>1. CASE Begin
  <2>1. attempt' \in Attempt /\ attempt'.at = "ledger"
    BY <1>0, <1>1, AttemptIsRecord DEF TypeOK, Begin, Idle
  <2>. QED  BY <1>0, <1>1, <2>1, StepPlaces, SameOrders
            DEF Begin, OnlyAttempt, Keeping, TypeOK
<1>2. CASE ReadLedger
  <2>1. CASE Retried
    BY <2>1, RetriedSingle
  <2>2. CASE Conclude("resolved") /\ OnlyAttempt
    BY <2>2, Ending, VerdictMembers
  <2>3. CASE /\ attempt' = [attempt EXCEPT !.at = "active",
                                          !.proof = ThisSession(ledger)]
             /\ UNCHANGED verdict /\ OnlyAttempt
    <3>1. ThisSession(ledger) \in BOOLEAN
      BY DEF ThisSession
    <3>2. attempt' \in Attempt
      BY <1>0, <2>3, <3>1, AttemptIsRecord DEF TypeOK
    <3>3. attempt'.at = "active"
      BY <1>0, <2>3 DEF TypeOK, Attempt
    <3>. QED  BY <1>0, <2>3, <3>2, <3>3, StepPlaces, SameOrders
              DEF OnlyAttempt, Keeping, TypeOK
  <2>. QED  BY <1>2, <2>1, <2>2, <2>3 DEF ReadLedger
<1>3. CASE ReadActive
  <2>. DEFINE found == {o \in Slots : orders[o] \in Active}
  <2>1. CASE Retried
    BY <2>1, RetriedSingle
  <2>2. CASE found # {} /\ Disposed(Newest(found)) /\ OnlyAttempt
    <3>1. found \subseteq Placed
      BY DEF Placed, Active
    <3>2. Newest(found) \in found
      BY <1>0, <2>2, <3>1, NewestIsMember, PlacedSubset DEF OneEntryEver
    <3>. QED  BY <2>2, <3>1, <3>2, DisposedSingle
  <2>3. CASE To("latest") /\ UNCHANGED verdict /\ OnlyAttempt
    BY <2>3, GoingOn, StepPlaces, StepMembers
  <2>. QED  BY <1>3, <2>1, <2>2, <2>3 DEF ReadActive
<1>4. CASE ReadLatest
  <2>1. CASE Retried
    BY <2>1, RetriedSingle
  <2>2. CASE Placed # {} /\ Disposed(Newest(Placed)) /\ OnlyAttempt
    <3>1. Newest(Placed) \in Placed
      BY <1>0, <2>2, NewestIsMember, PlacedSubset DEF OneEntryEver
    <3>. QED  BY <2>2, <3>1, DisposedSingle
  <2>3. CASE Placed = {} /\ To("admit") /\ UNCHANGED verdict /\ OnlyAttempt
    BY <2>3, GoingOn, StepPlaces, StepMembers
  <2>. QED  BY <1>4, <2>1, <2>2, <2>3 DEF ReadLatest, Unreadable
<1>. QED  BY <1>1, <1>2, <1>3, <1>4

LEMMA CreatingSingle ==
    ASSUME Single, Admit \/ Create \/ EnsurePending \/ Arm \/ Cleanup \/ NoteFailure
    PROVE  Single'
<1>0. TypeOK /\ OneEntryEver /\ Ordered /\ Unplaced
  BY DEF Single
<1>1. CASE Admit
  <2>1. CASE \E v \in Verdicts : Conclude(v) /\ OnlyAttempt
    BY <2>1, Ending
  <2>2. CASE To("create") /\ UNCHANGED verdict /\ OnlyAttempt
    <3>1. Placed = {}
      BY <1>0, <1>1, StepPlaces DEF Unplaced, Admit
    <3>. QED  BY <2>2, <3>1, GoingOn, StepPlaces, StepMembers
  <2>. QED  BY <1>1, <2>1, <2>2, VerdictMembers DEF Admit
<1>2. CASE Create
  <2>0. Placed = {} /\ UNCHANGED <<watched, ledger, lost, suppressed>>
    BY <1>0, <1>2, StepPlaces DEF Unplaced, Create, Keeping
  <2>1. CASE Conclude("error") /\ UNCHANGED orders
    BY <1>0, <2>0, <2>1, Concluding, VerdictMembers, SameOrders DEF TypeOK
  <2>2. ASSUME NEW o \in Slots,
               orders' = [orders EXCEPT ![o] = "PENDING_TRIGGER"],
               \/ ToOrder("ensure", o) /\ UNCHANGED verdict
               \/ Conclude("error")
        PROVE  Single'
    <3>1. /\ attempt' \in Attempt /\ verdict' \in Verdicts
          /\ attempt'.at \in Engaged => attempt'.order = o
          /\ attempt'.at \notin Admitting
      <4>1. CASE ToOrder("ensure", o) /\ UNCHANGED verdict
        <5>1. attempt' \in Attempt
          BY <1>0, <4>1, AttemptIsRecord, StepPlaces, StepMembers DEF TypeOK, ToOrder
        <5>2. attempt'.at = "ensure" /\ attempt'.order = o
          BY <1>0, <4>1 DEF TypeOK, ToOrder, Attempt
        <5>. QED  BY <1>0, <4>1, <5>1, <5>2, StepPlaces DEF TypeOK, Engaged
      <4>2. CASE Conclude("error")
        BY <1>0, <4>2, Concluding, VerdictMembers
      <4>. QED  BY <2>2, <4>1, <4>2
    <3>2. orders' \in [Slots -> Statuses]
      BY <1>0, <2>2, OrderMembers DEF TypeOK
    <3>3. Placed' = {o}
      BY <1>0, <2>0, <2>2 DEF TypeOK, Placed
    <3>4. TypeOK'
      BY <1>0, <2>0, <3>1, <3>2 DEF TypeOK
    <3>5. OneEntryEver' /\ Ordered' /\ Unplaced' /\ Held'
      BY <2>0, <3>1, <3>3 DEF OneEntryEver, Ordered, Unplaced, Held, Single
    <3>. QED  BY <3>4, <3>5 DEF Single
  <2>. QED  BY <1>2, <2>1, <2>2 DEF Create
<1>3. CASE EnsurePending
  <2>1. attempt.order \in Placed
    BY <1>0, <1>3, StepPlaces DEF EnsurePending, Ordered, Engaged
  <2>2. CASE To("arm") /\ UNCHANGED verdict /\ OnlyAttempt
    BY <2>1, <2>2, GoingOn, StepPlaces, StepMembers
  <2>3. CASE Conclude("error") /\ OnlyAttempt
    BY <2>3, Ending, VerdictMembers
  <2>. QED  BY <1>3, <2>2, <2>3 DEF EnsurePending
<1>4. CASE Arm
  <2>1. attempt.order \in Placed /\ attempt.order \in Slots
    BY <1>0, <1>4, StepPlaces, PlacedSubset DEF Arm, Ordered, Engaged
  <2>2. UNCHANGED <<ledger, lost, suppressed>>
    BY <1>4 DEF Arm, Keeping
  <2>3. CASE /\ watched' = watched \cup {attempt.order}
             /\ To("prove") /\ UNCHANGED <<orders, verdict>>
    BY <1>0, <2>1, <2>2, <2>3, Going, SameOrders, StepPlaces, StepMembers DEF TypeOK
  <2>4. CASE /\ orders' \in {orders, [orders EXCEPT ![attempt.order] = "ended"]}
             /\ To("cleanup") /\ UNCHANGED <<watched, verdict>>
    <3>1. /\ attempt' \in Attempt /\ verdict' \in Verdicts
          /\ attempt'.at = "cleanup" /\ attempt'.order = attempt.order
      BY <1>0, <2>4, Going, StepPlaces, StepMembers
    <3>2. CASE UNCHANGED orders
      BY <1>0, <2>1, <2>2, <2>4, <3>1, <3>2, SameOrders, StepPlaces DEF TypeOK
    <3>3. CASE orders' = [orders EXCEPT ![attempt.order] = "ended"]
      BY <1>0, <2>1, <2>2, <2>4, <3>1, <3>3, MovedOrder, StepPlaces, OrderMembers
         DEF TypeOK
    <3>. QED  BY <2>4, <3>2, <3>3
  <2>. QED  BY <1>4, <2>3, <2>4 DEF Arm
<1>5. CASE Cleanup
  <2>1. attempt.order \in Placed /\ attempt.order \in Slots
    BY <1>0, <1>5, StepPlaces, PlacedSubset DEF Cleanup, Ordered, Engaged
  <2>2. UNCHANGED <<watched, ledger, lost, suppressed>> /\ UNCHANGED verdict
    BY <1>5 DEF Cleanup, Keeping
  <2>3. CASE orders' = [orders EXCEPT ![attempt.order] = "ended"] /\ To("note")
    <3>1. /\ attempt' \in Attempt /\ verdict' \in Verdicts
          /\ attempt'.at = "note" /\ attempt'.order = attempt.order
      BY <1>0, <2>2, <2>3, Going, StepPlaces, StepMembers
    <3>2. "note" \notin Admitting /\ "ended" \in Statuses \ {"none"}
      BY StepPlaces, OrderMembers
    <3>. QED  BY <2>1, <2>2, <2>3, <3>1, <3>2, MovedOrder
  <2>4. CASE UNCHANGED orders /\ To("noteLeft")
    BY <1>0, <2>1, <2>2, <2>4, Going, SameOrders, StepPlaces, StepMembers DEF TypeOK
  <2>. QED  BY <1>5, <2>3, <2>4 DEF Cleanup
<1>6. CASE NoteFailure
  <2>1. ledger' \in Ledger
    <3>1. ledger \in Ledger /\ Ensured(ledger) \in Ledger
      BY <1>0, EnsuredRow DEF TypeOK
    <3>2. CASE ledger' \in {ledger, Ensured(ledger)}
      BY <3>1, <3>2
    <3>3. ASSUME NEW status \in {"MISSED", "terminal"},
                 ledger' \in Updated(Ensured(ledger), status,
                                     {NotePatch(m) : m \in Readable})
          PROVE  ledger' \in Ledger
      <4>1. status \in LedgerStatuses
        BY StatusMembers
      <4>. QED  BY <3>1, <3>3, <4>1, UpdatedRow, ReadableMetas
    <3>. QED  BY <1>6, <3>2, <3>3 DEF NoteFailure
  <2>. QED  BY <1>0, <1>6, <2>1, Recording, VerdictMembers
            DEF NoteFailure, OnlyLedger, TypeOK
<1>. QED  BY <1>1, <1>2, <1>3, <1>4, <1>5, <1>6

LEMMA ReattachingSingle ==
    ASSUME Single,
           \/ Reattach \/ ReadFence \/ Rearm \/ Recheck \/ Suppress
           \/ ReadSuppression
    PROVE  Single'
<1>0. TypeOK /\ OneEntryEver /\ Ordered /\ Unplaced
  BY DEF Single
<1>1. attempt.at \in Reattaching /\ attempt.order \in Placed /\ attempt.order \in Slots
  BY <1>0, StepPlaces, PlacedSubset DEF Ordered, Engaged, Reattach, ReadFence,
     Rearm, Recheck, Suppress, ReadSuppression
<1>2. ledger \in Ledger /\ Ensured(ledger) \in Ledger
  BY <1>0, EnsuredRow DEF TypeOK
<1>3. CASE Reattach
  <2>1. CASE Retried
    BY <2>1, RetriedSingle
  <2>2. CASE To("prove") /\ UNCHANGED verdict /\ OnlyAttempt
    BY <1>1, <2>2, GoingOn, StepPlaces, StepMembers
  <2>3. ASSUME ledger' \in Updated(Ensured(ledger), "progress",
                                   {Fencing(m) : m \in Readable}),
               To("fenced"), UNCHANGED verdict, OnlyLedger, UNCHANGED suppressed
        PROVE  Single'
    <3>1. ledger' \in Ledger
      BY <1>2, <2>3, UpdatedRow, ReadableMetas, StatusMembers
    <3>2. "fenced" \in Steps /\ "fenced" \notin Admitting
      BY StepPlaces, StepMembers
    <3>. QED  BY <1>0, <1>1, <2>3, <3>1, <3>2, Recording DEF OnlyLedger, TypeOK
  <2>4. CASE /\ ledger' = Ensured(ledger) /\ Conclude("retry")
             /\ OnlyLedger /\ UNCHANGED suppressed
    BY <1>0, <1>2, <2>4, Recording, VerdictMembers DEF OnlyLedger, TypeOK
  <2>. QED  BY <1>3, <2>1, <2>2, <2>3, <2>4 DEF Reattach
<1>4. CASE ReadFence
  <2>1. CASE Retried
    BY <2>1, RetriedSingle
  <2>2. CASE To("rearm") /\ UNCHANGED verdict /\ OnlyAttempt
    BY <1>1, <2>2, GoingOn, StepPlaces, StepMembers
  <2>. QED  BY <1>4, <2>1, <2>2 DEF ReadFence
<1>5. CASE Rearm
  <2>1. UNCHANGED <<ledger, lost, suppressed>>
    BY <1>5 DEF Rearm, Keeping
  <2>2. CASE /\ watched' = watched \cup {attempt.order}
             /\ To("prove") /\ UNCHANGED <<orders, verdict>>
    BY <1>0, <1>1, <2>1, <2>2, Going, SameOrders, StepPlaces, StepMembers DEF TypeOK
  <2>3. ASSUME \/ UNCHANGED orders
               \/ orders' = [orders EXCEPT ![attempt.order] = "ended"],
               \/ To("recheck") /\ UNCHANGED verdict
               \/ Conclude("retry"),
               UNCHANGED watched
        PROVE  Single'
    <3>1. /\ attempt' \in Attempt /\ verdict' \in Verdicts
          /\ attempt'.at \in Engaged => attempt'.order \in Placed
          /\ attempt'.at \notin Admitting
      BY <1>0, <1>1, <2>3, Going, Concluding, VerdictMembers, StepPlaces, StepMembers
    <3>2. CASE UNCHANGED orders
      BY <1>0, <2>1, <2>3, <3>1, <3>2, SameOrders DEF TypeOK
    <3>3. CASE orders' = [orders EXCEPT ![attempt.order] = "ended"]
      BY <1>0, <1>1, <2>1, <2>3, <3>1, <3>3, MovedOrder, OrderMembers DEF TypeOK
    <3>. QED  BY <2>3, <3>2, <3>3
  <2>. QED  BY <1>5, <2>2, <2>3 DEF Rearm
<1>6. CASE Recheck
  <2>1. CASE \E v \in Verdicts : Conclude(v) /\ OnlyAttempt
    BY <2>1, Ending
  <2>2. CASE \E s \in {"blind", "suppress"} : To(s) /\ UNCHANGED verdict /\ OnlyAttempt
    BY <1>1, <2>2, GoingOn, StepPlaces, StepMembers
  <2>. QED  BY <1>6, <2>1, <2>2, VerdictMembers DEF Recheck
<1>7. CASE Suppress
  <2>1. suppressed' \subseteq Slots /\ UNCHANGED <<orders, watched, lost>>
    BY <1>0, <1>1, <1>7 DEF Suppress, OnlyLedger, TypeOK
  <2>2. ASSUME NEW s \in {"blinded", "suppressed"},
               ledger' \in Updated(Ensured(ledger), "MISSED",
                                   {ModeSession(m) : m \in Readable}),
               To(s), UNCHANGED verdict
        PROVE  Single'
    <3>1. ledger' \in Ledger
      BY <1>2, <2>2, UpdatedRow, ReadableMetas, StatusMembers
    <3>2. s \in Steps /\ s \notin Admitting
      BY StepPlaces, StepMembers
    <3>. QED  BY <1>1, <2>1, <2>2, <3>1, <3>2, Recording
  <2>3. CASE ledger' = Ensured(ledger) /\ Conclude("retry")
    BY <1>2, <2>1, <2>3, Recording, VerdictMembers
  <2>. QED  BY <1>7, <2>2, <2>3 DEF Suppress
<1>8. CASE ReadSuppression
  <2>1. CASE Retried
    BY <2>1, RetriedSingle
  <2>2. CASE Conclude("resolved") /\ OnlyAttempt
    BY <2>2, Ending, VerdictMembers
  <2>. QED  BY <1>8, <2>1, <2>2 DEF ReadSuppression
<1>. QED  BY <1>3, <1>4, <1>5, <1>6, <1>7, <1>8

LEMMA ProofStepSingle ==
    ASSUME Single, attempt.at \in Proving, NEW to \in Proving,
           NEW metas \in SUBSET Meta, OnlyLedger, UNCHANGED suppressed,
           \/ /\ ledger' \in Updated(Ensured(ledger), "WATCHER_ARMED", metas)
              /\ To(to) /\ UNCHANGED verdict
           \/ ledger' = Ensured(ledger) /\ Conclude("retry")
    PROVE  Single' /\ ledger' \in Ledger
<1>1. /\ TypeOK /\ attempt.order \in Placed
      /\ to \in Steps /\ to \notin Admitting
  BY StepPlaces, StepMembers DEF Single, Ordered, Engaged
<1>2. ledger \in Ledger /\ Ensured(ledger) \in Ledger
  BY <1>1, EnsuredRow DEF TypeOK
<1>3. ledger' \in Ledger
  BY <1>2, UpdatedRow, StatusMembers
<1>. QED  BY <1>1, <1>3, Recording, VerdictMembers DEF OnlyLedger, TypeOK

LEMMA ProvingSingle ==
    ASSUME Single, Prove \/ ReadProof \/ Clear \/ ReadCleared
    PROVE  Single'
<1>0. TypeOK /\ Ordered /\ ledger \in Ledger
  BY DEF Single, TypeOK
<1>1. CASE Prove
  BY <1>0, <1>1, ProofStepSingle, StepPlaces, ReadableMetas DEF Prove, ProofStep
<1>2. CASE Clear
  BY <1>0, <1>2, ProofStepSingle, StepPlaces, ReadableMetas DEF Clear, ProofStep
<1>3. CASE ReadProof
  <2>1. attempt.order \in Placed
    BY <1>0, <1>3, StepPlaces DEF ReadProof, Ordered, Engaged
  <2>2. CASE Retried
    BY <2>2, RetriedSingle
  <2>3. CASE To("clear") /\ UNCHANGED verdict /\ OnlyAttempt
    BY <2>1, <2>3, GoingOn, StepPlaces, StepMembers
  <2>4. CASE Conclude("armed") /\ OnlyAttempt
    BY <2>4, Ending, VerdictMembers
  <2>. QED  BY <1>3, <2>2, <2>3, <2>4 DEF ReadProof
<1>4. CASE ReadCleared
  <2>1. CASE Retried
    BY <2>1, RetriedSingle
  <2>2. CASE Conclude("armed") /\ OnlyAttempt
    BY <2>2, Ending, VerdictMembers
  <2>. QED  BY <1>4, <2>1, <2>2 DEF ReadCleared
<1>. QED  BY <1>1, <1>2, <1>3, <1>4

LEMMA OthersSingle ==
    ASSUME Single,
           \/ \E o \in Slots : WatchEnds(o) \/ Executes(o) \/ Report(o)
           \/ Restart \/ NextSession
    PROVE  Single'
<1>0. /\ TypeOK /\ OneEntryEver /\ ledger \in Ledger
      /\ attempt.at \in Engaged => attempt.order \in Placed
      /\ attempt.at \in Admitting => Placed = {}
  BY DEF Single, TypeOK, Ordered, Unplaced
<1>1. ASSUME NEW o \in Slots, WatchEnds(o)
      PROVE  Single'
  <2>1. o \in Placed
    BY <1>1 DEF Single, Held, WatchEnds
  <2>. QED  BY <1>0, <1>1, <2>1, MovedOrder, OrderMembers DEF WatchEnds, Keeping, TypeOK
<1>2. ASSUME NEW o \in Slots, Executes(o)
      PROVE  Single'
  BY <1>0, <1>2, MovedOrder, OrderMembers DEF Executes, Keeping, TypeOK, Placed
<1>3. ASSUME NEW o \in Slots, Report(o)
      PROVE  Single'
  <2>1. PICK status \in {"BROKER_SUBMITTED", "FILLED", "terminal"} :
           ledger' \in Updated(ledger, status, Readable)
    BY <1>3 DEF Report
  <2>2. ledger' \in Ledger
    BY <1>0, <2>1, UpdatedRow, ReadableMetas, StatusMembers
  <2>. QED  BY <1>0, <1>3, <2>2, SameOrders DEF Report, Keeping, TypeOK
<1>4. CASE Restart
  <2>1. PICK armed \in SUBSET {o \in Slots : orders[o] = "PENDING_TRIGGER"},
             ended \in SUBSET {o \in Slots : orders[o] = "PENDING_TRIGGER"} :
          /\ watched' = armed \ ended
          /\ orders' = [o \in Slots |-> IF o \in ended THEN "ended" ELSE orders[o]]
          /\ lost' = lost \cup {o \in Slots : /\ orders[o] = "PENDING_TRIGGER"
                                              /\ o \notin armed \cup ended}
    BY <1>4 DEF Restart
  <2>2. orders' \in [Slots -> Statuses] /\ watched' \subseteq Slots /\ lost' \subseteq Slots
    BY <1>0, <2>1, OrderMembers DEF TypeOK
  <2>3. /\ attempt' = Idle /\ verdict' = "none" /\ UNCHANGED <<ledger, suppressed>>
        /\ Idle \in Attempt /\ Idle.at = "idle"
    BY <1>0, <1>4, AttemptIsRecord DEF Restart, Idle, TypeOK
  <2>4. "idle" \notin Engaged /\ "idle" \notin Admitting
    BY DEF Engaged, Creating, Reattaching, Proving, Admitting
  <2>5. Placed' = Placed
    BY <2>1 DEF Placed
  <2>6. TypeOK'
    BY <1>0, <2>2, <2>3, VerdictMembers DEF TypeOK
  <2>7. Held'
    BY <2>1, <2>5 DEF Held, Placed
  <2>. QED  BY <1>0, <2>3, <2>4, <2>5, <2>6, <2>7
            DEF Single, OneEntryEver, Ordered, Unplaced
<1>5. CASE NextSession
  <2>1. ledger' \in Ledger
    <3>1. [mode |-> ledger.meta.mode, session |-> "earlier",
           reattach |-> ledger.meta.reattach] \in Meta
      BY <1>0, RowIsRecord DEF Meta, Sessions
    <3>. QED  BY <1>0, <1>5, <3>1 DEF NextSession, Ledger
  <2>. QED  BY <1>0, <1>5, <2>1, SameOrders, VerdictMembers DEF NextSession, TypeOK
<1>. QED  BY <1>1, <1>2, <1>3, <1>4, <1>5

LEMMA NextSingle == Single /\ [Next]_vars => Single'
<1>. SUFFICES ASSUME Single, [Next]_vars PROVE Single'
  OBVIOUS
<1>1. CASE Step
  BY <1>1, DecidingSingle, CreatingSingle, ReattachingSingle, ProvingSingle DEF Step
<1>2. CASE \/ \E o \in Slots : WatchEnds(o) \/ Executes(o) \/ Report(o)
           \/ Restart \/ NextSession
  BY <1>2, OthersSingle
<1>3. CASE UNCHANGED vars
  BY <1>3 DEF vars, Single, TypeOK, OneEntryEver, Ordered, Unplaced, Held, Placed
<1>. QED  BY <1>1, <1>2, <1>3 DEF Next

\* Orders, watches, the ledger row, the attempt and the histories keep their
\* types, whatever reads fail and whenever the process is restarted.
THEOREM TypeCorrect == Spec => []TypeOK
<1>1. Single => TypeOK
  BY DEF Single
<1>. QED  BY InitSingle, NextSingle, <1>1, PTL DEF Spec

\* A setup never gets a second ENTRY order: an attempt creates one only after
\* it has seen that there is none, and only attempts create any.
THEOREM EntryIsUnique == Spec => []OneEntryEver
<1>1. Single => OneEntryEver
  BY DEF Single
<1>. QED  BY InitSingle, NextSingle, <1>1, PTL DEF Spec

-----------------------------------------------------------------------------
(* Nobody forgets an order that waits.  The strengthening follows the order *)
(* at hand: while it is new the ledger row knows no mode, and from the     *)
(* steps of Answering on somebody answers for it.                          *)

Answered(o) == orders[o] = "PENDING_TRIGGER" => o \in watched \cup lost \cup suppressed
Answering == Proving \cup {"note", "suppress", "suppressed", "blinded"}
Finished == attempt.at = "idle" /\ verdict \in {"armed", "resolved", "rejected"}

ModeKnown == Placed = {} \/ attempt.at \in Creating => ~ledger.meta.mode
AtHand == attempt.at \in Answering => Answered(attempt.order)
CoverInv == Single /\ ModeKnown /\ AtHand /\ SettledIsCovered /\ DoneIsCovered

LEMMA AnsweringPlaces ==
    /\ Answering \subseteq Engaged
    /\ "idle" \notin Answering /\ "idle" \notin Creating
    /\ {"ledger", "active", "latest", "admit", "create"} \cap (Answering \cup Creating) = {}
    /\ {"ensure", "arm", "cleanup", "noteLeft"} \cap Answering = {}
    /\ {"reattach", "fenced", "rearm", "recheck", "blind"} \cap Answering = {}
    /\ Reattaching \cap Creating = {} /\ Proving \cap Creating = {}
BY DEF Answering, Engaged, Creating, Reattaching, Proving

\* There is one order, so answering for it is answering for all.
LEMMA OneAnswers ==
    ASSUME OneEntryEver, NEW o \in Placed, Answered(o)
    PROVE  Covered
<1>1. \A p \in Slots : orders[p] = "PENDING_TRIGGER" => p = o
  BY DEF OneEntryEver, Placed
<1>. QED  BY <1>1 DEF Answered, Covered

LEMMA InitCover == Init => CoverInv
<1>. SUFFICES ASSUME Init PROVE CoverInv
  OBVIOUS
<1>1. Single
  BY InitSingle
<1>2. ModeKnown /\ AtHand
  BY AnsweringPlaces DEF Init, ModeKnown, AtHand, Idle
<1>3. SettledIsCovered /\ DoneIsCovered
  BY DEF Init, SettledIsCovered, DoneIsCovered, Settles, ThisSession
<1>. QED  BY <1>1, <1>2, <1>3 DEF CoverInv

\* A step that leaves the orders and the ledger row alone.
LEMMA AttemptCover ==
    ASSUME CoverInv, Single', OnlyAttempt,
           attempt'.at \in Creating => ~ledger.meta.mode,
           attempt'.at \in Answering => Answered(attempt'.order),
           Finished' => Covered
    PROVE  CoverInv'
<1>1. UNCHANGED <<orders, watched, ledger, lost, suppressed>>
  BY DEF OnlyAttempt, Keeping
<1>2. ModeKnown'
  BY <1>1 DEF CoverInv, ModeKnown, Placed
<1>3. AtHand'
  BY <1>1 DEF AtHand, Answered
<1>4. Covered' <=> Covered
  BY <1>1 DEF Covered
<1>5. SettledIsCovered' /\ DoneIsCovered'
  BY <1>1, <1>4 DEF CoverInv, SettledIsCovered, DoneIsCovered, Finished, Settles, ThisSession
<1>. QED  BY <1>2, <1>3, <1>5 DEF CoverInv

\* A step that writes the ledger row and touches no order or watch.
LEMMA RecordCover ==
    ASSUME CoverInv, Single', UNCHANGED <<orders, watched, lost>>,
           suppressed \subseteq suppressed',
           Placed = {} \/ attempt'.at \in Creating => ~ledger'.meta.mode,
           AtHand',
           Settles(ledger') => Settles(ledger) \/ Covered',
           Finished' => Covered'
    PROVE  CoverInv'
<1>1. ModeKnown'
  BY DEF CoverInv, ModeKnown, Placed
<1>2. Covered => Covered'
  BY DEF Covered
<1>3. SettledIsCovered' /\ DoneIsCovered'
  BY <1>2 DEF CoverInv, SettledIsCovered, DoneIsCovered, Finished, Settles, ThisSession
<1>. QED  BY <1>1, <1>3 DEF CoverInv

LEMMA GoingCover ==
    ASSUME CoverInv, Single', NEW s \in Steps, To(s), UNCHANGED verdict, OnlyAttempt,
           s # "idle", s \in Creating => ~ledger.meta.mode,
           s \in Answering => Answered(attempt.order)
    PROVE  CoverInv'
<1>1. attempt'.at = s /\ attempt'.order = attempt.order
  BY Going DEF CoverInv, Single
<1>. QED  BY <1>1, AttemptCover DEF Finished

LEMMA EndingCover ==
    ASSUME CoverInv, Single', NEW v \in Verdicts, Conclude(v), OnlyAttempt,
           v \in {"armed", "resolved", "rejected"} => Covered
    PROVE  CoverInv'
<1>1. attempt'.at = "idle" /\ verdict' = v
  BY DEF Conclude, Idle
<1>. QED  BY <1>1, AttemptCover, AnsweringPlaces DEF Finished

LEMMA RetriedCover ==
    ASSUME CoverInv, Single', Retried
    PROVE  CoverInv'
BY EndingCover, VerdictMembers DEF Retried

LEMMA DisposedCover ==
    ASSUME CoverInv, Single', NEW o \in Placed, Disposed(o), OnlyAttempt
    PROVE  CoverInv'
<1>1. CASE orders[o] = "CREATED" /\ Conclude("retry")
  BY <1>1, EndingCover, VerdictMembers
<1>2. CASE orders[o] \in {"owned", "ended"} /\ Conclude("resolved")
  <2>1. Covered
    BY <1>2, OneAnswers DEF CoverInv, Single, Answered
  <2>. QED  BY <1>2, <2>1, EndingCover, VerdictMembers
<1>3. CASE attempt' = [attempt EXCEPT !.at = "reattach", !.order = o, !.again = TRUE]
  <2>1. attempt'.at = "reattach"
    BY <1>3 DEF CoverInv, Single, TypeOK, Attempt
  <2>. QED  BY <2>1, AttemptCover, AnsweringPlaces, StepPlaces DEF Finished
<1>. QED  BY <1>1, <1>2, <1>3 DEF Disposed

LEMMA DecidingCover ==
    ASSUME CoverInv, Single', Begin \/ ReadLedger \/ ReadActive \/ ReadLatest
    PROVE  CoverInv'
<1>0. TypeOK /\ OneEntryEver /\ SettledIsCovered
  BY DEF CoverInv, Single
<1>1. CASE Begin
  <2>1. attempt'.at = "ledger"
    BY <1>1 DEF Begin, Idle
  <2>. QED  BY <1>1, <2>1, AttemptCover, AnsweringPlaces DEF Begin, Finished
<1>2. CASE ReadLedger
  <2>1. CASE Retried
    BY <2>1, RetriedCover
  <2>2. CASE Settles(ledger) /\ Conclude("resolved") /\ OnlyAttempt
    BY <1>0, <2>2, EndingCover, VerdictMembers DEF SettledIsCovered
  <2>3. CASE /\ attempt' = [attempt EXCEPT !.at = "active",
                                          !.proof = ThisSession(ledger)]
             /\ UNCHANGED verdict /\ OnlyAttempt
    <3>1. attempt'.at = "active"
      BY <1>0, <2>3 DEF TypeOK, Attempt
    <3>. QED  BY <2>3, <3>1, AttemptCover, AnsweringPlaces DEF Finished
  <2>. QED  BY <1>2, <2>1, <2>2, <2>3 DEF ReadLedger
<1>3. CASE ReadActive
  <2>. DEFINE found == {o \in Slots : orders[o] \in Active}
  <2>1. CASE Retried
    BY <2>1, RetriedCover
  <2>2. CASE found # {} /\ Disposed(Newest(found)) /\ OnlyAttempt
    <3>1. found \subseteq Placed
      BY DEF Placed, Active
    <3>2. Newest(found) \in found
      BY <1>0, <2>2, <3>1, NewestIsMember, PlacedSubset DEF OneEntryEver
    <3>. QED  BY <2>2, <3>1, <3>2, DisposedCover
  <2>3. CASE To("latest") /\ UNCHANGED verdict /\ OnlyAttempt
    BY <2>3, GoingCover, AnsweringPlaces, StepPlaces, StepMembers
  <2>. QED  BY <1>3, <2>1, <2>2, <2>3 DEF ReadActive
<1>4. CASE ReadLatest
  <2>1. CASE Retried
    BY <2>1, RetriedCover
  <2>2. CASE Placed # {} /\ Disposed(Newest(Placed)) /\ OnlyAttempt
    <3>1. Newest(Placed) \in Placed
      BY <1>0, <2>2, NewestIsMember, PlacedSubset DEF OneEntryEver
    <3>. QED  BY <2>2, <3>1, DisposedCover
  <2>3. CASE To("admit") /\ UNCHANGED verdict /\ OnlyAttempt
    BY <2>3, GoingCover, AnsweringPlaces, StepPlaces, StepMembers
  <2>. QED  BY <1>4, <2>1, <2>2, <2>3 DEF ReadLatest, Unreadable
<1>. QED  BY <1>1, <1>2, <1>3, <1>4

LEMMA NoModeNoSettling ==
    ASSUME NEW row, ~row.meta.mode
    PROVE  ~Settles(row)
BY DEF Settles, ThisSession

LEMMA CreatingCover ==
    ASSUME CoverInv, Single', Admit \/ Create \/ EnsurePending \/ Arm \/ Cleanup \/ NoteFailure
    PROVE  CoverInv'
<1>0. TypeOK /\ OneEntryEver /\ Ordered /\ Unplaced /\ ModeKnown
  BY DEF CoverInv, Single
<1>1. CASE Admit
  <2>1. Placed = {}
    BY <1>0, <1>1, StepPlaces DEF Unplaced, Admit
  <2>2. Covered
    BY <2>1 DEF Covered, Placed
  <2>3. CASE \E v \in Verdicts : Conclude(v) /\ OnlyAttempt
    BY <2>2, <2>3, EndingCover
  <2>4. CASE To("create") /\ UNCHANGED verdict /\ OnlyAttempt
    BY <2>4, GoingCover, AnsweringPlaces, StepPlaces, StepMembers
  <2>. QED  BY <1>1, <2>3, <2>4, VerdictMembers DEF Admit
<1>2. CASE Create
  <2>1. ~ledger.meta.mode /\ UNCHANGED ledger
    BY <1>0, <1>2, StepPlaces DEF Unplaced, ModeKnown, Create
  <2>2. attempt'.at \in {"idle", "ensure"} /\ ~Finished'
    <3>1. CASE Conclude("error")
      BY <3>1 DEF Conclude, Idle, Finished
    <3>2. CASE \E o \in Slots : ToOrder("ensure", o)
      BY <1>0, <3>2 DEF TypeOK, ToOrder, Attempt, Finished
    <3>. QED  BY <1>2, <3>1, <3>2 DEF Create
  <2>3. ModeKnown' /\ AtHand'
    BY <2>1, <2>2, AnsweringPlaces DEF ModeKnown, AtHand
  <2>4. SettledIsCovered' /\ DoneIsCovered'
    BY <2>1, <2>2, NoModeNoSettling DEF SettledIsCovered, DoneIsCovered, Finished
  <2>. QED  BY <2>3, <2>4 DEF CoverInv
<1>3. CASE EnsurePending
  <2>1. ~ledger.meta.mode
    BY <1>0, <1>3, StepPlaces DEF EnsurePending, ModeKnown
  <2>2. CASE To("arm") /\ UNCHANGED verdict /\ OnlyAttempt
    BY <2>1, <2>2, GoingCover, AnsweringPlaces, StepPlaces, StepMembers
  <2>3. CASE Conclude("error") /\ OnlyAttempt
    BY <2>3, EndingCover, VerdictMembers
  <2>. QED  BY <1>3, <2>2, <2>3 DEF EnsurePending
<1>4. CASE Arm
  <2>1. ~ledger.meta.mode /\ UNCHANGED ledger
    BY <1>0, <1>4, StepPlaces DEF Arm, ModeKnown
  <2>2. CASE /\ watched' = watched \cup {attempt.order}
             /\ To("prove") /\ UNCHANGED <<orders, verdict>>
    <3>1. attempt'.at = "prove" /\ attempt'.order = attempt.order
      BY <1>0, <2>2, Going, StepPlaces, StepMembers
    <3>2. AtHand'
      BY <2>2, <3>1 DEF AtHand, Answered
    <3>3. ModeKnown'
      BY <2>1 DEF ModeKnown
    <3>4. SettledIsCovered' /\ DoneIsCovered'
      BY <2>1, <3>1, NoModeNoSettling DEF SettledIsCovered, DoneIsCovered
    <3>. QED  BY <3>2, <3>3, <3>4 DEF CoverInv
  <2>3. CASE To("cleanup") /\ UNCHANGED verdict
    <3>1. attempt'.at = "cleanup"
      BY <1>0, <2>3, Going, StepPlaces, StepMembers
    <3>2. AtHand' /\ ModeKnown'
      BY <2>1, <3>1, AnsweringPlaces DEF AtHand, ModeKnown
    <3>3. SettledIsCovered' /\ DoneIsCovered'
      BY <2>1, <3>1, NoModeNoSettling DEF SettledIsCovered, DoneIsCovered
    <3>. QED  BY <3>2, <3>3 DEF CoverInv
  <2>. QED  BY <1>4, <2>2, <2>3 DEF Arm
<1>5. CASE Cleanup
  <2>1. ~ledger.meta.mode /\ UNCHANGED <<ledger, verdict>>
    BY <1>0, <1>5, StepPlaces DEF Cleanup, ModeKnown
  <2>2. attempt.order \in Slots
    BY <1>0, <1>5, StepPlaces, PlacedSubset DEF Cleanup, Ordered, Engaged
  <2>3. ModeKnown'
    BY <2>1 DEF ModeKnown
  <2>4. CASE orders' = [orders EXCEPT ![attempt.order] = "ended"] /\ To("note")
    <3>1. attempt'.at = "note" /\ attempt'.order = attempt.order
      BY <1>0, <2>1, <2>4, Going, StepPlaces, StepMembers
    <3>2. AtHand'
      BY <1>0, <2>2, <2>4, <3>1 DEF AtHand, Answered, TypeOK
    <3>3. SettledIsCovered' /\ DoneIsCovered'
      BY <2>1, <3>1, NoModeNoSettling DEF SettledIsCovered, DoneIsCovered
    <3>. QED  BY <2>3, <3>2, <3>3 DEF CoverInv
  <2>5. CASE To("noteLeft")
    <3>1. attempt'.at = "noteLeft"
      BY <1>0, <2>1, <2>5, Going, StepPlaces, StepMembers
    <3>2. AtHand'
      BY <3>1, AnsweringPlaces DEF AtHand
    <3>3. SettledIsCovered' /\ DoneIsCovered'
      BY <2>1, <3>1, NoModeNoSettling DEF SettledIsCovered, DoneIsCovered
    <3>. QED  BY <2>3, <3>2, <3>3 DEF CoverInv
  <2>. QED  BY <1>5, <2>4, <2>5 DEF Cleanup
<1>6. CASE NoteFailure
  <2>1. ~ledger.meta.mode /\ ledger \in Ledger /\ UNCHANGED <<orders, watched, lost, suppressed>>
    BY <1>0, <1>6, StepPlaces DEF NoteFailure, ModeKnown, OnlyLedger, TypeOK
  <2>2. ~ledger'.meta.mode
    <3>1. CASE ledger' \in {ledger, Ensured(ledger)}
      BY <2>1, <3>1, EnsuredRow
    <3>2. ASSUME NEW status \in {"MISSED", "terminal"},
                 ledger' \in Updated(Ensured(ledger), status,
                                     {NotePatch(m) : m \in Readable})
          PROVE  ~ledger'.meta.mode
      <4>1. \A m \in Readable : ~m.mode
        BY <2>1 DEF Readable, NoMeta
      <4>2. \A m \in Readable : ~NotePatch(m).mode
        BY <4>1 DEF NotePatch, SessionOnly
      <4>3. ledger'.meta \in {NotePatch(m) : m \in Readable}
        BY <2>1, <3>2, EnsuredRow, UpdatedRow, ReadableMetas, StatusMembers
      <4>. QED  BY <4>2, <4>3
    <3>. QED  BY <1>6, <3>1, <3>2 DEF NoteFailure
  <2>3. attempt' = Idle /\ (Finished' => attempt.at = "note")
    BY <1>6 DEF NoteFailure, Conclude, Finished
  <2>4. Finished' => Covered
    <3>1. ASSUME attempt.at = "note" PROVE Covered
      <4>1. attempt.at \in Answering /\ attempt.at \in Engaged
        BY <3>1, AnsweringPlaces DEF Answering
      <4>. QED  BY <1>0, <4>1, OneAnswers DEF CoverInv, AtHand, Ordered
    <3>. QED  BY <2>3, <3>1
  <2>5. AtHand'
    BY <2>3, AnsweringPlaces DEF AtHand, Idle
  <2>6. Covered' <=> Covered
    BY <2>1 DEF Covered
  <2>. QED  BY <2>1, <2>2, <2>4, <2>5, <2>6, NoModeNoSettling, RecordCover
<1>. QED  BY <1>1, <1>2, <1>3, <1>4, <1>5, <1>6

LEMMA ReattachingCover ==
    ASSUME CoverInv, Single',
           \/ Reattach \/ ReadFence \/ Rearm \/ Recheck \/ Suppress
           \/ ReadSuppression
    PROVE  CoverInv'
<1>0. TypeOK /\ OneEntryEver /\ Ordered /\ ModeKnown /\ AtHand
  BY DEF CoverInv, Single
<1>1. attempt.at \in Reattaching /\ attempt.order \in Placed /\ attempt.order \in Slots
  BY <1>0, StepPlaces, PlacedSubset DEF Ordered, Engaged, Reattach, ReadFence,
     Rearm, Recheck, Suppress, ReadSuppression
<1>2. ledger \in Ledger /\ Ensured(ledger) \in Ledger
  BY <1>0, EnsuredRow DEF TypeOK
<1>3. attempt.at \in Answering => Covered
  BY <1>0, <1>1, OneAnswers DEF AtHand
<1>4. ASSUME ledger' = Ensured(ledger), Conclude("retry"), OnlyLedger,
             suppressed \subseteq suppressed'
      PROVE  CoverInv'
  <2>1. attempt'.at = "idle" /\ ~Finished'
    BY <1>4 DEF Conclude, Idle, Finished
  <2>2. AtHand'
    BY <2>1, AnsweringPlaces DEF AtHand
  <2>. QED  BY <1>1, <1>2, <1>4, <2>1, <2>2, EnsuredRow, RecordCover, AnsweringPlaces
            DEF OnlyLedger
<1>5. CASE Reattach
  <2>1. CASE Retried
    BY <2>1, RetriedCover
  <2>2. CASE /\ attempt.order \in watched
             /\ To("prove") /\ UNCHANGED verdict /\ OnlyAttempt
    <3>1. Answered(attempt.order)
      BY <2>2 DEF Answered
    <3>. QED  BY <2>2, <3>1, GoingCover, AnsweringPlaces, StepPlaces, StepMembers
  <2>3. ASSUME ledger' \in Updated(Ensured(ledger), "progress",
                                   {Fencing(m) : m \in Readable}),
               To("fenced"), UNCHANGED verdict, OnlyLedger, UNCHANGED suppressed
        PROVE  CoverInv'
    <3>1. ledger'.meta \in {Fencing(m) : m \in Readable}
      BY <1>2, <2>3, EnsuredRow, UpdatedRow, ReadableMetas, StatusMembers
    <3>2. ~Settles(ledger')
      BY <3>1 DEF Settles, Fencing
    <3>3. attempt'.at = "fenced"
      BY <1>0, <2>3, Going, StepPlaces, StepMembers
    <3>4. AtHand' /\ ~Finished' /\ attempt'.at \notin Creating
      BY <3>3, AnsweringPlaces, StepPlaces DEF AtHand, Finished
    <3>. QED  BY <1>1, <2>3, <3>2, <3>4, RecordCover DEF OnlyLedger
  <2>4. CASE /\ ledger' = Ensured(ledger) /\ Conclude("retry")
             /\ OnlyLedger /\ UNCHANGED suppressed
    BY <1>4, <2>4
  <2>. QED  BY <1>5, <2>1, <2>2, <2>3, <2>4 DEF Reattach
<1>6. CASE ReadFence
  <2>1. CASE Retried
    BY <2>1, RetriedCover
  <2>2. CASE To("rearm") /\ UNCHANGED verdict /\ OnlyAttempt
    BY <2>2, GoingCover, AnsweringPlaces, StepPlaces, StepMembers
  <2>. QED  BY <1>6, <2>1, <2>2 DEF ReadFence
<1>7. CASE Rearm
  <2>1. UNCHANGED <<ledger, lost, suppressed>>
    BY <1>7 DEF Rearm, Keeping
  <2>2. /\ watched \subseteq watched'
        /\ \A o \in Slots : orders'[o] = "PENDING_TRIGGER" => orders[o] = "PENDING_TRIGGER"
    BY <1>0, <1>1, <1>7 DEF Rearm, TypeOK
  <2>3. Covered => Covered'
    BY <2>1, <2>2 DEF Covered
  <2>4. SettledIsCovered'
    BY <2>1, <2>3 DEF CoverInv, SettledIsCovered, Settles, ThisSession
  <2>5. Placed' = Placed
    BY <1>0, <1>1, <1>7, OrderMembers DEF Rearm, TypeOK, Placed
  <2>6. CASE watched' = watched \cup {attempt.order} /\ To("prove") /\ UNCHANGED verdict
    <3>1. attempt'.at = "prove" /\ attempt'.order = attempt.order
      BY <1>0, <2>6, Going, StepPlaces, StepMembers
    <3>2. AtHand'
      BY <2>6, <3>1 DEF AtHand, Answered
    <3>3. ModeKnown' /\ DoneIsCovered'
      BY <1>0, <1>1, <2>1, <2>5, <3>1, AnsweringPlaces, StepPlaces
         DEF ModeKnown, DoneIsCovered
    <3>. QED  BY <2>4, <3>2, <3>3 DEF CoverInv
  <2>7. CASE \/ To("recheck") /\ UNCHANGED verdict
             \/ Conclude("retry")
    <3>1. attempt'.at \in {"recheck", "idle"} /\ ~Finished'
      BY <1>0, <2>7, Going, StepPlaces, StepMembers DEF Conclude, Idle, Finished
    <3>2. AtHand'
      BY <3>1, AnsweringPlaces DEF AtHand
    <3>3. ModeKnown' /\ DoneIsCovered'
      BY <1>0, <1>1, <2>1, <2>5, <3>1, AnsweringPlaces, StepPlaces
         DEF ModeKnown, DoneIsCovered, Finished
    <3>. QED  BY <2>4, <3>2, <3>3 DEF CoverInv
  <2>. QED  BY <1>7, <2>6, <2>7 DEF Rearm
<1>8. CASE Recheck
  <2>1. CASE To("blind") /\ UNCHANGED verdict /\ OnlyAttempt
    BY <2>1, GoingCover, AnsweringPlaces, StepPlaces, StepMembers
  <2>2. CASE Conclude("retry") /\ OnlyAttempt
    BY <2>2, EndingCover, VerdictMembers
  <2>3. CASE orders[attempt.order] = "owned" /\ Conclude("resolved") /\ OnlyAttempt
    <3>1. Covered
      BY <1>0, <1>1, <2>3, OneAnswers DEF Answered
    <3>. QED  BY <2>3, <3>1, EndingCover, VerdictMembers
  <2>4. CASE /\ orders[attempt.order] = "ended"
             /\ To("suppress") /\ UNCHANGED verdict /\ OnlyAttempt
    <3>1. Answered(attempt.order)
      BY <2>4 DEF Answered
    <3>. QED  BY <2>4, <3>1, GoingCover, AnsweringPlaces, StepPlaces, StepMembers
  <2>. QED  BY <1>8, <2>1, <2>2, <2>3, <2>4 DEF Recheck
<1>9. CASE Suppress
  <2>1. /\ OnlyLedger /\ UNCHANGED <<orders, watched, lost>>
        /\ suppressed \subseteq suppressed'
    BY <1>9 DEF Suppress, OnlyLedger
  <2>2. CASE /\ To(IF attempt.at = "blind" THEN "blinded" ELSE "suppressed")
             /\ UNCHANGED verdict
             /\ suppressed' = IF attempt.at = "blind"
                              THEN suppressed \cup {attempt.order} ELSE suppressed
    <3>1. /\ attempt'.at \in {"blinded", "suppressed"}
          /\ attempt'.order = attempt.order
      BY <1>0, <2>2, Going, StepPlaces, StepMembers
    <3>2. Answered(attempt.order)'
      <4>1. CASE attempt.at = "blind"
        BY <2>2, <3>1, <4>1 DEF Answered
      <4>2. CASE attempt.at = "suppress"
        BY <1>0, <2>1, <3>1, <4>2 DEF AtHand, Answered, Answering
      <4>. QED  BY <1>9, <4>1, <4>2 DEF Suppress
    <3>3. Covered'
      <4>1. OneEntryEver' /\ attempt'.order \in Placed'
        BY <1>1, <2>1, <3>1 DEF Single, Placed
      <4>2. \A p \in Slots : orders'[p] = "PENDING_TRIGGER" => p = attempt'.order
        BY <4>1 DEF OneEntryEver, Placed
      <4>. QED  BY <3>2, <4>2 DEF Answered, Covered
    <3>4. AtHand' /\ ~Finished' /\ attempt'.at \notin Creating
      BY <3>1, <3>2, AnsweringPlaces, StepPlaces DEF AtHand, Finished
    <3>. QED  BY <1>1, <2>1, <3>3, <3>4, RecordCover
  <2>3. CASE ledger' = Ensured(ledger) /\ Conclude("retry")
    BY <1>4, <2>1, <2>3
  <2>. QED  BY <1>9, <2>2, <2>3 DEF Suppress
<1>10. CASE ReadSuppression
  <2>1. CASE Retried
    BY <2>1, RetriedCover
  <2>2. CASE Conclude("resolved") /\ OnlyAttempt
    BY <1>3, <1>10, <2>2, EndingCover, VerdictMembers DEF ReadSuppression, Answering
  <2>. QED  BY <1>10, <2>1, <2>2 DEF ReadSuppression
<1>. QED  BY <1>5, <1>6, <1>7, <1>8, <1>9, <1>10

LEMMA ProvingCover ==
    ASSUME CoverInv, Single', Prove \/ ReadProof \/ Clear \/ ReadCleared
    PROVE  CoverInv'
<1>0. TypeOK /\ OneEntryEver /\ Ordered /\ AtHand
  BY DEF CoverInv, Single
<1>1. attempt.at \in Proving /\ attempt.order \in Placed
  BY <1>0, StepPlaces DEF Ordered, Engaged, Prove, ReadProof, Clear, ReadCleared, ProofStep
<1>2. Covered /\ Answered(attempt.order)
  BY <1>0, <1>1, OneAnswers DEF AtHand, Answering
<1>3. ASSUME NEW to \in Proving, OnlyLedger, UNCHANGED suppressed,
             \/ To(to) /\ UNCHANGED verdict
             \/ Conclude("retry")
      PROVE  CoverInv'
  <2>1. UNCHANGED <<orders, watched, lost, suppressed>>
    BY <1>3 DEF OnlyLedger
  <2>2. \/ attempt'.at = "idle"
        \/ attempt'.at = to /\ attempt'.order = attempt.order
    BY <1>0, <1>3, Going, StepMembers DEF Conclude, Idle
  <2>3. ~(Finished')
    BY <1>0, <1>3, <2>2, Going, StepPlaces, StepMembers DEF Conclude, Finished
  <2>4. AtHand' /\ attempt'.at \notin Creating
    BY <1>2, <2>1, <2>2, AnsweringPlaces DEF AtHand, Answered
  <2>5. Covered'
    BY <1>2, <2>1 DEF Covered
  <2>. QED  BY <1>1, <2>1, <2>3, <2>4, <2>5, RecordCover
<1>4. CASE Prove
  BY <1>3, <1>4, StepPlaces DEF Prove, ProofStep
<1>5. CASE Clear
  BY <1>3, <1>5, StepPlaces DEF Clear, ProofStep
<1>6. CASE ReadProof
  <2>1. CASE Retried
    BY <2>1, RetriedCover
  <2>2. CASE To("clear") /\ UNCHANGED verdict /\ OnlyAttempt
    BY <1>2, <2>2, GoingCover, AnsweringPlaces, StepPlaces, StepMembers
  <2>3. CASE Conclude("armed") /\ OnlyAttempt
    BY <1>2, <2>3, EndingCover, VerdictMembers
  <2>. QED  BY <1>6, <2>1, <2>2, <2>3 DEF ReadProof
<1>7. CASE ReadCleared
  <2>1. CASE Retried
    BY <2>1, RetriedCover
  <2>2. CASE Conclude("armed") /\ OnlyAttempt
    BY <1>2, <2>2, EndingCover, VerdictMembers
  <2>. QED  BY <1>7, <2>1, <2>2 DEF ReadCleared
<1>. QED  BY <1>4, <1>5, <1>6, <1>7

LEMMA OthersCover ==
    ASSUME CoverInv, Single',
           \/ \E o \in Slots : WatchEnds(o) \/ Executes(o) \/ Report(o)
           \/ Restart \/ NextSession
    PROVE  CoverInv'
<1>0. TypeOK /\ OneEntryEver /\ ModeKnown /\ AtHand
  BY DEF CoverInv, Single
<1>1. ASSUME NEW o \in Slots, NEW s \in {"owned", "ended"}, orders[o] # "none",
             orders' = [orders EXCEPT ![o] = s], watched \ {o} \subseteq watched',
             UNCHANGED <<ledger, attempt, verdict, lost, suppressed>>
      PROVE  CoverInv'
  <2>1. Placed' = Placed
    BY <1>0, <1>1 DEF TypeOK, Placed
  <2>2. \A p \in Slots : Answered(p) => (orders'[p] = "PENDING_TRIGGER"
              => p \in watched' \cup lost' \cup suppressed')
    BY <1>0, <1>1 DEF TypeOK, Answered
  <2>3. Covered => Covered'
    BY <2>2 DEF Covered, Answered
  <2>4. SettledIsCovered' /\ DoneIsCovered'
    BY <1>1, <2>3 DEF CoverInv, SettledIsCovered, DoneIsCovered, Settles, ThisSession
  <2>5. ModeKnown'
    BY <1>0, <1>1, <2>1 DEF ModeKnown
  <2>6. AtHand'
    <3>1. attempt.at \in Answering => attempt.order \in Slots
      BY AnsweringPlaces, PlacedSubset DEF CoverInv, Single, Ordered
    <3>. QED  BY <1>0, <1>1, <2>2, <3>1 DEF AtHand, Answered
  <2>. QED  BY <2>4, <2>5, <2>6 DEF CoverInv
<1>2. ASSUME NEW o \in Slots, WatchEnds(o)
      PROVE  CoverInv'
  <2>1. orders[o] # "none"
    BY <1>2 DEF CoverInv, Single, Held, Placed, WatchEnds
  <2>. QED  BY <1>1, <1>2, <2>1 DEF WatchEnds, Keeping
<1>3. ASSUME NEW o \in Slots, Executes(o)
      PROVE  CoverInv'
  BY <1>1, <1>3 DEF Executes, Keeping
<1>4. ASSUME NEW o \in Slots, Report(o)
      PROVE  CoverInv'
  <2>1. UNCHANGED <<orders, watched, attempt, verdict, lost, suppressed>>
    BY <1>4 DEF Report, Keeping
  <2>2. o \in Placed /\ Answered(o)
    BY <1>4 DEF Report, Placed, Answered
  <2>3. Covered /\ Covered'
    BY <1>0, <2>1, <2>2, OneAnswers DEF Covered
  <2>4. ledger'.meta \in {ledger.meta, NoMeta}
    <3>1. PICK status \in {"BROKER_SUBMITTED", "FILLED", "terminal"} :
             ledger' \in Updated(ledger, status, Readable)
      BY <1>4 DEF Report
    <3>2. ledger'.meta \in Readable \/ ledger' = ledger
      BY <1>0, <3>1, UpdatedRow, ReadableMetas, StatusMembers DEF TypeOK
    <3>. QED  BY <3>2 DEF Readable
  <2>5. ModeKnown'
    BY <1>0, <2>1, <2>4 DEF ModeKnown, NoMeta, Placed
  <2>6. AtHand'
    BY <1>0, <2>1 DEF AtHand, Answered
  <2>. QED  BY <2>3, <2>5, <2>6 DEF CoverInv, SettledIsCovered, DoneIsCovered
<1>5. CASE Restart
  <2>1. PICK armed \in SUBSET {o \in Slots : orders[o] = "PENDING_TRIGGER"},
             ended \in SUBSET {o \in Slots : orders[o] = "PENDING_TRIGGER"} :
          /\ watched' = armed \ ended
          /\ orders' = [o \in Slots |-> IF o \in ended THEN "ended" ELSE orders[o]]
          /\ lost' = lost \cup {o \in Slots : /\ orders[o] = "PENDING_TRIGGER"
                                              /\ o \notin armed \cup ended}
    BY <1>5 DEF Restart
  <2>2. Covered'
    BY <2>1 DEF Covered
  <2>3. UNCHANGED ledger /\ attempt'.at = "idle"
    BY <1>5 DEF Restart, Idle
  <2>4. Placed' = Placed
    BY <2>1 DEF Placed
  <2>5. ModeKnown' /\ AtHand'
    BY <1>0, <2>3, <2>4, AnsweringPlaces DEF ModeKnown, AtHand
  <2>. QED  BY <2>2, <2>5 DEF CoverInv, SettledIsCovered, DoneIsCovered
<1>6. CASE NextSession
  <2>1. ledger'.meta.session = "earlier" /\ ledger'.meta.mode = ledger.meta.mode
    <3>1. ledger' = [ledger EXCEPT !.meta = [mode |-> ledger.meta.mode,
                      session |-> "earlier", reattach |-> ledger.meta.reattach]]
      BY <1>6 DEF NextSession
    <3>. QED  BY <1>0, <3>1 DEF TypeOK, Ledger
  <2>2. UNCHANGED <<orders, watched, attempt>> /\ attempt.at = "idle" /\ verdict' = "none"
    BY <1>6 DEF NextSession
  <2>3. ModeKnown' /\ AtHand'
    BY <1>0, <2>1, <2>2, AnsweringPlaces DEF ModeKnown, AtHand, Placed
  <2>4. SettledIsCovered' /\ DoneIsCovered'
    BY <2>1, <2>2 DEF SettledIsCovered, DoneIsCovered, Settles, ThisSession
  <2>. QED  BY <2>3, <2>4 DEF CoverInv
<1>. QED  BY <1>2, <1>3, <1>4, <1>5, <1>6

LEMMA NextCover == CoverInv /\ [Next]_vars => CoverInv'
<1>. SUFFICES ASSUME CoverInv, [Next]_vars PROVE CoverInv'
  OBVIOUS
<1>1. Single'
  BY NextSingle DEF CoverInv
<1>2. CASE Step
  BY <1>1, <1>2, DecidingCover, CreatingCover, ReattachingCover, ProvingCover DEF Step
<1>3. CASE \/ \E o \in Slots : WatchEnds(o) \/ Executes(o) \/ Report(o)
           \/ Restart \/ NextSession
  BY <1>1, <1>3, OthersCover
<1>4. CASE UNCHANGED vars
  <2>1. UNCHANGED <<orders, watched, ledger, attempt, verdict, lost, suppressed>>
    BY <1>4 DEF vars
  <2>. QED  BY <1>1, <2>1 DEF CoverInv, ModeKnown, AtHand, Answered, Placed, Covered,
               SettledIsCovered, DoneIsCovered, Settles, ThisSession
<1>. QED  BY <1>2, <1>3, <1>4 DEF Next

\* The ledger never settles the setup over an order that waits unwatched: the
\* fence empties the row before watch() is called, and no row of a setup
\* without orders knows a mode it could be matched by.
THEOREM SettledRowsAreCovered == Spec => []SettledIsCovered
<1>1. CoverInv => SettledIsCovered
  BY DEF CoverInv
<1>. QED  BY InitCover, NextCover, <1>1, PTL DEF Spec

\* An attempt counted as armed, resolved or rejected leaves no order that
\* waits unwatched, but for what a restart or an ambiguity marker left.
THEOREM DoneAttemptsAreCovered == Spec => []DoneIsCovered
<1>1. CoverInv => DoneIsCovered
  BY DEF CoverInv
<1>. QED  BY InitCover, NextCover, <1>1, PTL DEF Spec

=============================================================================
