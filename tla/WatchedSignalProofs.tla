------------------------ MODULE WatchedSignalProofs ------------------------
(***************************************************************************)
(* Proofs about WatchedSignal: its properties hold for every ladder of     *)
(* prices, every set of setups and every gap.                              *)
(***************************************************************************)
EXTENDS WatchedSignal, TLAPS

-----------------------------------------------------------------------------
(* The helpers stay within their types. *)

LEMMA Members ==
    /\ 0 \in Count /\ 0 \in Since /\ Unset \in Since
    /\ States = {"PENDING", "TRIGGERED", "EXPIRED", "INVALIDATED", "HANDED",
                 "QUARANTINED"}
    /\ Gates = {"open", "awaiting", "within", "waiting"}
BY BoundsAssumption DEF Count, Since, Ages, Unset, PollsRequired, States, Gates

LEMMA BumpType == \A n \in Count : Bump(n) \in Count /\ Bump(n) > 0
BY DEF Bump, Count, PollsRequired

LEMMA AgedType == \A age \in Since, dt \in Ages : Aged(age, dt) \in Since
BY BoundsAssumption DEF Aged, Since, Ages, Unset

LEMMA WatchFields ==
    ASSUME NEW w \in Watch
    PROVE  /\ w.state \in States /\ w.attempts \in Count
           /\ w.crossed \in BOOLEAN /\ w.breaches \in Count
           /\ w.age \in Since /\ w.gate \in Gates
           /\ w.confirms \in Count /\ w.resets \in Count
BY DEF Watch

LEMMA KeptType ==
    ASSUME NEW w \in Watch, NEW q \in Quote PROVE Kept(w, q) \in Watch
<1>1. [w EXCEPT !.age = Unset] \in Watch
  BY Members DEF Watch
<1>2. NoStreak(w) \in Watch
  BY Members DEF NoStreak, Watch
<1> QED
  BY <1>1, <1>2, Zenon DEF Kept

LEMMA GatedType ==
    ASSUME NEW w \in Watch, NEW q \in Quote
    PROVE  Gated(w, q).watch \in Watch /\ Gated(w, q).held \in BOOLEAN
<1> DEFINE n == Bump(w.confirms)
           m == Bump(w.resets)
           Result == [watch : Watch, held : BOOLEAN]
<1>1. n \in Count /\ m \in Count
  BY BumpType, WatchFields
<1>2. \A v \in Watch, b \in BOOLEAN : [watch |-> v, held |-> b] \in Result
  OBVIOUS
<1> HIDE DEF n, m, Result
<1>3. [w EXCEPT !.state = "INVALIDATED", !.breaches = 0] \in Watch
  BY Members DEF Watch
<1>4. /\ [w EXCEPT !.gate = "within", !.confirms = 0] \in Watch
      /\ [w EXCEPT !.gate = "waiting", !.resets = 0] \in Watch
      /\ [w EXCEPT !.gate = "open"] \in Watch
  BY Members DEF Watch
<1>5. /\ [w EXCEPT !.gate = "open", !.confirms = n] \in Watch
      /\ [w EXCEPT !.confirms = n] \in Watch
      /\ [w EXCEPT !.gate = "waiting", !.confirms = 0, !.resets = 0] \in Watch
  BY <1>1, Members DEF Watch
<1>6. /\ [w EXCEPT !.gate = "open", !.resets = 0, !.breaches = 0] \in Watch
      /\ [w EXCEPT !.resets = m] \in Watch
      /\ [w EXCEPT !.resets = 0] \in Watch
  BY <1>1, Members DEF Watch
<1>7. Gated(w, q) \in Result
  BY <1>2, <1>3, <1>4, <1>5, <1>6, Zenon DEF Gated, n, m
<1> QED
  BY <1>7 DEF Result

LEMMA BreachedType ==
    ASSUME NEW w \in Watch, NEW q \in Quote PROVE Breached(w, q) \in Watch
<1> DEFINE n == Bump(IF Stale(w) THEN 0 ELSE w.breaches)
           confirmed == n = PollsRequired
           crossed == w.crossed \/ confirmed
           state == IF confirmed THEN "TRIGGERED" ELSE w.state
<1>1. n \in Count
  BY BumpType, WatchFields, Members
<1>2. crossed \in BOOLEAN /\ state \in States
  BY WatchFields, Members
<1>3. NoStreak(w) \in Watch
  BY Members DEF NoStreak, Watch
<1> HIDE DEF n, crossed, state
<1>4. [w EXCEPT !.breaches = n, !.age = 0, !.crossed = crossed,
                !.state = state] \in Watch
  BY <1>1, <1>2, Members DEF Watch
<1> QED
  BY <1>3, <1>4, Zenon DEF Breached, n, crossed, state

LEMMA StoppedType ==
    ASSUME NEW w \in Watch, NEW q \in Quote
    PROVE  Stopped(w, q) \in Watch /\ Withheld(w, q) \in Watch
<1>1. [w EXCEPT !.state = "INVALIDATED", !.breaches = 0] \in Watch
  BY Members DEF Watch
<1>2. [w EXCEPT !.state = "PENDING"] \in Watch
  BY Members DEF Watch
<1> QED
  BY <1>1, <1>2, Zenon DEF Stopped, Withheld

LEMMA CheckedType ==
    ASSUME NEW w \in Watch, NEW q \in Quote, NEW clock \in Clocks
    PROVE  Checked(w, q, clock) \in Watch
<1>1. [w EXCEPT !.state = "EXPIRED"] \in Watch
  BY Members DEF Watch
<1>2. Gated(Kept(w, q), q).watch \in Watch
  BY KeptType, GatedType
<1>3. Withheld(Stopped(Breached(Gated(Kept(w, q), q).watch, q), q), q) \in Watch
  BY <1>2, BreachedType, StoppedType
<1> QED
  BY <1>1, <1>2, <1>3 DEF Checked

\* INIT and the actions, for the type invariant.
LEMMA TypeInit == Init => TypeOK
<1> SUFFICES ASSUME Init PROVE TypeOK
  OBVIOUS
<1>1. watch \in Watch
  BY Members DEF Init, Watch
<1>2. past \in Past
  <2> DEFINE Late(gate) == CASE gate = "open" -> "no"
                             [] gate = "awaiting" -> "unseen"
                             [] gate = "within" -> "near"
                             [] gate = "waiting" -> "far"
  <2>1. \A gate \in Gates : Late(gate) \in {"no", "unseen", "near", "far"}
    BY DEF Gates
  <2> HIDE DEF Late
  <2>2. \A gate \in Gates : [run |-> 0, since |-> Unset, reset |-> 0,
                            late |-> Late(gate)] \in Past
    BY <2>1, Members DEF Past
  <2> QED
    BY <2>2, Zenon DEF Init, Late
<1>3. quote \in Quote
  BY BoundsAssumption DEF Init, Quote, Optional
<1> QED
  BY <1>1, <1>2, <1>3 DEF Init, TypeOK

LEMMA SaneType == \A q \in Quote : Sane(q) \in Quote
BY BoundsAssumption DEF Sane, Quote, Optional

LEMMA ObservedType ==
    ASSUME NEW p \in Past, NEW q \in Quote, NEW dt \in Ages
    PROVE  Observed(p, q, dt) \in Past
<1> DEFINE since == Aged(p.since, dt)
           run == IF Reached(q) THEN (IF Fresh(since) THEN Bump(p.run) ELSE 1)
                  ELSE 0
           blind == watch.crossed /\ StopUnknown(q)
           back == IF Reaches(setup.reset, TriggerSide(q)) THEN Bump(p.reset)
                   ELSE 0
           reset == IF blind \/ p.reset = PollsRequired THEN p.reset ELSE back
           seen == IF Reaches(setup.zone, TriggerSide(q)) THEN "near" ELSE "far"
           late == IF blind \/ p.late # "unseen" THEN p.late ELSE seen
           when == IF Reached(q) THEN 0 ELSE Unset
<1>1. since \in Since /\ when \in Since
  BY AgedType, Members DEF Past
<1>2. run \in Count /\ back \in Count
  BY BumpType, Members DEF Past, Count, PollsRequired
<1>3. reset \in Count /\ late \in {"no", "unseen", "near", "far"}
  BY <1>2 DEF Past
<1> HIDE DEF run, reset, late, when
<1>4. [p EXCEPT !.since = since] \in Past
  <2> HIDE DEF since
  <2> QED BY <1>1 DEF Past
<1>5. [run |-> run, since |-> when, reset |-> reset, late |-> late] \in Past
  BY <1>1, <1>2, <1>3 DEF Past
<1> QED
  BY <1>4, <1>5, Zenon DEF Observed, run, reset, late, when

\* A step leaves the setup alone, and what else it does to the variables.
LEMMA TypeStep == TypeOK /\ [Next]_vars => TypeOK'
<1> SUFFICES ASSUME TypeOK, [Next]_vars PROVE TypeOK'
  OBVIOUS
<1> USE DEF TypeOK
<1>1. ASSUME NEW dt \in Ages, NEW clock \in Clocks, Poll(dt, clock)
      PROVE  TypeOK'
  <2>1. setup' = setup /\ quote' \in Quote
    BY <1>1, SaneType DEF Poll
  <2>2. [watch EXCEPT !.age = Aged(watch.age, dt)] \in Watch
    <3>1. Aged(watch.age, dt) \in Since
      BY AgedType, WatchFields
    <3> DEFINE age == Aged(watch.age, dt)
    <3> HIDE DEF age
    <3> QED BY <3>1 DEF Watch, age
  <2>3. watch' \in Watch
    BY <1>1, <2>1, <2>2, CheckedType, Zenon DEF Poll
  <2>4. past' \in Past
    BY <1>1, <2>1, ObservedType, Zenon DEF Poll
  <2> QED
    BY <2>1, <2>3, <2>4
<1>2. CASE HandOver
  BY <1>2, Members DEF HandOver, Watch
<1>3. CASE Retry
  BY <1>3, Members DEF Retry, Watch
<1>4. CASE Fail
  <2>1. CASE watch.attempts < 2
    <3> DEFINE n == watch.attempts + 1
    <3>1. n \in Count
      BY <2>1, WatchFields DEF Count, PollsRequired
    <3>2. watch' = [watch EXCEPT !.state = "PENDING", !.attempts = n]
      BY <1>4, <2>1 DEF Fail
    <3> HIDE DEF n
    <3> QED BY <1>4, <3>1, <3>2, Members DEF Fail, Watch
  <2>2. CASE ~(watch.attempts < 2)
    <3>1. PICK end \in States : watch' = [watch EXCEPT !.state = end]
      BY <1>4, <2>2, Members, Zenon DEF Fail
    <3> QED BY <1>4, <3>1 DEF Fail, Watch
  <2> QED BY <2>1, <2>2
<1>5. CASE Protect
  BY <1>5, Members DEF Protect, Watch
<1>6. CASE UNCHANGED vars
  BY <1>6 DEF vars
<1> QED
  BY <1>1, <1>2, <1>3, <1>4, <1>5, <1>6, Zenon DEF Next

\* The type invariant, for every ladder and gap.
THEOREM TypeCorrect == Spec => []TypeOK
BY TypeInit, TypeStep, PTL DEF Spec

-----------------------------------------------------------------------------
(* What the parts of a poll do to the fields of a watch. *)

LEMMA KeptFields ==
    ASSUME NEW w \in Watch, NEW q \in Quote
    PROVE  LET k == Kept(w, q)
           IN  /\ k.state = w.state /\ k.crossed = w.crossed
               /\ k.gate = w.gate /\ k.resets = w.resets
               /\ k.breaches \in {0, w.breaches}
               /\ k.breaches # 0 => k = w
<1>1. LET v == [w EXCEPT !.age = Unset]
      IN  /\ v.state = w.state /\ v.crossed = w.crossed /\ v.gate = w.gate
          /\ v.resets = w.resets /\ v.breaches = w.breaches
  BY DEF Watch
<1>2. LET v == NoStreak(w)
      IN  /\ v.state = w.state /\ v.crossed = w.crossed /\ v.gate = w.gate
          /\ v.resets = w.resets /\ v.breaches = 0
  BY DEF Watch, NoStreak
<1> QED
  BY <1>1, <1>2, Zenon DEF Kept

LEMMA GatedFields ==
    ASSUME NEW w \in Watch, NEW q \in Quote, w.state = "PENDING"
    PROVE  LET g == Gated(w, q)
               v == Gated(w, q).watch
           IN  /\ v.crossed = w.crossed /\ v.state # "TRIGGERED"
               /\ v.breaches \in {0, w.breaches}
               /\ v.age = w.age
               /\ ~g.held => /\ v.gate = "open" /\ v.state = "PENDING"
                             /\ v.breaches = w.breaches
               /\ w.gate = "open" => v = w /\ ~g.held
BY Members DEF Gated, Watch

LEMMA BreachedFields ==
    ASSUME NEW w \in Watch, NEW q \in Quote, w.state = "PENDING"
    PROVE  LET b == Breached(w, q)
           IN  /\ b.state \in {"PENDING", "TRIGGERED"} /\ b.gate = w.gate
               /\ w.crossed => b.crossed
               /\ b.state = "TRIGGERED" => b.crossed /\ Reached(q)
BY Members DEF Breached, NoStreak, Watch

LEMMA EndedFields ==
    ASSUME NEW w \in Watch, NEW q \in Quote
    PROVE  LET s == Stopped(w, q)
               v == Withheld(s, q)
           IN  /\ s.crossed = w.crossed /\ s.gate = w.gate
               /\ s.state \in {w.state, "INVALIDATED"}
               /\ w.crossed /\ StopBroken(q) => s.state = "INVALIDATED"
               /\ v.crossed = w.crossed /\ v.gate = w.gate
               /\ v.state = "TRIGGERED" =>
                     s.state = "TRIGGERED" /\ ~StopUnknown(q)
               /\ s.state # "TRIGGERED" => v = s
BY Members DEF Stopped, Withheld, Watch

\* What the answer of the classifier says about the quote.
LEMMA ClassificationFacts ==
    ASSUME setup \in Setups, NEW w \in Watch, NEW q \in Quote
    PROVE  LET c == Classification(w, q)
               x == TriggerSide(q)
           IN  /\ c = "unknown" =>
                     ~Known(x) \/ (w.crossed /\ StopUnknown(q))
               /\ c \in {"short", "within", "waiting"} =>
                     Known(x) /\ ~(w.crossed /\ StopUnknown(q))
               /\ c \in {"short", "within"} => Reaches(setup.zone, x)
               /\ c = "waiting" => ~Reaches(setup.zone, x)
               /\ Known(x) /\ w.crossed /\ StopBroken(q) =>
                     c \in {"stop_broken", "target_complete"}
               /\ c \in {"unknown", "stop_broken", "target_complete",
                         "move_missed", "short", "within", "waiting"}
<1> DEFINE x == TriggerSide(q)
           c == Classification(w, q)
<1>1. setup \in Setup /\ x \in Optional /\ StopSide(q) \in Optional
  BY SetupsAssumption DEF TriggerSide, StopSide, Quote
<1>2. /\ Beyond(setup.side, setup.zone, setup.trigger)
      /\ setup.stop > 0 => Beyond(setup.side, setup.stop, setup.broken)
  BY SetupsAssumption
<1>3. Within(x) = Reaches(setup.zone, x)
  BY DEF Within
<1>4. ~Reaches(x, setup.trigger) => Reaches(setup.zone, x)
  BY <1>1, <1>2, BoundsAssumption
     DEF Reaches, Beyond, Setup, Price, Optional
<1>5. StopBroken(q) => /\ setup.stop > 0 /\ Known(StopSide(q))
                       /\ Reaches(setup.stop, StopSide(q))
  BY <1>1, <1>2, BoundsAssumption
     DEF StopBroken, Reaches, Beyond, Setup, Price, Optional
<1> HIDE DEF x
<1>6. c = "unknown" => ~Known(x) \/ (w.crossed /\ StopUnknown(q))
  BY DEF Classification, x
<1>7. c \in {"short", "within", "waiting"} =>
        Known(x) /\ ~(w.crossed /\ StopUnknown(q))
  BY DEF Classification, x
<1>8. /\ c \in {"short", "within"} => Reaches(setup.zone, x)
      /\ c = "waiting" => ~Reaches(setup.zone, x)
  BY <1>3, <1>4 DEF Classification, x
<1>9. Known(x) /\ w.crossed /\ StopBroken(q) =>
        c \in {"stop_broken", "target_complete"}
  BY <1>5 DEF Classification, x
<1>10. c \in {"unknown", "stop_broken", "target_complete", "move_missed",
              "short", "within", "waiting"}
  BY DEF Classification
<1> QED
  BY <1>6, <1>7, <1>8, <1>9, <1>10 DEF x

\* What a poll does to a watch as a whole.
LEMMA CheckedFields ==
    ASSUME setup \in Setups, NEW w \in Watch, NEW q \in Quote,
           NEW clock \in Clocks, w.state = "PENDING"
    PROVE  LET c == Checked(w, q, clock)
           IN  /\ c.state = "TRIGGERED" =>
                     /\ c.crossed /\ c.gate = "open" /\ Reached(q)
                     /\ ~StopUnknown(q) /\ ~StopBroken(q)
               /\ c.crossed /\ StopBroken(q)
                     /\ (w.gate = "open" \/ Known(TriggerSide(q)))
                  => c.state \in {"INVALIDATED", "EXPIRED"}
<1> DEFINE k == Kept(w, q)
           g == Gated(k, q)
           b == Breached(g.watch, q)
           s == Stopped(b, q)
           v == Withheld(s, q)
           c == Checked(w, q, clock)
<1>1. k \in Watch /\ k.state = "PENDING" /\ k.crossed = w.crossed
      /\ k.gate = w.gate
  BY KeptType, KeptFields
<1> HIDE DEF k
<1>2. g.watch \in Watch /\ g.held \in BOOLEAN
  BY <1>1, GatedType
<1>3. /\ g.watch.crossed = k.crossed /\ g.watch.state # "TRIGGERED"
      /\ ~g.held => g.watch.gate = "open" /\ g.watch.state = "PENDING"
      /\ k.gate = "open" => ~g.held
  BY <1>1, GatedFields
<1>4. g.held /\ k.crossed /\ Known(TriggerSide(q)) /\ StopBroken(q)
        => g.watch.state = "INVALIDATED"
  <2>1. Classification(k, q) \in {"stop_broken", "target_complete"} /\ g.held
           => g.watch.state = "INVALIDATED"
    BY <1>1 DEF Gated, Watch
  <2> QED BY <1>1, <2>1, ClassificationFacts
<1>5. b \in Watch
  BY <1>2, BreachedType
<1>6. ~g.held => /\ b.state \in {"PENDING", "TRIGGERED"} /\ b.gate = "open"
                 /\ b.state = "TRIGGERED" => b.crossed /\ Reached(q)
  BY <1>2, <1>3, BreachedFields
<1>7. /\ v.crossed = b.crossed /\ v.gate = b.gate
      /\ v.state = "TRIGGERED" =>
            /\ b.state = "TRIGGERED" /\ ~StopUnknown(q)
            /\ ~(b.crossed /\ StopBroken(q))
      /\ b.crossed /\ StopBroken(q) => v.state = "INVALIDATED"
  BY <1>5, EndedFields
<1>8. [w EXCEPT !.state = "EXPIRED"].state = "EXPIRED"
  BY DEF Watch
<1>9. \/ c.state = "EXPIRED"
      \/ c = g.watch /\ g.held
      \/ c = v /\ ~g.held
  BY <1>8, Zenon DEF Checked, k
<1> HIDE DEF g, b, s, v, c
<1> QED
  <2>1. CASE c.state = "EXPIRED"
    BY <2>1 DEF c
  <2>2. CASE c = g.watch /\ g.held
    BY <2>2, <1>1, <1>2, <1>3, <1>4, Zenon DEF c
  <2>3. CASE c = v /\ ~g.held
    BY <2>3, <1>6, <1>7, Zenon DEF c
  <2> QED
    BY <1>9, <2>1, <2>2, <2>3

-----------------------------------------------------------------------------
(* An entry is reported only on a quote that proves it, and the stop ends  *)
(* the watch.                                                              *)

\* A poll is a call of check() with a quote, on the watch grown older.
LEMMA PollFields ==
    ASSUME TypeOK, NEW dt \in Ages, NEW clock \in Clocks, Poll(dt, clock)
    PROVE  LET w == [watch EXCEPT !.age = Aged(watch.age, dt)]
           IN  /\ w \in Watch /\ quote' \in Quote /\ setup' = setup
               /\ w.state = "PENDING" /\ watch.state = "PENDING"
               /\ w.crossed = watch.crossed /\ w.gate = watch.gate
               /\ w.resets = watch.resets /\ w.breaches = watch.breaches
               /\ w.age = Aged(watch.age, dt)
               /\ watch' = Checked(w, quote', clock)
               /\ past' = Observed(past, quote', dt)
<1>1. /\ setup' = setup /\ quote' \in Quote /\ watch.state = "PENDING"
      /\ watch' = Checked([watch EXCEPT !.age = Aged(watch.age, dt)], quote',
                          clock)
      /\ past' = Observed(past, quote', dt)
  BY SaneType DEF Poll
<1> DEFINE age == Aged(watch.age, dt)
<1>2. watch \in Watch /\ age \in Since
  BY AgedType, WatchFields DEF TypeOK
<1> HIDE DEF age
<1>3. LET w == [watch EXCEPT !.age = age]
      IN  /\ w \in Watch /\ w.state = watch.state /\ w.age = age
          /\ w.crossed = watch.crossed /\ w.gate = watch.gate
          /\ w.resets = watch.resets /\ w.breaches = watch.breaches
  BY <1>2 DEF Watch
<1> QED
  BY <1>1, <1>3, Zenon DEF age

\* The steps that are no poll leave the crossing, the gate, the counters and
\* the history alone, and no watch triggers in them.
LEMMA OtherFields ==
    ASSUME TypeOK, HandOver \/ Retry \/ Fail \/ Protect
    PROVE  /\ watch.state = "TRIGGERED" /\ watch'.state # "TRIGGERED"
           /\ watch'.crossed = watch.crossed /\ watch'.gate = watch.gate
           /\ watch'.resets = watch.resets
           /\ UNCHANGED <<setup, quote, past>>
BY DEF TypeOK, HandOver, Retry, Fail, Protect, Watch

LEMMA FiresStep == TypeOK /\ FiresOnProof /\ [Next]_vars => FiresOnProof'
<1> SUFFICES ASSUME TypeOK, FiresOnProof, [Next]_vars PROVE FiresOnProof'
  OBVIOUS
<1>1. ASSUME NEW dt \in Ages, NEW clock \in Clocks, Poll(dt, clock)
      PROVE  FiresOnProof'
  <2> DEFINE w == [watch EXCEPT !.age = Aged(watch.age, dt)]
  <2>1. w \in Watch /\ quote' \in Quote /\ setup' = setup
        /\ w.state = "PENDING" /\ watch' = Checked(w, quote', clock)
    BY <1>1, PollFields
  <2>2. setup \in Setups
    BY DEF TypeOK
  <2> HIDE DEF w
  <2>3. watch'.state = "TRIGGERED" =>
           /\ watch'.crossed /\ watch'.gate = "open" /\ Reached(quote')
           /\ ~StopUnknown(quote') /\ ~StopBroken(quote')
    BY <2>1, <2>2, CheckedFields
  <2> QED
    BY <2>1, <2>3
       DEF FiresOnProof, Reached, StopUnknown, StopBroken, Reaches,
           TriggerSide, StopSide
<1>2. CASE HandOver \/ Retry \/ Fail \/ Protect
  BY <1>2, OtherFields DEF FiresOnProof
<1>3. CASE UNCHANGED vars
  BY <1>3 DEF vars, FiresOnProof, Reached, StopUnknown, StopBroken, Reaches,
              TriggerSide, StopSide
<1> QED
  BY <1>1, <1>2, <1>3, Zenon DEF Next

\* No trigger is reported without proof of it from both sides of the quote.
THEOREM FiringIsProven == Spec => []FiresOnProof
<1>1. Init => FiresOnProof
  BY DEF Init, FiresOnProof
<1> QED
  BY <1>1, FiresStep, TypeCorrect, PTL DEF Spec

\* A stop that is read as broken after the crossing ends the watch.
THEOREM StopEndsTheWatch == Spec => StopIsLive
<1>1. TypeOK /\ [Next]_vars =>
        [watch.state = "PENDING" /\ watch'.crossed /\ StopBroken(quote')
           /\ (watch.gate = "open" \/ Known(TriggerSide(quote')))
         => watch'.state \in {"INVALIDATED", "EXPIRED"}]_vars
  <2> SUFFICES ASSUME TypeOK, Next, watch.state = "PENDING", watch'.crossed,
                      StopBroken(quote'),
                      watch.gate = "open" \/ Known(TriggerSide(quote'))
               PROVE  watch'.state \in {"INVALIDATED", "EXPIRED"}
    OBVIOUS
  <2>1. PICK dt \in Ages, clock \in Clocks : Poll(dt, clock)
    <3>1. ~(HandOver \/ Retry \/ Fail \/ Protect)
      BY DEF HandOver, Retry, Fail, Protect
    <3> QED BY <3>1, Zenon DEF Next
  <2> DEFINE w == [watch EXCEPT !.age = Aged(watch.age, dt)]
  <2>2. w \in Watch /\ quote' \in Quote /\ w.state = "PENDING"
        /\ w.gate = watch.gate /\ watch' = Checked(w, quote', clock)
    BY <2>1, PollFields
  <2>3. setup \in Setups
    BY DEF TypeOK
  <2> HIDE DEF w
  <2> QED
    BY <2>2, <2>3, CheckedFields
<1> QED
  BY <1>1, TypeCorrect, PTL DEF Spec, StopIsLive

-----------------------------------------------------------------------------
(* A late watch does not chase the move.  The inductive invariant says     *)
(* where the gate is, given where the price was first seen: a watch that   *)
(* was first seen beyond the zone waits at the gate until it was back      *)
(* twice in a row.                                                         *)

Live == watch.state \in {"PENDING", "TRIGGERED"}

LateInv ==
    /\ past.late = "unseen" => watch.gate = "awaiting"
    /\ Live /\ past.late = "far" =>
          watch.gate = "waiting"
          \/ (watch.gate = "open" /\ past.reset = PollsRequired)
    /\ Live /\ watch.gate = "waiting" => watch.resets =< past.reset

\* What the rest of check() does to the gate: nothing.
LEMMA CheckedGate ==
    ASSUME NEW w \in Watch, NEW q \in Quote, NEW clock \in Clocks,
           w.state = "PENDING"
    PROVE  LET c == Checked(w, q, clock)
               g == Gated(Kept(w, q), q)
           IN  /\ \/ c.state = "EXPIRED" /\ c.gate = w.gate
                  \/ c.gate = g.watch.gate /\ c.resets = g.watch.resets
               /\ g.watch.state = "INVALIDATED" =>
                     c.state \in {"INVALIDATED", "EXPIRED"}
<1> DEFINE k == Kept(w, q)
           g == Gated(k, q)
           b == Breached(g.watch, q)
           s == Stopped(b, q)
           v == Withheld(s, q)
<1>1. k \in Watch /\ k.state = "PENDING"
  BY KeptType, KeptFields
<1> HIDE DEF k
<1>2. g.watch \in Watch /\ (g.watch.state = "INVALIDATED" => g.held)
  BY <1>1, GatedType, GatedFields
<1> HIDE DEF g
<1>3. b \in Watch /\ b.gate = g.watch.gate /\ b.resets = g.watch.resets
  <2>1. b \in Watch
    BY <1>2, BreachedType
  <2>2. b.gate = g.watch.gate /\ b.resets = g.watch.resets
    BY <1>2, Members DEF Breached, NoStreak, Watch
  <2> QED BY <2>1, <2>2
<1> HIDE DEF b
<1>4. s \in Watch /\ s.gate = b.gate /\ s.resets = b.resets
  <2>1. s \in Watch
    BY <1>3, StoppedType
  <2>2. s.gate = b.gate /\ s.resets = b.resets
    BY <1>3, Members DEF Stopped, Watch
  <2> QED BY <2>1, <2>2
<1> HIDE DEF s
<1>5. v.gate = s.gate /\ v.resets = s.resets
  BY <1>4, Members DEF Withheld, Watch
<1>6. LET c == [w EXCEPT !.state = "EXPIRED"]
      IN  c.state = "EXPIRED" /\ c.gate = w.gate
  BY DEF Watch
<1> HIDE DEF v
<1> QED
  BY <1>2, <1>3, <1>4, <1>5, <1>6, Zenon DEF Checked, k, g, b, s, v

\* Where the gate goes.
LEMMA GateMoves ==
    ASSUME NEW w \in Watch, NEW q \in Quote, w.state = "PENDING"
    PROVE  LET c == Classification(w, q)
               v == Gated(w, q).watch
               back == Reaches(setup.reset, TriggerSide(q))
           IN  /\ w.gate = "open" \/ c = "unknown" =>
                     v.gate = w.gate /\ v.resets = w.resets
               /\ w.gate # "open"
                    /\ c \in {"stop_broken", "target_complete", "move_missed"}
                  => v.state = "INVALIDATED" /\ v.gate = w.gate
               /\ w.gate = "awaiting" /\ c \in {"short", "within", "waiting"} =>
                     /\ c = "waiting" => v.gate = "waiting" /\ v.resets = 0
                     /\ c = "within" => v.gate = "within"
                     /\ c = "short" => v.gate = "open"
               /\ w.gate = "within" /\ c \in {"short", "within", "waiting"} =>
                     /\ v.gate \in {"open", "within", "waiting"}
                     /\ v.gate = "waiting" => v.resets = 0
               /\ w.gate = "waiting" /\ c \in {"short", "within", "waiting"} =>
                     \/ ~back /\ v.gate = "waiting" /\ v.resets = 0
                     \/ /\ back /\ Bump(w.resets) # PollsRequired
                        /\ v.gate = "waiting" /\ v.resets = Bump(w.resets)
                     \/ /\ back /\ Bump(w.resets) = PollsRequired
                        /\ v.gate = "open"
BY Members DEF Gated, Watch

\* What a poll does to the history.
LEMMA ObservedFields ==
    ASSUME NEW p \in Past, NEW q \in Quote, NEW dt \in Ages
    PROVE  LET o == Observed(p, q, dt)
               known == Known(TriggerSide(q))
               blind == watch.crossed /\ StopUnknown(q)
               since == Aged(p.since, dt)
           IN  /\ o.late = (IF ~known \/ blind \/ p.late # "unseen"
                              THEN p.late
                            ELSE IF ~Reaches(setup.zone, TriggerSide(q))
                              THEN "far" ELSE "near")
               /\ o.reset = (IF ~known \/ blind \/ p.reset = PollsRequired
                               THEN p.reset
                             ELSE IF Reaches(setup.reset, TriggerSide(q))
                               THEN Bump(p.reset) ELSE 0)
               /\ ~known => o.run = p.run /\ o.since = since
               /\ known => /\ o.since = IF Reached(q) THEN 0 ELSE Unset
                           /\ o.run = IF Reached(q)
                                        THEN IF Fresh(since) THEN Bump(p.run)
                                             ELSE 1
                                        ELSE 0
BY DEF Observed, Past

LEMMA LatePoll ==
    ASSUME TypeOK, LateInv, NEW dt \in Ages, NEW clock \in Clocks,
           Poll(dt, clock)
    PROVE  LateInv'
<1> DEFINE w == [watch EXCEPT !.age = Aged(watch.age, dt)]
           k == Kept(w, quote')
           g == Gated(k, quote')
           c == Classification(k, quote')
           x == TriggerSide(quote')
           blind == watch.crossed /\ StopUnknown(quote')
           back == Reaches(setup.reset, x)
           far == ~Reaches(setup.zone, x)
<1>1. /\ w \in Watch /\ quote' \in Quote /\ setup' = setup
      /\ w.state = "PENDING" /\ watch.state = "PENDING"
      /\ w.crossed = watch.crossed /\ w.gate = watch.gate
      /\ w.resets = watch.resets
      /\ watch' = Checked(w, quote', clock)
      /\ past' = Observed(past, quote', dt)
  BY PollFields
<1>2. setup \in Setups /\ watch \in Watch /\ past \in Past /\ watch' \in Watch
  BY TypeStep DEF TypeOK, Next
<1> HIDE DEF w
<1>3. k \in Watch /\ k.state = "PENDING" /\ k.crossed = watch.crossed
      /\ k.gate = watch.gate /\ k.resets = watch.resets
  BY <1>1, KeptType, KeptFields
<1>4. \/ watch'.state = "EXPIRED" /\ watch'.gate = watch.gate
      \/ watch'.gate = g.watch.gate /\ watch'.resets = g.watch.resets
  BY <1>1, CheckedGate
<1>5. Live' => g.watch.state # "INVALIDATED"
  BY <1>1, CheckedGate DEF Live
<1>6. /\ past'.late = (IF ~Known(x) \/ blind \/ past.late # "unseen"
                         THEN past.late ELSE IF far THEN "far" ELSE "near")
      /\ past'.reset = (IF ~Known(x) \/ blind \/ past.reset = PollsRequired
                          THEN past.reset ELSE IF back THEN Bump(past.reset)
                          ELSE 0)
  BY <1>1, <1>2, ObservedFields
<1>7. /\ c = "unknown" => ~Known(x) \/ blind
      /\ c \in {"short", "within", "waiting"} => Known(x) /\ ~blind
      /\ c \in {"short", "within"} => ~far
      /\ c = "waiting" => far
      /\ c \in {"unknown", "stop_broken", "target_complete", "move_missed",
                "short", "within", "waiting"}
  BY <1>1, <1>2, <1>3, ClassificationFacts
<1>8. /\ watch.gate \in Gates /\ watch.resets \in Count
      /\ past.reset \in Count /\ past'.reset \in Count
      /\ past.late \in {"no", "unseen", "near", "far"}
  BY <1>2, <1>6, WatchFields, BumpType, Members DEF Past
<1> DEFINE v == g.watch
<1> HIDE DEF k
<1>20. /\ watch.gate = "open" \/ c = "unknown" =>
             v.gate = watch.gate /\ v.resets = watch.resets
       /\ watch.gate # "open"
            /\ c \in {"stop_broken", "target_complete", "move_missed"}
          => v.state = "INVALIDATED" /\ v.gate = watch.gate
       /\ watch.gate = "awaiting" /\ c \in {"short", "within", "waiting"} =>
             /\ c = "waiting" => v.gate = "waiting" /\ v.resets = 0
             /\ c = "within" => v.gate = "within"
             /\ c = "short" => v.gate = "open"
       /\ watch.gate = "within" /\ c \in {"short", "within", "waiting"} =>
             /\ v.gate \in {"open", "within", "waiting"}
             /\ v.gate = "waiting" => v.resets = 0
       /\ watch.gate = "waiting" /\ c \in {"short", "within", "waiting"} =>
             \/ ~back /\ v.gate = "waiting" /\ v.resets = 0
             \/ /\ back /\ Bump(watch.resets) # PollsRequired
                /\ v.gate = "waiting" /\ v.resets = Bump(watch.resets)
             \/ back /\ Bump(watch.resets) = PollsRequired /\ v.gate = "open"
  BY <1>1, <1>3, GateMoves
<1> HIDE DEF g, c, x, blind, back, far, v
<1>9. v.gate # watch.gate => c \in {"short", "within", "waiting"}
  BY <1>7, <1>20
<1>10. past'.late = "unseen" => watch'.gate = "awaiting"
  <2> SUFFICES ASSUME past'.late = "unseen" PROVE watch'.gate = "awaiting"
    OBVIOUS
  <2>1. past.late = "unseen" /\ (~Known(x) \/ blind)
    BY <1>6, <1>8
  <2>2. v.gate = watch.gate /\ watch.gate = "awaiting"
    BY <2>1, <1>7, <1>9 DEF LateInv
  <2> QED
    BY <2>2, <1>4 DEF v
<1>11. ASSUME Live'
       PROVE  /\ watch'.gate = v.gate /\ watch'.resets = v.resets
              /\ watch.gate # "open" =>
                    c \notin {"stop_broken", "target_complete", "move_missed"}
  BY <1>4, <1>5, <1>11, <1>20 DEF Live, v
<1>12. Live
  BY <1>1 DEF Live
<1>13. ASSUME Live', past'.late = "far"
       PROVE  watch'.gate = "waiting"
              \/ (watch'.gate = "open" /\ past'.reset = PollsRequired)
  <2>1. CASE past.late = "far" /\ watch.gate = "open"
    <3>1. v.gate = "open"
      BY <1>3, <2>1, <1>20
    <3>2. past'.reset = PollsRequired
      BY <1>6, <1>12, <2>1 DEF LateInv
    <3> QED BY <1>11, <1>13, <3>1, <3>2
  <2>2. CASE past.late = "far" /\ watch.gate = "waiting"
    <3>1. CASE c = "unknown"
      BY <1>3, <1>11, <1>13, <2>2, <3>1, <1>20
    <3>2. CASE c # "unknown"
      <4>1. c \in {"short", "within", "waiting"} /\ Known(x) /\ ~blind
        BY <1>7, <1>11, <1>13, <2>2, <3>2
      <4>2. v.gate = "waiting"
            \/ (back /\ Bump(watch.resets) = PollsRequired /\ v.gate = "open")
        BY <1>3, <2>2, <4>1, <1>20
      <4>3. back /\ Bump(watch.resets) = PollsRequired
               => past'.reset = PollsRequired
        BY <1>6, <1>8, <1>12, <2>2, <4>1
           DEF LateInv, Bump, Count, PollsRequired
      <4> QED BY <1>11, <1>13, <4>2, <4>3
    <3> QED BY <3>1, <3>2
  <2>3. CASE past.late # "far"
    <3>1. past.late = "unseen" /\ Known(x) /\ ~blind /\ far
      BY <1>6, <1>13, <2>3
    <3>2. watch.gate = "awaiting"
      BY <3>1 DEF LateInv
    <3>3. c = "waiting"
      BY <1>7, <1>11, <1>13, <3>1, <3>2
    <3> QED BY <1>3, <1>11, <1>13, <3>2, <3>3, <1>20
  <2> QED BY <1>12, <2>1, <2>2, <2>3 DEF LateInv
<1>14. ASSUME Live', watch'.gate = "waiting"
       PROVE  watch'.resets =< past'.reset
  <2>1. v.gate = "waiting" /\ watch'.resets = v.resets
    BY <1>11, <1>14
  <2>2. CASE watch.gate = "waiting" /\ c = "unknown"
    <3>1. v.resets = watch.resets
      BY <1>3, <2>2, <1>20
    <3>2. past'.reset = past.reset
      BY <1>6, <1>7, <2>2
    <3> QED BY <1>12, <2>1, <2>2, <3>1, <3>2 DEF LateInv
  <2>3. CASE watch.gate = "waiting" /\ c # "unknown"
    <3>1. c \in {"short", "within", "waiting"} /\ Known(x) /\ ~blind
      BY <1>7, <1>11, <1>14, <2>3
    <3>2. \/ v.resets = 0
          \/ back /\ Bump(watch.resets) # PollsRequired
                  /\ v.resets = Bump(watch.resets)
      BY <1>3, <2>1, <2>3, <3>1, <1>20
    <3>3. watch.resets =< past.reset
      BY <1>12, <2>3 DEF LateInv
    <3> QED BY <1>6, <1>8, <2>1, <3>1, <3>2, <3>3
               DEF Bump, Count, PollsRequired
  <2>4. CASE watch.gate # "waiting"
    <3>1. c \in {"short", "within", "waiting"} /\ watch.gate # "open"
      BY <1>3, <1>9, <2>1, <2>4, <1>20
    <3>2. v.resets = 0
      BY <1>3, <1>8, <2>1, <2>4, <3>1, <1>20, Members
    <3> QED BY <1>8, <2>1, <3>2 DEF Count
  <2> QED BY <2>2, <2>3, <2>4
<1> QED
  BY <1>10, <1>13, <1>14 DEF LateInv

LEMMA LateStep == TypeOK /\ LateInv /\ [Next]_vars => LateInv'
<1> SUFFICES ASSUME TypeOK, LateInv, [Next]_vars PROVE LateInv'
  OBVIOUS
<1>1. ASSUME NEW dt \in Ages, NEW clock \in Clocks, Poll(dt, clock)
      PROVE  LateInv'
  BY <1>1, LatePoll
<1>2. CASE HandOver \/ Retry \/ Fail \/ Protect
  BY <1>2, OtherFields DEF LateInv, Live
<1>3. CASE UNCHANGED vars
  BY <1>3 DEF vars, LateInv, Live
<1> QED
  BY <1>1, <1>2, <1>3, Zenon DEF Next

\* A watch that was armed late and first saw the price beyond the zone does
\* not report an entry before the price was back twice in a row.
THEOREM LateMovesAreNotChased == Spec => []LateMoveNotChased
<1>1. Init => LateInv
  <2> SUFFICES ASSUME Init PROVE LateInv
    OBVIOUS
  <2> DEFINE Late(gate) == CASE gate = "open" -> "no"
                             [] gate = "awaiting" -> "unseen"
                             [] gate = "within" -> "near"
                             [] gate = "waiting" -> "far"
  <2>1. /\ Late("open") = "no" /\ Late("awaiting") = "unseen"
        /\ Late("within") = "near" /\ Late("waiting") = "far"
    OBVIOUS
  <2> HIDE DEF Late
  <2>2. PICK gate \in Gates, crossed \in BOOLEAN :
           /\ watch = [state |-> "PENDING", attempts |-> 0,
                       crossed |-> crossed, breaches |-> 0, age |-> Unset,
                       gate |-> gate, confirms |-> 0, resets |-> 0]
           /\ past = [run |-> 0, since |-> Unset, reset |-> 0,
                      late |-> Late(gate)]
    BY Zenon DEF Init, Late
  <2> QED BY <2>1, <2>2 DEF LateInv, Gates
<1>2. FiresOnProof /\ LateInv => LateMoveNotChased
  BY DEF FiresOnProof, LateInv, LateMoveNotChased, Live
<1> QED
  BY <1>1, <1>2, LateStep, TypeCorrect, FiringIsProven, PTL DEF Spec

-----------------------------------------------------------------------------
(* A crossing is confirmed by observations in a row.  The inductive        *)
(* invariant says that the breach count of a watch counts only the         *)
(* observations of the present run, and ages with it.                      *)

CountInv ==
    Live /\ ~watch.crossed /\ watch.breaches > 0 =>
        /\ watch.gate = "open"
        /\ watch.breaches =< past.run
        /\ watch.age = past.since

\* What a poll does to a watch whose gate is open: the breach count.
LEMMA BreachCounts ==
    ASSUME NEW w \in Watch, NEW q \in Quote, w.state = "PENDING", ~w.crossed
    PROVE  LET v == Withheld(Stopped(Breached(w, q), q), q)
               n == Bump(IF Stale(w) THEN 0 ELSE w.breaches)
           IN  /\ ~Known(TriggerSide(q)) => v.crossed = w.crossed
                     /\ v.breaches = w.breaches /\ v.age = w.age
               /\ Known(TriggerSide(q)) /\ ~Reached(q) =>
                     v.crossed = w.crossed /\ v.breaches = 0
               /\ Known(TriggerSide(q)) /\ Reached(q) =>
                     /\ v.crossed = (n = PollsRequired)
                     /\ ~v.crossed => v.breaches = n /\ v.age = 0
<1> DEFINE n == Bump(IF Stale(w) THEN 0 ELSE w.breaches)
           b == Breached(w, q)
           s == Stopped(b, q)
           v == Withheld(s, q)
<1>1. n \in Count /\ b \in Watch
  BY BumpType, WatchFields, BreachedType, Members
<1> HIDE DEF n
<1>2. /\ ~Known(TriggerSide(q)) => b = w
      /\ Known(TriggerSide(q)) /\ ~Reached(q) =>
            b.crossed = w.crossed /\ b.breaches = 0
      /\ Known(TriggerSide(q)) /\ Reached(q) =>
            /\ b.crossed = (n = PollsRequired)
            /\ b.breaches = n /\ b.age = 0
  BY <1>1, Members DEF Breached, NoStreak, Watch, n
<1> HIDE DEF b
<1>3. s \in Watch /\ s.crossed = b.crossed /\ (~b.crossed => s = b)
      /\ s.breaches \in {0, b.breaches}
  <2>1. s \in Watch
    BY <1>1, StoppedType
  <2>2. s.crossed = b.crossed /\ (~b.crossed => s = b)
        /\ s.breaches \in {0, b.breaches}
    BY <1>1, Members DEF Stopped, Watch
  <2> QED BY <2>1, <2>2
<1> HIDE DEF s
<1>4. v.crossed = s.crossed /\ v.breaches = s.breaches /\ v.age = s.age
  BY <1>3, Members DEF Withheld, Watch
<1> HIDE DEF v
<1>5. w.crossed \in BOOLEAN /\ b.crossed \in BOOLEAN
  BY <1>1, WatchFields
<1> QED
  BY <1>2, <1>3, <1>4, <1>5 DEF b, s, v, n

\* A crossing is never forgotten.
LEMMA CrossedForGood ==
    ASSUME TypeOK, NEW dt \in Ages, NEW clock \in Clocks, Poll(dt, clock),
           watch.crossed
    PROVE  watch'.crossed
<1> DEFINE w == [watch EXCEPT !.age = Aged(watch.age, dt)]
           k == Kept(w, quote')
           u == Gated(k, quote').watch
           b == Breached(u, quote')
<1>1. /\ w \in Watch /\ quote' \in Quote /\ w.state = "PENDING"
      /\ w.crossed = watch.crossed
      /\ watch' = Checked(w, quote', clock)
  BY PollFields
<1>2. [w EXCEPT !.state = "EXPIRED"].crossed = w.crossed
  BY <1>1 DEF Watch
<1> HIDE DEF w
<1>3. k \in Watch /\ k.state = "PENDING" /\ k.crossed = w.crossed
  BY <1>1, KeptType, KeptFields
<1> HIDE DEF k
<1>4. u \in Watch /\ u.crossed = k.crossed
  BY <1>1, <1>3, GatedType, GatedFields
<1> HIDE DEF u
<1>5. b \in Watch /\ (u.crossed => b.crossed)
  <2>1. u.crossed => b.crossed
    BY <1>4, Members DEF Breached, NoStreak, Watch
  <2> QED BY <1>1, <1>4, <2>1, BreachedType
<1>6. Withheld(Stopped(b, quote'), quote').crossed = b.crossed
  BY <1>1, <1>5, EndedFields
<1> HIDE DEF b
<1> QED
  BY <1>1, <1>2, <1>3, <1>4, <1>5, <1>6, Zenon DEF Checked, k, u, b

LEMMA CountPoll ==
    ASSUME TypeOK, CountInv, NEW dt \in Ages, NEW clock \in Clocks,
           Poll(dt, clock), ~watch.crossed
    PROVE  CountInv' /\ (watch'.crossed => past'.run = PollsRequired)
<1> DEFINE w == [watch EXCEPT !.age = Aged(watch.age, dt)]
           k == Kept(w, quote')
           g == Gated(k, quote')
           u == g.watch
           v == Withheld(Stopped(Breached(u, quote'), quote'), quote')
           n == Bump(IF Stale(u) THEN 0 ELSE u.breaches)
           since == Aged(past.since, dt)
           known == Known(TriggerSide(quote'))
           reached == Reached(quote')
<1>1. /\ w \in Watch /\ quote' \in Quote /\ w.state = "PENDING"
      /\ watch.state = "PENDING" /\ w.crossed = watch.crossed
      /\ w.gate = watch.gate /\ w.breaches = watch.breaches
      /\ w.age = Aged(watch.age, dt)
      /\ watch' = Checked(w, quote', clock)
      /\ past' = Observed(past, quote', dt)
  BY PollFields
<1>2. watch \in Watch /\ past \in Past /\ watch' \in Watch
  BY TypeStep DEF TypeOK, Next
<1>3. [w EXCEPT !.state = "EXPIRED"].state = "EXPIRED"
      /\ [w EXCEPT !.state = "EXPIRED"].crossed = w.crossed
  BY <1>1 DEF Watch
<1> HIDE DEF w
<1>4. /\ k \in Watch /\ k.state = "PENDING" /\ k.crossed = w.crossed
      /\ k.gate = w.gate /\ k.breaches \in {0, w.breaches}
      /\ k.breaches # 0 => k = w
  BY <1>1, KeptType, KeptFields
<1> HIDE DEF k
<1>5. /\ u \in Watch /\ u.crossed = k.crossed /\ u.state # "TRIGGERED"
      /\ u.breaches \in {0, k.breaches} /\ u.age = k.age
      /\ ~g.held => u.state = "PENDING" /\ u.gate = "open"
      /\ k.gate = "open" => u = k /\ ~g.held
  BY <1>4, <1>1, GatedType, GatedFields
<1>6. \/ watch'.state = "EXPIRED" /\ watch'.crossed = watch.crossed
      \/ watch' = u /\ g.held
      \/ watch' = v /\ ~g.held
  BY <1>1, <1>3, Zenon DEF Checked, k
<1>7. /\ ~known => past'.run = past.run /\ past'.since = since
      /\ known /\ reached => past'.since = 0
            /\ past'.run = IF Fresh(since) THEN Bump(past.run) ELSE 1
  BY <1>1, <1>2, ObservedFields
<1>8. /\ ~u.crossed /\ u.state = "PENDING" =>
            /\ ~known => v.crossed = u.crossed /\ v.breaches = u.breaches
                         /\ v.age = u.age
            /\ known /\ ~reached => v.crossed = u.crossed /\ v.breaches = 0
            /\ known /\ reached => /\ v.crossed = (n = PollsRequired)
                                   /\ ~v.crossed => v.breaches = n /\ v.age = 0
  BY <1>1, <1>5, BreachCounts
<1> HIDE DEF g, since, known, reached
<1>9. u.breaches > 0 => /\ watch.gate = "open" /\ u.age = since
                        /\ u.breaches = watch.breaches
                        /\ u.breaches =< past.run
  <2> SUFFICES ASSUME u.breaches > 0
               PROVE  /\ watch.gate = "open" /\ u.age = since
                      /\ u.breaches = watch.breaches /\ u.breaches =< past.run
    OBVIOUS
  <2>1. u.breaches = k.breaches /\ k = w /\ watch.breaches > 0
    BY <1>1, <1>2, <1>4, <1>5, WatchFields DEF Count
  <2>2. watch.gate = "open" /\ watch.breaches =< past.run
        /\ watch.age = past.since
    BY <1>1, <2>1 DEF CountInv, Live
  <2> QED BY <1>1, <1>5, <2>1, <2>2 DEF since
<1>10. n \in Count /\ past.run \in Count /\ u.breaches \in Count
  BY <1>2, <1>5, BumpType, WatchFields, Members DEF Past
<1>11. ~u.crossed /\ ~watch.crossed
  BY <1>1, <1>4, <1>5
<1> HIDE DEF u
<1>12. known /\ reached => n =< past'.run /\ past'.run \in Count
  <2>1. Stale(u) <=> (u.breaches > 0 /\ ~Fresh(u.age))
    BY <1>11 DEF Stale
  <2>2. CASE u.breaches > 0 /\ Fresh(since)
    <3>1. ~Stale(u) /\ u.breaches =< past.run
      BY <1>9, <2>1, <2>2
    <3>2. n = Bump(u.breaches)
      BY <3>1 DEF n
    <3> QED
      BY <1>7, <1>10, <2>2, <3>1, <3>2 DEF Bump, Count, PollsRequired
  <2>3. CASE ~(u.breaches > 0 /\ Fresh(since))
    <3>1. (IF Stale(u) THEN 0 ELSE u.breaches) = 0
      <4>1. CASE u.breaches > 0
        <5>1. u.age = since /\ ~Fresh(since)
          BY <1>9, <2>3, <4>1
        <5>2. Stale(u)
          BY <2>1, <4>1, <5>1, Zenon
        <5> QED BY <5>2
      <4>2. CASE ~(u.breaches > 0)
        BY <1>10, <2>1, <4>2 DEF Count, PollsRequired
      <4> QED BY <4>1, <4>2
    <3>2. n = 1
      BY <3>1 DEF n, Bump, PollsRequired
    <3>3. Bump(past.run) \in Count /\ Bump(past.run) > 0
      BY <1>10, BumpType
    <3> QED
      BY <1>7, <3>2, <3>3 DEF Count, PollsRequired
  <2> QED BY <2>2, <2>3
<1> HIDE DEF v, n
<1>13. CASE watch'.state = "EXPIRED" /\ watch'.crossed = watch.crossed
  BY <1>13 DEF CountInv, Live
<1>14. CASE watch' = u /\ g.held
  <2>1. ~(watch.gate = "open")
    BY <1>14, <1>1, <1>4, <1>5 DEF u
  <2> QED
    BY <1>9, <1>11, <1>14, <2>1 DEF CountInv
<1>15. CASE watch' = v /\ ~g.held
  <2>0. u.state = "PENDING" /\ u.gate = "open" /\ v.gate = "open"
    <3>1. u.state = "PENDING" /\ u.gate = "open" /\ u \in Watch
      BY <1>15, <1>5 DEF u
    <3>2. Breached(u, quote').gate = u.gate /\ Breached(u, quote') \in Watch
      BY <1>1, <3>1, BreachedFields, BreachedType
    <3>3. v.gate = Breached(u, quote').gate
      BY <1>1, <3>2, EndedFields DEF v
    <3> QED BY <3>1, <3>2, <3>3
  <2>1. CASE ~known
    <3>1. past'.run = past.run /\ past'.since = since
          /\ watch'.breaches = u.breaches /\ watch'.age = u.age
          /\ watch'.gate = "open" /\ ~watch'.crossed
      BY <1>7, <1>8, <1>11, <1>15, <2>0, <2>1
    <3> QED BY <1>9, <3>1, Zenon DEF CountInv
  <2>2. CASE known /\ ~reached
    BY <1>8, <1>11, <1>15, <2>0, <2>2 DEF CountInv
  <2>3. CASE known /\ reached
    <3>1. /\ watch'.gate = "open" /\ past'.since = 0
          /\ watch'.crossed <=> (n = PollsRequired)
          /\ ~watch'.crossed => watch'.breaches = n /\ watch'.age = 0
      BY <1>7, <1>8, <1>11, <1>15, <2>0, <2>3
    <3>2. n =< past'.run
      BY <1>12, <2>3
    <3>3. watch'.crossed => past'.run = PollsRequired
      BY <1>10, <1>12, <2>3, <3>1, <3>2 DEF Count, PollsRequired
    <3>4. CountInv'
      BY <3>1, <3>2, Zenon DEF CountInv
    <3> QED BY <3>3, <3>4
  <2> QED BY <2>1, <2>2, <2>3
<1> QED
  BY <1>6, <1>13, <1>14, <1>15

LEMMA CountStep == TypeOK /\ FiresOnProof /\ CountInv /\ [Next]_vars => CountInv'
<1> SUFFICES ASSUME TypeOK, FiresOnProof, CountInv, [Next]_vars PROVE CountInv'
  OBVIOUS
<1>1. ASSUME NEW dt \in Ages, NEW clock \in Clocks, Poll(dt, clock)
      PROVE  CountInv'
  <2>1. CASE watch.crossed
    <3>1. watch'.crossed
      BY <1>1, <2>1, CrossedForGood
    <3> QED BY <3>1 DEF CountInv
  <2>2. CASE ~watch.crossed
    BY <1>1, <2>2, CountPoll
  <2> QED BY <2>1, <2>2
<1>2. CASE HandOver \/ Retry \/ Fail \/ Protect
  BY <1>2, OtherFields DEF CountInv, FiresOnProof
<1>3. CASE UNCHANGED vars
  BY <1>3 DEF vars, CountInv, Live
<1> QED
  BY <1>1, <1>2, <1>3, Zenon DEF Next

\* A crossing is remembered only after observations in a row.
THEOREM CrossingsAreConfirmed == Spec => CrossingIsConfirmed
<1>1. Init => CountInv
  BY DEF Init, CountInv
<1>2. TypeOK /\ CountInv /\ [Next]_vars =>
        [~watch.crossed /\ watch'.crossed => past'.run = PollsRequired]_vars
  <2> SUFFICES ASSUME TypeOK, CountInv, Next, ~watch.crossed, watch'.crossed
               PROVE  past'.run = PollsRequired
    OBVIOUS
  <2>1. PICK dt \in Ages, clock \in Clocks : Poll(dt, clock)
    <3>1. ~(HandOver \/ Retry \/ Fail \/ Protect)
      BY OtherFields
    <3> QED BY <3>1, Zenon DEF Next
  <2> QED
    BY <2>1, CountPoll
<1> QED
  BY <1>1, <1>2, CountStep, TypeCorrect, FiringIsProven, PTL
     DEF Spec, CrossingIsConfirmed

=============================================================================
