--------------------------- MODULE WatchedSignal ---------------------------
(***************************************************************************)
(* One watch of the entry watcher: WatchedSignal.check() of                *)
(* src/ap_entry_watcher.py, which is called with a fresh quote at every    *)
(* poll, the late-attachment classifier it consults, and what the poll     *)
(* loop does with a watch that has triggered.                              *)
(*                                                                         *)
(* A CALL is triggered by the ask and stopped by the bid, a PUT the other  *)
(* way round.  Prices are ranks on a short ladder: only the order between  *)
(* a quote and the levels of the setup matters, and 0 is a quote that is   *)
(* missing.  Time is the age of the last breach observation, which the     *)
(* wall clock may also turn back; ages over MaxGap are all alike.          *)
(***************************************************************************)
EXTENDS Integers

CONSTANTS
    Setups,    \* the setups that may be watched
    MaxPrice,  \* the highest rank of a price
    MaxGap     \* WATCHER_BREACH_CONTINUITY_MAX_GAP_SEC, in polls

Price == 1..MaxPrice
Optional == 0..MaxPrice

\* "zone" ends the continuation zone, "reset" and "drift" are the trigger
\* less the reset tolerance and plus MAX_INTRADAY_DRIFT_PCT; "broken" is the
\* stop with WRONG_DIR_BUFFER_PCT.  A stop or a target may be absent (0).
Setup == [side : {"CALL", "PUT"}, long : BOOLEAN, trigger : Price,
          zone : Price, drift : Price, reset : Price, stop : Optional,
          broken : Optional, target : Optional]

\* x is at level y or further in the direction of the trade.
Beyond(side, x, y) == IF side = "CALL" THEN x >= y ELSE x =< y

ASSUME SetupsAssumption ==
    /\ Setups \subseteq Setup /\ Setups # {}
    /\ \A s \in Setups : /\ Beyond(s.side, s.zone, s.trigger)
                         /\ Beyond(s.side, s.trigger, s.reset)
                         /\ s.stop > 0 => Beyond(s.side, s.stop, s.broken)
ASSUME BoundsAssumption == MaxPrice \in Nat \ {0} /\ MaxGap \in Nat

VARIABLES
    setup,   \* the setup that is watched
    watch,   \* the fields of WatchedSignal that check() reads and writes
    quote,   \* what the last poll was called with
    past     \* what was observed so far (history, read by no action)

vars == <<setup, watch, quote, past>>

-----------------------------------------------------------------------------
PollsRequired == 2      \* MOMENTUM_POLLS_REQUIRED
Unset == -2             \* no breach observation to continue from
Ages == -1..(MaxGap + 1)
Since == Ages \cup {Unset}

\* Counters are compared with PollsRequired alone, so they stop there.
Count == 0..PollsRequired
BumpForever(n) == n + 1
Bump(n) == IF n < PollsRequired THEN n + 1 ELSE n

Gates == {"open", "awaiting", "within", "waiting"}

States == {"PENDING", "TRIGGERED", "EXPIRED", "INVALIDATED", "HANDED",
           "QUARANTINED"}

Watch == [state : States, attempts : Count, crossed : BOOLEAN,
          breaches : Count, age : Since, gate : Gates, confirms : Count, resets : Count]

Quote == [bid : Optional, ask : Optional]

\* How long the watch has lasted: past MAX_INTRADAY_WATCH_MIN, past expire_at.
Clocks == {"young", "old", "expired"}

\* "run" counts the observations at or past the trigger that follow one
\* another within MaxGap, the last of them "since" ago; "late" is where the
\* price of a late watch was first seen, and "reset" counts the observations
\* in a row that were back before the trigger by the reset tolerance.
Past == [run : Count, since : Since, reset : Count,
         late : {"no", "unseen", "near", "far"}]

TypeOK ==
    /\ setup \in Setups
    /\ watch \in Watch
    /\ quote \in Quote
    /\ past \in Past

\* A crossed pair is no quote at all.
Sane(q) == IF q.ask > 0 /\ q.bid > q.ask THEN [bid |-> 0, ask |-> 0] ELSE q

TriggerSide(q) == IF setup.side = "CALL" THEN q.ask ELSE q.bid
StopSide(q) == IF setup.side = "CALL" THEN q.bid ELSE q.ask

Reaches(x, y) == Beyond(setup.side, x, y)

Known(x) == x > 0
Reached(q) == Known(TriggerSide(q)) /\ Reaches(TriggerSide(q), setup.trigger)
StopUnknown(q) == setup.stop > 0 /\ ~Known(StopSide(q))
StopBroken(q) ==
    setup.stop > 0 /\ Known(StopSide(q)) /\ Reaches(setup.broken, StopSide(q))

\* The mid-price is beyond the intraday drift; twice it, to stay an integer.
Drifted(q) ==
    LET twice == IF Known(q.bid) /\ Known(q.ask) THEN q.bid + q.ask
                 ELSE 2 * (q.bid + q.ask)
    IN  /\ twice > 0
        /\ Reaches(twice, 2 * setup.drift)
        /\ twice # 2 * setup.drift

-----------------------------------------------------------------------------
(* The late-attachment gate: a watch that was armed when the price was     *)
(* already through its trigger.                                            *)

\* The price has not run further than the continuation zone.
WithinDrift(x) == Reaches(setup.drift, x)
Within(x) == Reaches(setup.zone, x)

\* classify_late_attachment(): the first answer that applies.
Classification(w, q) ==
    LET x == TriggerSide(q)
    IN  IF Known(x) /\ setup.target > 0 /\ Reaches(x, setup.target)
          THEN "target_complete"
        ELSE IF ~Known(x) THEN "unknown"
        ELSE IF w.crossed /\ setup.stop > 0 /\ Known(StopSide(q))
                /\ Reaches(setup.stop, StopSide(q)) THEN "stop_broken"
        ELSE IF w.crossed /\ StopUnknown(q) THEN "unknown"
        ELSE IF Reaches(x, setup.drift) /\ x # setup.drift THEN "move_missed"
        ELSE IF ~Reaches(x, setup.trigger) THEN "short"
        ELSE IF Within(x) THEN "within" ELSE "waiting"

\* The watch after the gate, and whether the poll ends there.
Gated(w, q) ==
    LET c == Classification(w, q)
        Stays(v) == [watch |-> v, held |-> TRUE]
        confirms == Bump(w.confirms)
        resets == Bump(w.resets)
        reset == Reaches(setup.reset, TriggerSide(q))
        Passes(v) == [watch |-> v, held |-> FALSE]
    IN  IF w.gate = "open" THEN Passes(w)
        ELSE IF c = "unknown" THEN Stays(w)
        ELSE IF c \in {"stop_broken", "target_complete", "move_missed"}
          THEN Stays([w EXCEPT !.state = "INVALIDATED", !.breaches = 0])
        ELSE CASE w.gate = "awaiting" /\ c = "within" ->
                    Stays([w EXCEPT !.gate = "within", !.confirms = 0])
               [] w.gate = "awaiting" /\ c = "waiting" ->
                    Stays([w EXCEPT !.gate = "waiting", !.resets = 0])
               [] w.gate = "awaiting" /\ c = "short" ->
                    Stays([w EXCEPT !.gate = "open"])
               [] w.gate = "within" /\ c = "within" /\ confirms = PollsRequired ->
                    Passes([w EXCEPT !.gate = "open", !.confirms = confirms])
               [] w.gate = "within" /\ c = "within" /\ confirms # PollsRequired ->
                    Stays([w EXCEPT !.confirms = confirms])
               [] w.gate = "within" /\ c = "waiting" ->
                    Stays([w EXCEPT !.gate = "waiting", !.confirms = 0,
                                    !.resets = 0])
               [] w.gate = "within" /\ c = "short" -> Stays(w)
               [] w.gate = "waiting" /\ reset /\ resets = PollsRequired ->
                    Stays([w EXCEPT !.gate = "open", !.resets = 0,
                                    !.breaches = 0])
               [] w.gate = "waiting" /\ reset /\ resets # PollsRequired ->
                    Stays([w EXCEPT !.resets = resets])
               [] OTHER -> Stays([w EXCEPT !.resets = 0])

-----------------------------------------------------------------------------
(* check() *)

Aged(age, dt) ==
    IF age = Unset THEN Unset
    ELSE IF age + dt > MaxGap THEN MaxGap + 1
    ELSE IF age + dt < 0 THEN -1 ELSE age + dt

Fresh(age) == age \in 0..MaxGap

NoStreak(w) == [w EXCEPT !.breaches = 0, !.age = Unset]

\* A poll without the triggering side of the quote neither continues a
\* streak nor ends one that is still fresh.
Kept(w, q) ==
    IF Known(TriggerSide(q)) \/ w.crossed THEN w
    ELSE IF w.breaches = 0 THEN [w EXCEPT !.age = Unset]
    ELSE IF Fresh(w.age) THEN w ELSE NoStreak(w)

\* A streak is given up when its last observation is too long ago.
NeverStale(w) == FALSE
Stale(w) == ~w.crossed /\ w.breaches > 0 /\ ~Fresh(w.age)

\* The breach count; a confirmed crossing is remembered for good.
Breached(w, q) ==
    LET breaches == Bump(IF Stale(w) THEN 0 ELSE w.breaches)
        confirmed == breaches = PollsRequired
    IN  IF ~Known(TriggerSide(q)) \/ (w.crossed /\ StopUnknown(q)) THEN w
        ELSE IF ~Reached(q) THEN NoStreak(w)
        ELSE [w EXCEPT !.breaches = breaches, !.age = 0,
                       !.crossed = w.crossed \/ confirmed,
                       !.state = IF confirmed THEN "TRIGGERED" ELSE @]

\* The stop is dormant until the crossing is confirmed, and wins over a
\* trigger that is confirmed by the same poll.
StoppedOnCollision(w, q) ==
    IF w.state = "TRIGGERED" /\ StopBroken(q)
      THEN [w EXCEPT !.state = "INVALIDATED", !.breaches = 0]
      ELSE w
Stopped(w, q) ==
    IF w.crossed /\ StopBroken(q)
      THEN [w EXCEPT !.state = "INVALIDATED", !.breaches = 0]
      ELSE w

\* A trigger whose stop side is unknown is not reported.
NeverWithheld(w, q) == w
Withheld(w, q) ==
    IF w.state = "TRIGGERED" /\ StopUnknown(q)
      THEN [w EXCEPT !.state = "PENDING"]
      ELSE w

Checked(w, q, clock) ==
    LET gated == Gated(Kept(w, q), q)
    IN  IF clock = "expired" \/ (~setup.long /\ clock = "old" /\ Drifted(q))
          THEN [w EXCEPT !.state = "EXPIRED"]
        ELSE IF gated.held THEN gated.watch
        ELSE Withheld(Stopped(Breached(gated.watch, q), q), q)

-----------------------------------------------------------------------------
(* History *)

\* A quote that leaves a live stop unknown is not looked at by the late gate.
Observed(p, q, dt) ==
    LET x == TriggerSide(q)
        since == Aged(p.since, dt)
        run == IF Fresh(since) THEN Bump(p.run) ELSE 1
        blind == watch.crossed /\ StopUnknown(q)
        reset == IF Reaches(setup.reset, x) THEN Bump(p.reset) ELSE 0
        late == IF Reaches(setup.zone, x) THEN "near" ELSE "far"
    IN  IF ~Known(x) THEN [p EXCEPT !.since = since]
        ELSE [run |-> IF Reached(q) THEN run ELSE 0,
              since |-> IF Reached(q) THEN 0 ELSE Unset,
              reset |-> IF blind \/ p.reset = PollsRequired THEN p.reset
                        ELSE reset,
              late |-> IF blind \/ p.late # "unseen" THEN p.late ELSE late]

-----------------------------------------------------------------------------
(* Actions *)

\* A watch that is armed, or recovered after a restart: then its crossing may
\* have been persisted.  watch() seeds the gate when the price is through the
\* trigger already, or when it could not be read.
Init ==
    /\ setup \in Setups
    /\ \E crossed \in BOOLEAN, gate \in Gates :
        /\ watch = [state |-> "PENDING", attempts |-> 0, crossed |-> crossed,
                    breaches |-> 0, age |-> Unset, gate |-> gate,
                    confirms |-> 0, resets |-> 0]
        /\ past = [run |-> 0, since |-> Unset, reset |-> 0,
                   late |-> CASE gate = "open" -> "no"
                              [] gate = "awaiting" -> "unseen"
                              [] gate = "within" -> "near"
                              [] gate = "waiting" -> "far"]
    /\ quote = [bid |-> 0, ask |-> 0]

\* A poll, dt after the previous one.
Poll(dt, clock) ==
    /\ watch.state = "PENDING"
    /\ \E q \in Quote : quote' = Sane(q)
    /\ watch' = Checked([watch EXCEPT !.age = Aged(@, dt)], quote', clock)
    /\ past' = Observed(past, quote', dt)
    /\ UNCHANGED setup

\* The callback of a trigger took the watch over.
HandOver ==
    /\ watch.state = "TRIGGERED"
    /\ watch' = [watch EXCEPT !.state = "HANDED", !.attempts = 0]
    /\ UNCHANGED <<setup, quote, past>>

\* The crossing could not be persisted, or the callback asks to be called
\* again later.
Retry ==
    /\ watch.state = "TRIGGERED"
    /\ watch' = [watch EXCEPT !.state = "PENDING"]
    /\ UNCHANGED <<setup, quote, past>>

\* The callback raised; after the third time the order is ended, and when
\* that fails too the watch is kept in quarantine.
Fail ==
    /\ watch.state = "TRIGGERED"
    /\ IF watch.attempts < 2
         THEN watch' = [watch EXCEPT !.state = "PENDING", !.attempts = @ + 1]
         ELSE \E end \in {"EXPIRED", "QUARANTINED"} :
                 watch' = [watch EXCEPT !.state = end]
    /\ UNCHANGED <<setup, quote, past>>

\* Another watch of the ticker has triggered during the open.
Protect ==
    /\ watch.state = "TRIGGERED"
    /\ watch' = [watch EXCEPT !.state = "EXPIRED"]
    /\ UNCHANGED <<setup, quote, past>>

Next ==
    \/ \E dt \in Ages, clock \in Clocks : Poll(dt, clock)
    \/ HandOver \/ Retry \/ Fail \/ Protect

Spec == Init /\ [][Next]_vars

-----------------------------------------------------------------------------
(* Properties *)

\* An entry is reported only on a quote that proves it: the triggering side
\* was read and is at the trigger, and a stop, if there is one, was read
\* from the other side and still holds.  No poll that lacked either side may
\* report one, whatever was counted before.
FiresOnProof ==
    watch.state = "TRIGGERED" =>
        /\ watch.crossed /\ watch.gate = "open"
        /\ Reached(quote)
        /\ ~StopUnknown(quote) /\ ~StopBroken(quote)

\* A crossing is remembered for good (the stop is live from then on), so it
\* takes two observations in a row, neither too far apart nor turned back by
\* the wall clock, with no observation short of the trigger in between.
CrossingIsConfirmed ==
    [][~watch.crossed /\ watch'.crossed => past'.run = PollsRequired]_vars

\* A watch that was armed after the move has begun does not chase it: when
\* the price was first seen beyond the continuation zone it must have come
\* back before the trigger, twice in a row, before an entry is reported.
LateMoveNotChased ==
    watch.state = "TRIGGERED" =>
        past.late # "unseen" /\ (past.late = "far" => past.reset = PollsRequired)

\* Once the trigger was crossed, a poll that reads the stop as broken ends
\* the watch, except that a late watch is not looked at while the triggering
\* side of the quote is missing.
StopIsLive ==
    [][/\ watch.state = "PENDING" /\ watch'.crossed /\ StopBroken(quote')
       /\ watch.gate = "open" \/ Known(TriggerSide(quote'))
       => watch'.state \in {"INVALIDATED", "EXPIRED"}]_vars

=============================================================================
