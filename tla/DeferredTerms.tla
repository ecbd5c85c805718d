---------------------------- MODULE DeferredTerms ----------------------------
(***************************************************************************)
(* What the workers of one deferred entry may do to it, whatever they      *)
(* believe: no rows, no owner names, no lifecycle columns, no processes.   *)
(*                                                                         *)
(* The order is worked on in numbered terms.  A worker begins a term by    *)
(* taking the next number, which it can while the order waits, once the    *)
(* claim of the term before has lapsed, or to prove again what could not   *)
(* be proven.  Only workers of the present term release the order, offer   *)
(* it for submission, doubt it, or decide to send it, and from this        *)
(* decision on there are no more terms: the worker that made it sends the  *)
(* order once or not at all, and the order is accepted or ends.            *)
(* DeferredEntry implements it.                                            *)
(***************************************************************************)
EXTENDS Naturals

CONSTANT Workers

VARIABLES
    term,       \* the present term
    stage,      \* where the order is
    worker,     \* the term each worker works under, 0 if it does not
    sending,    \* who has decided to send the order and not done it yet
    sent,       \* how often it was sent
    answer      \* what the broker made of it

Live == {"waiting", "selecting", "lapsed", "ready", "unproven", "sending"}

Init ==
    /\ term = 0
    /\ stage = "waiting"
    /\ worker = [w \in Workers |-> 0]
    /\ sending = {}
    /\ sent = 0
    /\ answer = "none"

\* A worker may stop with its step, and it does when it cannot tell that the
\* step succeeded.
Goes(w, at) == worker' \in {[worker EXCEPT ![w] = at], [worker EXCEPT ![w] = 0]}

Begin(w) ==
    /\ stage \in {"waiting", "lapsed", "unproven"}
    /\ term' = term + 1
    /\ stage' = IF stage = "unproven" THEN "ready" ELSE "selecting"
    /\ Goes(w, term + 1)
    /\ UNCHANGED <<sending, sent, answer>>

Lapse ==
    /\ stage = "selecting"
    /\ stage' = "lapsed"
    /\ UNCHANGED <<term, worker, sending, sent, answer>>

\* Another worker takes part in the submission of what is ready.
Join(w) ==
    /\ stage = "ready"
    /\ worker' = [worker EXCEPT ![w] = term]
    /\ UNCHANGED <<term, stage, sending, sent, answer>>

Advance(w, from, to) ==
    /\ worker[w] = term
    /\ stage \in from
    /\ stage' = to
    /\ Goes(w, term)
    /\ UNCHANGED <<term, sent, answer>>

Release(w) == Advance(w, {"selecting", "lapsed"}, "waiting") /\ UNCHANGED sending
Offer(w) == Advance(w, {"selecting", "lapsed"}, "ready") /\ UNCHANGED sending
Doubt(w) == Advance(w, {"ready"}, "unproven") /\ UNCHANGED sending
Decide(w) == Advance(w, {"ready"}, "sending") /\ sending' \in {{w}, {}}

Send(w) ==
    /\ w \in sending
    /\ sending' = sending \ {w}
    /\ sent' = sent + 1
    /\ answer' \in {"accepted", "rejected"}
    /\ Goes(w, worker[w])
    /\ UNCHANGED <<term, stage>>

Accept(w) ==
    /\ stage = "sending"
    /\ answer = "accepted"
    /\ stage' = "submitted"
    /\ Goes(w, worker[w])
    /\ UNCHANGED <<term, sending, sent, answer>>

\* An order may end at any time, and by anyone: it is too old, its setup is
\* gone, a gate refuses it, or the broker has rejected it.
End(w) ==
    /\ stage \in Live
    /\ stage' = "ended"
    /\ Goes(w, worker[w])
    /\ UNCHANGED <<term, sending, sent, answer>>

\* Workers stop, or one does not send what it has decided to send.
Stop ==
    /\ UNCHANGED <<term, stage, sent, answer>>
    /\ \E gone \in SUBSET Workers :
          /\ worker' = [w \in Workers |-> IF w \in gone THEN 0 ELSE worker[w]]
          /\ sending' = sending \ gone
Withhold(w) ==
    /\ w \in sending
    /\ sending' = sending \ {w}
    /\ Goes(w, worker[w])
    /\ UNCHANGED <<term, stage, sent, answer>>

Next ==
    \/ Stop
    \/ Lapse
    \/ \E w \in Workers :
          \/ Begin(w) \/ Join(w) \/ Release(w) \/ Offer(w) \/ Doubt(w) \/ Decide(w)
          \/ Send(w) \/ Accept(w) \/ End(w) \/ Withhold(w)

Spec == Init /\ [][Next]_<<term, stage, worker, sending, sent, answer>>

=============================================================================
