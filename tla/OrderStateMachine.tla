------------------------- MODULE OrderStateMachine -------------------------
(***************************************************************************)
(* The pure part of src/ap/order_state_machine.py: what one row of the     *)
(* orders table may become.  Every SQL statement that writes a row is an   *)
(* UPDATE whose WHERE clause compares the row with what its caller read    *)
(* earlier, so each is given here as a pair of operators, one for the      *)
(* WHERE clause (the row "matches") and one for the SET clause.  The       *)
(* modules that have several processes share these operators and add the   *)
(* time that passes between a read and the write that relies on it.        *)
(***************************************************************************)
EXTENDS Integers

CONSTANTS
    BrokerIds,   \* identities the broker may give to an order
    NoBroker,    \* an empty or NULL broker_order_id
    Qty          \* contracts ordered by a row

ASSUME BrokerAssumption == NoBroker \notin BrokerIds
ASSUME QtyAssumption == Qty \in Nat \ {0}

-----------------------------------------------------------------------------
(* Statuses and the transition table (class OrderStatus). *)

PreTrade == {"CREATED", "PENDING_TRIGGER"}
EntryActive == PreTrade \cup {"SUBMITTED", "ACKNOWLEDGED", "PARTIAL_FILL"}
ExitActive == {"EXIT_REQUESTED", "EXIT_SUBMITTED", "EXIT_ACKNOWLEDGED",
               "EXIT_PARTIAL_FILL"}
Failures == {"REJECTED", "CANCELED", "EXPIRED", "ERROR"}
Terminal == {"FILLED", "EXIT_FILLED"} \cup Failures
Status == EntryActive \cup ExitActive \cup Terminal

Partial == {"PARTIAL_FILL", "EXIT_PARTIAL_FILL"}
ExitFillStatuses == {"EXIT_PARTIAL_FILL", "EXIT_FILLED"}

Transitions ==
    [s \in Status |->
        CASE s = "CREATED" -> {"PENDING_TRIGGER", "SUBMITTED"} \cup Failures
          [] s = "PENDING_TRIGGER" -> {"SUBMITTED"} \cup Failures
          [] s = "SUBMITTED" ->
                {"ACKNOWLEDGED", "PARTIAL_FILL", "FILLED"} \cup Failures
          [] s = "ACKNOWLEDGED" -> {"PARTIAL_FILL", "FILLED"} \cup Failures
          [] s = "PARTIAL_FILL" -> {"FILLED"} \cup Failures
          [] s = "FILLED" -> {"EXIT_REQUESTED"}
          [] s = "EXIT_REQUESTED" -> {"EXIT_SUBMITTED"} \cup Failures
          [] s = "EXIT_SUBMITTED" ->
                {"EXIT_ACKNOWLEDGED", "EXIT_PARTIAL_FILL", "EXIT_FILLED"}
                    \cup Failures
          [] s = "EXIT_ACKNOWLEDGED" -> ExitFillStatuses \cup Failures
          [] s = "EXIT_PARTIAL_FILL" -> {"EXIT_FILLED"} \cup Failures
          [] OTHER -> {}]

-----------------------------------------------------------------------------
(* A row, reduced to the columns the WHERE clauses and the SET clauses     *)
(* name.  "intent" stands for the keys persist_*_submit_intent write       *)
(* together (submit_intent_at, broker_submit_key, lifecycle_state          *)
(* SUBMITTING, ...), of which the first two are never cleared;             *)
(* "quarantine" is meta.split_brain_quarantine; "error" is last_error with *)
(* its text dropped except for the SPLIT_BRAIN: prefix that is matched on. *)

Errors == {"none", "SPLIT_BRAIN", "other"}

Row == [kind : {"ENTRY", "EXIT"}, status : Status,
        broker : BrokerIds \cup {NoBroker}, submitted : BOOLEAN,
        filled : 0..Qty, intent : BOOLEAN, quarantine : BOOLEAN,
        error : Errors]

NewRow(kind) ==
    [kind |-> kind,
     status |-> IF kind = "ENTRY" THEN "CREATED" ELSE "EXIT_REQUESTED",
     broker |-> NoBroker, submitted |-> FALSE, filled |-> 0,
     intent |-> FALSE, quarantine |-> FALSE, error |-> "none"]

(* The arguments of transition(): a fill of NoFill is filled_qty=None,     *)
(* "timed" a valid broker filled_ts, "stamp" a submitted_ts, "why" a       *)
(* last_error and "owner" allow_submit_owner_terminalization.              *)

NoFill == -1

Request == [new : Status, bid : BrokerIds \cup {NoBroker},
            fill : NoFill..Qty, timed : BOOLEAN, stamp : BOOLEAN,
            why : BOOLEAN, owner : BOOLEAN]

MoveTo(status) ==
    [new |-> status, bid |-> NoBroker, fill |-> NoFill, timed |-> FALSE,
     stamp |-> FALSE, why |-> FALSE, owner |-> FALSE]

-----------------------------------------------------------------------------
(* transition(): the checks made in Python on the row as it was read. *)

FillRegresses(read, req) == req.fill # NoFill /\ req.fill < read.filled

FillTimeMissing(read, req) ==
    /\ req.new \in ExitFillStatuses
    /\ (IF req.fill = NoFill THEN read.filled ELSE req.fill) > 0
    /\ ~req.timed

\* Mutant of Refused: an older, smaller cumulative fill is written as well.
RefusedUntimed(read, req) == FillTimeMissing(read, req)

Refused(read, req) == FillRegresses(read, req) \/ FillTimeMissing(read, req)

AlreadyThere(read, req) ==
    /\ read.status = req.new
    /\ req.new \notin Partial
    /\ req.bid = NoBroker
    /\ ~req.stamp

Legal(read, req) ==
    /\ read.status \notin Terminal
    /\ read.status = req.new \/ req.new \in Transitions[read.status]

-----------------------------------------------------------------------------
(* transition(): the guarded UPDATE, and what a miss is taken for. *)

\* Evidence that a broker submission may own the row (the cleanup fence).
SubmitOwned(row) ==
    \/ row.broker # NoBroker
    \/ row.submitted
    \/ row.intent
    \/ row.quarantine
    \/ row.error = "SPLIT_BRAIN"

Fenced(read, req) ==
    /\ read.kind = "ENTRY"
    /\ read.status \in PreTrade
    /\ req.new \in Terminal
    /\ ~req.owner

\* Mutants of UpdateMatches, each the WHERE clause without one of its parts.
UpdateIgnoresStatus(row, read, req) ==
    /\ req.bid # NoBroker => row.broker \in {NoBroker, req.bid}
    /\ Fenced(read, req) => ~SubmitOwned(row)

UpdateIgnoresIdentity(row, read, req) ==
    /\ row.status = read.status
    /\ Fenced(read, req) => ~SubmitOwned(row)

UpdateIgnoresFence(row, read, req) ==
    /\ row.status = read.status
    /\ req.bid # NoBroker => row.broker \in {NoBroker, req.bid}

UpdateMatches(row, read, req) ==
    /\ row.status = read.status
    /\ req.bid # NoBroker => row.broker \in {NoBroker, req.bid}
    /\ Fenced(read, req) => ~SubmitOwned(row)

\* Mutant of Updated: the cumulative fill is taken for an increment.
UpdatedByIncrement(row, req) ==
    [row EXCEPT !.status = req.new,
                !.broker = IF req.bid = NoBroker THEN @ ELSE req.bid,
                !.filled = IF req.fill = NoFill THEN @ ELSE @ + req.fill,
                !.submitted = @ \/ req.stamp,
                !.error = IF req.why THEN "other" ELSE @]

Updated(row, req) ==
    [row EXCEPT !.status = req.new,
                !.broker = IF req.bid = NoBroker THEN @ ELSE req.bid,
                !.filled = IF req.fill = NoFill THEN @ ELSE req.fill,
                !.submitted = @ \/ req.stamp,
                !.error = IF req.why THEN "other" ELSE @]

\* Mutant of MissAccepted: the identity is not compared.
MissAcceptedOnStatus(row, req) == row.status = req.new

\* A miss counts as success when another worker got there first.
MissAccepted(row, req) ==
    /\ row.status = req.new
    /\ req.bid # NoBroker => row.broker = req.bid

\* _record_error(): ERROR is the one terminal status it still overwrites.
ErrorRecorded(row) ==
    IF row.status \in Terminal \ {"ERROR"} THEN row
    ELSE [row EXCEPT !.error = "other"]

-----------------------------------------------------------------------------
(* The other writers of a row. *)

\* Mutant of IntentMatches: an intent that is already durable is no obstacle.
IntentRepeats(row, status) ==
    /\ row.status = status
    /\ row.status \in PreTrade \cup {"EXIT_REQUESTED"}
    /\ row.broker = NoBroker
    /\ ~row.submitted
    /\ ~row.quarantine
    /\ row.kind = "ENTRY" => row.error # "SPLIT_BRAIN"

\* persist_entry_submit_intent() and persist_exit_submit_intent().
IntentMatches(row, status) ==
    /\ row.status = status
    /\ row.status \in PreTrade \cup {"EXIT_REQUESTED"}
    /\ row.broker = NoBroker
    /\ ~row.submitted
    /\ ~row.intent
    /\ ~row.quarantine
    /\ row.kind = "ENTRY" => row.error # "SPLIT_BRAIN"

IntentPersisted(row) == [row EXCEPT !.intent = TRUE]

\* retire_unsubmitted_exit_intent().
RetireMatches(row) ==
    /\ row.kind = "EXIT"
    /\ row.status = "EXIT_REQUESTED"
    /\ row.broker = NoBroker
    /\ ~row.submitted
    /\ ~row.intent
    /\ ~row.quarantine

Retired(row) == [row EXCEPT !.status = "ERROR", !.error = "other"]

\* Mutant of FlagMatches: a row that has ended is flagged too.
FlagMatchesEnded(row, bid) == row.broker \in {NoBroker, bid}

\* _flag_split_brain_order().
FlagMatches(row, bid) ==
    /\ row.status \in (IF row.kind = "ENTRY" THEN EntryActive ELSE ExitActive)
    /\ row.broker \in {NoBroker, bid}

Flagged(row, bid) ==
    [row EXCEPT !.status = IF @ \in PreTrade THEN "SUBMITTED"
                           ELSE IF @ = "EXIT_REQUESTED" THEN "EXIT_SUBMITTED"
                           ELSE @,
                !.broker = bid,
                !.submitted = TRUE,
                !.quarantine = TRUE,
                !.error = "SPLIT_BRAIN"]

\* Mutant of ResolveMatches: only the last_error marker is looked at.
ResolveByMarker(row, bid) ==
    /\ row.broker = bid
    /\ row.error = "SPLIT_BRAIN"

\* resolve_split_brain_quarantine().
ResolveMatches(row, bid) ==
    /\ row.broker = bid
    /\ row.quarantine \/ row.error = "SPLIT_BRAIN"

Resolved(row) == [row EXCEPT !.quarantine = FALSE, !.error = "other"]

\* _pending_entry_has_submit_or_recovery_owner(), the reading half of the
\* fence that cancel_pending_entry() and expire_pending_entry() apply first.
HasSubmitOwner(row) == row.broker # NoBroker \/ row.submitted \/ row.intent

=============================================================================
