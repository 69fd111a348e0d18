----------------------------- MODULE Retention -----------------------------
(***************************************************************************)
(* How long what a user's agents staged is kept: the body scrubber          *)
(* (gateway/scrubber.py), the deletion of the account                       *)
(* (api/routes/account.py) and the hard purge of gateway/retention.py, with *)
(* the sessions that go on staging meanwhile.  One user, whose secrets are  *)
(* the business of module Credentials.                                      *)
(***************************************************************************)
EXTENDS Naturals, Sequences, FiniteSets, SequencesExt, Filters

CONSTANTS
    Ops,
    Passes,         \* runs of scrub_expired_body_previews
    Limit,          \* _BATCH_SIZE
    MaxFaults       \* bound on transactions that fail

RetentionAssumption == Limit \in Nat \ {0} /\ MaxFaults \in Nat

VARIABLES
    user,           \* "live", "deleted", "past" the window, "gone"
    session,        \* an agent of the user is connected
    status,         \* of each operation; "absent" before it is staged and when purged
    body,           \* the operations whose body is in the row
    scrubbed,       \* body_scrubbed_at is set
    order,          \* the rows by COALESCE(decided_at, created_at)
    old,            \* the rows for which that is _SCRUB_DAYS ago
    trail,          \* audit_log, rows of operations: how often each was scrubbed
    staged,         \* audit_log: the operations with a row 'staged'
    pass,           \* of each pass the rows it has found and not scrubbed yet
    purge,          \* the rows _purge_user has read, or NotRunning
    faults

vars == <<user, session, status, body, scrubbed, order, old, trail, staged, pass, purge, faults>>

NotRunning == Ops \cup {"not running"}
Decided == {"approved", "rejected", "executed", "failed", "expired"}
Statuses == Decided \cup {"absent", "pending", "reverted", "cancelled"}

\* The body is there or the row says when it was scrubbed, never both; the rows
\* that exist are in order of their dates.
TypeOK ==
    /\ user \in {"live", "deleted", "past", "gone"} /\ session \in BOOLEAN
    /\ status \in [Ops -> Statuses]
    /\ body \cup scrubbed \subseteq {o \in Ops : status[o] # "absent"}
    /\ body \cap scrubbed = {} /\ old \subseteq ToSet(order)
    /\ ToSet(order) = {o \in Ops : status[o] # "absent"} /\ IsInjective(order)
    /\ pass \in [Passes -> Seq(Ops)] /\ trail \in [Ops -> 0 .. Cardinality(Passes) + MaxFaults]
    /\ staged \subseteq Ops /\ (purge = NotRunning \/ purge \subseteq Ops)
    /\ faults \in 0 .. MaxFaults

Init ==
    /\ user = "live" /\ session = TRUE
    /\ status = [o \in Ops |-> "absent"]
    /\ body = {} /\ scrubbed = {} /\ order = <<>> /\ old = {}
    /\ trail = [o \in Ops |-> 0] /\ staged = {}
    /\ pass = [p \in Passes |-> <<>>] /\ purge = NotRunning
    /\ faults = 0

Fault == faults < MaxFaults /\ faults' = faults + 1
Without(o) == Filter(order, Ops \ {o})

\* create_operation from the session, which deletion does not close.
Stage(o) ==
    /\ session /\ o \notin staged
    /\ status' = [status EXCEPT ![o] = "pending"] /\ body' = body \cup {o}
    /\ order' = Append(order, o) /\ staged' = staged \cup {o}
    /\ UNCHANGED <<user, session, scrubbed, old, trail, pass, purge, faults>>

SessionEnds ==
    /\ session /\ session' = FALSE
    /\ UNCHANGED <<user, status, body, scrubbed, order, old, trail, staged, pass, purge, faults>>

\* Approval, rejection, execution, failure, expiry: decided_at is now.
Decide(o, s) ==
    /\ status[o] = "pending" \/ (status[o] = "approved" /\ s \in {"executed", "failed"} /\ o \notin old)
    /\ s # status[o] /\ status' = [status EXCEPT ![o] = s]
    /\ order' = Append(Without(o), o) /\ old' = old \ {o}
    /\ UNCHANGED <<user, session, body, scrubbed, trail, staged, pass, purge, faults>>

\* undo_operation: decided_at is now.
Undo(o) ==
    /\ status[o] = "executed" /\ status' = [status EXCEPT ![o] = "reverted"]
    /\ order' = Append(Without(o), o) /\ old' = old \ {o}
    /\ UNCHANGED <<user, session, body, scrubbed, trail, staged, pass, purge, faults>>

\* Seven days pass for the oldest row that is not old yet.
Age(o) ==
    /\ o \in ToSet(order) \ old
    /\ \A i \in DOMAIN order : order[i] = o => \A j \in 1 .. i - 1 : order[j] \in old
    /\ old' = old \cup {o}
    /\ UNCHANGED <<user, session, status, body, scrubbed, order, trail, staged, pass, purge, faults>>

\* (mutant) whatever the status
ScrubableOfAnyStatus == (old \cap body) \ scrubbed
\* find_scrubable_operations
Scrubable == {o \in (old \cap body) \ scrubbed : status[o] \in Decided}

FindScrubable(p) ==
    /\ pass[p] = <<>>
    /\ LET found == Filter(order, Scrubable)
       IN  found # <<>> /\ pass' = [pass EXCEPT ![p] =
               SubSeq(found, 1, IF Len(found) < Limit THEN Len(found) ELSE Limit)]
    /\ UNCHANGED <<user, session, status, body, scrubbed, order, old, trail, staged, purge, faults>>

\* (mutant) append_message is forgotten
ScrubEnvelopeOnly(p) ==
    /\ pass[p] # <<>>
    /\ LET o == Head(pass[p])
       IN  /\ IF status[o] = "absent" THEN UNCHANGED scrubbed ELSE scrubbed' = scrubbed \cup {o}
           /\ trail' = [trail EXCEPT ![o] = @ + 1]
    /\ pass' = [pass EXCEPT ![p] = Tail(@)]
    /\ UNCHANGED <<user, session, status, body, order, old, staged, purge, faults>>

\* _scrub_one: UPDATE WHERE id, if the row is still there, and the event.
ScrubOne(p) ==
    /\ pass[p] # <<>>
    /\ LET o == Head(pass[p])
       IN  /\ IF status[o] = "absent" THEN UNCHANGED <<scrubbed, body>>
              ELSE scrubbed' = scrubbed \cup {o} /\ body' = body \ {o}
           /\ trail' = [trail EXCEPT ![o] = @ + 1]
    /\ pass' = [pass EXCEPT ![p] = Tail(@)]
    /\ UNCHANGED <<user, session, status, order, old, staged, purge, faults>>

\* The row is left for the next pass.
ScrubFails(p) ==
    /\ pass[p] # <<>> /\ Fault
    /\ pass' = [pass EXCEPT ![p] = Tail(@)]
    /\ UNCHANGED <<user, session, status, body, scrubbed, order, old, trail, staged, purge>>

\* delete_account: the pending operations are cancelled, decided_at is now.
DeleteAccount ==
    /\ user = "live" /\ user' = "deleted"
    /\ status' = [o \in Ops |-> IF status[o] = "pending" THEN "cancelled" ELSE status[o]]
    /\ LET pending == {o \in Ops : status[o] = "pending"}
       IN  /\ old' = old \ pending
           /\ order' = Filter(order, Ops \ pending) \o Filter(order, pending)
    /\ UNCHANGED <<session, body, scrubbed, trail, staged, pass, purge, faults>>

\* NUVRAIL_RETENTION_DAYS pass, which are many more than _SCRUB_DAYS.
WindowPasses ==
    /\ user = "deleted" /\ user' = "past"
    /\ UNCHANGED <<session, status, body, scrubbed, order, old, trail, staged, pass, purge, faults>>

\* _purge_user reads the operations first.
PurgeReads ==
    /\ user = "past" /\ purge = NotRunning
    /\ purge' = {o \in Ops : status[o] # "absent"}
    /\ UNCHANGED <<user, session, status, body, scrubbed, order, old, trail, staged, pass, faults>>

\* Then it deletes them, the audit rows that carry the user's id (those of
\* operations carry none), the mirror, the agents and the user.
PurgeDeletes ==
    /\ user = "past" /\ purge # NotRunning
    /\ user' = "gone" /\ purge' = NotRunning
    /\ status' = [o \in Ops |-> IF o \in purge THEN "absent" ELSE status[o]]
    /\ body' = body \ purge /\ scrubbed' = scrubbed \ purge /\ old' = old \ purge
    /\ order' = Filter(order, Ops \ purge)
    /\ UNCHANGED <<session, trail, staged, pass, faults>>

\* Rolled back, for the next pass.
PurgeFails ==
    /\ purge # NotRunning /\ Fault /\ purge' = NotRunning
    /\ UNCHANGED <<user, session, status, body, scrubbed, order, old, trail, staged, pass>>

Pass(p) == FindScrubable(p) \/ ScrubOne(p) \/ ScrubFails(p)
Purge == PurgeReads \/ PurgeDeletes \/ PurgeFails

Next ==
    \/ \E o \in Ops : Stage(o) \/ Undo(o) \/ Age(o) \/ \E s \in Decided : Decide(o, s)
    \/ SessionEnds \/ DeleteAccount \/ WindowPasses \/ Purge
    \/ \E p \in Passes : Pass(p)

Spec == Init /\ [][Next]_vars

\* run_scrubber_loop and run_retention_loop run again and again; time passes.
FairSpec ==
    /\ Spec /\ \A p \in Passes : WF_vars(Pass(p))
    /\ WF_vars(Purge) /\ WF_vars(WindowPasses) /\ \A o \in Ops : WF_vars(Age(o))

-----------------------------------------------------------------------------
(* Properties *)

\* The body of an operation that may still be executed is in its row, however long
\* it waits and whatever scrubs meanwhile (find_scrubable_operations).
PendingKeepsBody == \A o \in Ops : status[o] = "pending" => o \in body

\* No body goes without the event that says so: "scrubbed ... audit-logged"
\* (_scrub_one, SPEC.md section 10).
ScrubIsAudited == \A o \in scrubbed : trail[o] > 0

\* A body of a decided operation is scrubbed or purged in the end, though passes
\* are bounded and fail.
DecidedIsScrubbed ==
    \A o \in Ops : status[o] \in Decided /\ o \in old /\ o \in body ~>
        o \notin body \/ status[o] \notin Decided

(* What comments and docs say and the code does not keep to *)

\* gateway/scrubber.py:134 - "Safe to call concurrently - UPDATE is conditional on
\* body_scrubbed_at IS NULL": a body is scrubbed once.
ScrubbedOnce == \A o \in Ops : trail[o] <= 1

\* SPEC.md:313 - "Message bodies (SMTP + APPEND) scrubbed 7 days after a terminal
\* decision", of a user whose account is live.
TerminalIsScrubbed ==
    \A o \in Ops : o \in old /\ o \in body /\ status[o] = "reverted" ~>
        o \notin body \/ user # "live"

\* gateway/retention.py:132-133 - "after the window nothing about this user remains".
PurgedLeavesNothing ==
    user = "gone" => staged = {} /\ \A o \in Ops : status[o] = "absent"

=============================================================================
