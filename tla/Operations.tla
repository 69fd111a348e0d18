------------------------------ MODULE Operations ------------------------------
(***************************************************************************)
(* The life of a staged operation: from the row a proxy inserts for an      *)
(* agent's write command, through the human's, a rule's or a background     *)
(* loop's decision, to its effect on the upstream mailbox, its audit rows   *)
(* and the rollback of the local mirror.                                    *)
(*                                                                         *)
(* Every `async with get_db(...)` block of the code is one SQLite           *)
(* transaction and one step here; everything between two blocks (an await)  *)
(* is an interleaving point.  A handler is a task with a program counter    *)
(* and the operation it works on:                                           *)
(*                                                                         *)
(*   Requests    API handlers of approve, reject, undo and their batch forms*)
(*   Schedulers  passes of the cool-down loop      (gateway/scheduler.py)   *)
(*   Expirers    passes of the 48 hour expiry loop (gateway/expiry.py)      *)
(*   Stagers     proxy sessions inside create_operation (gateway/staging.py)*)
(*                                                                         *)
(* Requests, Schedulers and Expirers live in the API process, Stagers in    *)
(* the two proxy processes; they share nothing but the database file.       *)
(***************************************************************************)
EXTENDS Naturals

CONSTANTS
    Ops,         \* operation ids
    SmtpOps,     \* those with protocol = 'smtp'; the others are IMAP
    BodylessOps, \* IMAP APPENDs staged without their message
    Requests, Schedulers, Expirers, Stagers,
    NoOp,        \* "no operation in hand"
    MaxFaults    \* bound on crashes and failed database writes

ASSUME OpsAssumption ==
    SmtpOps \subseteq Ops /\ BodylessOps \subseteq Ops \ SmtpOps /\ NoOp \notin Ops
ASSUME TasksAssumption ==
    /\ Requests \cap Schedulers = {} /\ Requests \cap Expirers = {}
    /\ Requests \cap Stagers = {}    /\ Schedulers \cap Expirers = {}
    /\ Schedulers \cap Stagers = {}  /\ Expirers \cap Stagers = {}
ASSUME FaultsAssumption == MaxFaults \in Nat

VARIABLES
    (* columns of staged_operations *)
    status, schedule, overdue,
    (* the owning agent_credentials / users row *)
    agent,
    (* audit_log, by operation *)
    audit,
    (* the local mirror and pending_reverts, by operation *)
    shown, queued,
    (* the mailbox: how often each operation took effect upstream *)
    effects, inverted,
    (* the tasks *)
    pc, cur, todo,
    (* history: operations a handler was cut short on; faults so far *)
    faulted, faults

rowVars  == <<status, schedule, overdue>>
sideVars == <<shown, queued>>
mailVars == <<effects, inverted>>
taskVars == <<pc, cur, todo>>
histVars == <<faulted, faults>>
vars == <<status, schedule, overdue, agent, audit, shown, queued,
          effects, inverted, pc, cur, todo, faulted, faults>>

-----------------------------------------------------------------------------
(* Types *)

Tasks    == Requests \cup Schedulers \cup Expirers \cup Stagers
ApiTasks == Requests \cup Schedulers \cup Expirers
Passes   == Schedulers \cup Expirers

\* "absent" stands for a row that does not exist yet.
Statuses == {"absent", "pending", "approved", "rejected", "executed", "failed",
             "expired", "reverted", "cancelled"}

Events == {"staged", "held", "scheduled", "approved", "rejected", "executed",
           "execution_failed", "send_rate_exceeded", "expired", "reverted"}

ExecutorPcs == {"preflight", "relay", "mark_executed", "audit_executed",
                "mark_failed", "audit_failed", "mark_throttled", "audit_throttled"}
RejectPcs   == {"mark_rejected", "audit_rejected", "restore", "queue"}
UndoPcs     == {"undo_relay", "mark_reverted", "audit_reverted"}
RulePcs     == {"decide", "set_schedule", "audit_scheduled", "audit_held",
                "audit_approved", "reread"}
BusyPcs     == ExecutorPcs \cup RejectPcs \cup UndoPcs \cup RulePcs \cup {"expire", "caught"}
Pcs         == BusyPcs \cup {"idle", "loop"}

\* Every column, counter and label has its type; a task has an operation in hand
\* exactly while it works on one.
TypeOK ==
    /\ status   \in [Ops -> Statuses]
    /\ schedule \in [Ops -> {"none", "waiting", "due"}]
    /\ overdue  \in [Ops -> BOOLEAN]
    /\ agent    \in {"active", "suspended", "revoked"}
    /\ audit    \in [Ops -> SUBSET Events]
    /\ shown    \in [Ops -> BOOLEAN]
    /\ queued   \in [Ops -> BOOLEAN]
    /\ effects  \in [Ops -> Nat]
    /\ inverted \in [Ops -> BOOLEAN]
    /\ pc       \in [Tasks -> Pcs]
    /\ cur      \in [Tasks -> Ops \cup {NoOp}]
    /\ todo     \in [Passes -> SUBSET Ops]
    /\ faulted  \in [Ops -> BOOLEAN]
    /\ faults   \in 0 .. MaxFaults
    /\ \A t \in Tasks : pc[t] \in BusyPcs <=> cur[t] \in Ops

Init ==
    /\ status   = [o \in Ops |-> "absent"]
    /\ schedule = [o \in Ops |-> "none"]
    /\ overdue  = [o \in Ops |-> FALSE]
    /\ agent    = "active"
    /\ audit    = [o \in Ops |-> {}]
    /\ shown    = [o \in Ops |-> FALSE]
    /\ queued   = [o \in Ops |-> FALSE]
    /\ effects  = [o \in Ops |-> 0]
    /\ inverted = [o \in Ops |-> FALSE]
    /\ pc       = [t \in Tasks |-> "idle"]
    /\ cur      = [t \in Tasks |-> NoOp]
    /\ todo     = [t \in Passes |-> {}]
    /\ faulted  = [o \in Ops |-> FALSE]
    /\ faults   = 0

-----------------------------------------------------------------------------
(* Moves of a task *)

\* Where a handler returns to: a pass goes on to the next row it selected.
Home(t) == IF t \in Passes THEN "loop" ELSE "idle"

Begin(t, o, label) ==
    /\ pc'  = [pc EXCEPT ![t] = label]
    /\ cur' = [cur EXCEPT ![t] = o]

Goto(t, from, to) ==
    /\ pc[t] = from
    /\ pc' = [pc EXCEPT ![t] = to]
    /\ UNCHANGED <<cur, todo>>

\* (mutant) a handler that returns without letting go of its row
FinishHolding(t, from) ==
    /\ pc[t] = from
    /\ pc' = [pc EXCEPT ![t] = Home(t)]
    /\ UNCHANGED <<cur, todo>>

Finish(t, from) ==
    /\ pc[t] = from
    /\ pc'  = [pc EXCEPT ![t] = Home(t)]
    /\ cur' = [cur EXCEPT ![t] = NoOp]
    /\ UNCHANGED todo

\* update_operation_status: WHERE id = ?, whatever the status is.
SetStatus(o, s) == status' = [status EXCEPT ![o] = s]

Log(o, e) == audit' = [audit EXCEPT ![o] = @ \cup {e}]

-----------------------------------------------------------------------------
(* Staging and the auto-decision provider *)

\* The row and its 'staged' audit row are one transaction; for an IMAP write
\* the proxy has just applied the optimistic change to the mirror.  A session
\* authenticated before a revocation goes on staging, so agent is not tested.
CreateOperation(t, o) ==
    /\ pc[t] = "idle" /\ status[o] = "absent"
    /\ SetStatus(o, "pending")
    /\ Log(o, "staged")
    /\ shown' = [shown EXCEPT ![o] = o \notin SmtpOps]
    /\ Begin(t, o, "decide")
    /\ UNCHANGED <<schedule, overdue, agent, queued, mailVars, todo, histVars>>

\* run_auto_decision answers: no provider or no match, or one of four actions.
DecideNothing(t) ==
    /\ Finish(t, "decide")
    /\ UNCHANGED <<rowVars, agent, audit, sideVars, mailVars, histVars>>

DecideReject(t) ==
    /\ Goto(t, "decide", "mark_rejected")
    /\ UNCHANGED <<rowVars, agent, audit, sideVars, mailVars, histVars>>

DecideApproveAfter(t) ==
    /\ Goto(t, "decide", "set_schedule")
    /\ UNCHANGED <<rowVars, agent, audit, sideVars, mailVars, histVars>>

DecideHold(t) ==
    /\ Goto(t, "decide", "audit_held")
    /\ UNCHANGED <<rowVars, agent, audit, sideVars, mailVars, histVars>>

DecideApprove(t) ==
    /\ Goto(t, "decide", "audit_approved")
    /\ UNCHANGED <<rowVars, agent, audit, sideVars, mailVars, histVars>>

\* _set_schedule_and_urgency: WHERE id = ?, whatever the status is.
SetSchedule(t) ==
    /\ Goto(t, "set_schedule", "audit_scheduled")
    /\ schedule' = [schedule EXCEPT ![cur[t]] = "waiting"]
    /\ UNCHANGED <<status, overdue, agent, audit, sideVars, mailVars, histVars>>

AuditScheduled(t) ==
    /\ Finish(t, "audit_scheduled")
    /\ Log(cur[t], "scheduled")
    /\ UNCHANGED <<rowVars, agent, sideVars, mailVars, histVars>>

AuditHeld(t) ==
    /\ Finish(t, "audit_held")
    /\ Log(cur[t], "held")
    /\ UNCHANGED <<rowVars, agent, sideVars, mailVars, histVars>>

AuditApproved(t) ==
    /\ Goto(t, "audit_approved", "reread")
    /\ Log(cur[t], "approved")
    /\ UNCHANGED <<rowVars, agent, sideVars, mailVars, histVars>>

\* get_operation before execute_operation: the row is read, its status is not
\* looked at.
RereadOperation(t) ==
    /\ Goto(t, "reread", "preflight")
    /\ UNCHANGED <<rowVars, agent, audit, sideVars, mailVars, histVars>>

-----------------------------------------------------------------------------
(* The API handlers: read the row, check its status, act later *)

StartApprove(t, o) ==
    /\ pc[t] = "idle" /\ status[o] = "pending"
    /\ Begin(t, o, "preflight")
    /\ UNCHANGED <<rowVars, agent, audit, sideVars, mailVars, todo, histVars>>

StartReject(t, o) ==
    /\ pc[t] = "idle" /\ status[o] = "pending"
    /\ Begin(t, o, "mark_rejected")
    /\ UNCHANGED <<rowVars, agent, audit, sideVars, mailVars, todo, histVars>>

StartUndo(t, o) ==
    /\ pc[t] = "idle" /\ status[o] = "executed"
    /\ o \notin SmtpOps \cup BodylessOps
    /\ Begin(t, o, "undo_relay")
    /\ UNCHANGED <<rowVars, agent, audit, sideVars, mailVars, todo, histVars>>

\* _do_reject, and the 'reject' branch of a rule decision.
MarkRejected(t) ==
    /\ Goto(t, "mark_rejected", "audit_rejected")
    /\ SetStatus(cur[t], "rejected")
    /\ UNCHANGED <<schedule, overdue, agent, audit, sideVars, mailVars, histVars>>

AuditRejected(t) ==
    /\ Goto(t, "audit_rejected", "restore")
    /\ Log(cur[t], "rejected")
    /\ UNCHANGED <<rowVars, agent, sideVars, mailVars, histVars>>

\* restore_from_snapshot: the mirror shows the pre-operation state again.
Restore(t) ==
    /\ Goto(t, "restore", "queue")
    /\ shown' = [shown EXCEPT ![cur[t]] = FALSE]
    /\ UNCHANGED <<rowVars, agent, audit, queued, mailVars, histVars>>

\* insert_pending_reverts; there is nothing to insert without a snapshot.
QueueReverts(t) ==
    /\ IF t \in Expirers THEN Goto(t, "queue", "expire") ELSE Finish(t, "queue")
    /\ queued' = [queued EXCEPT ![cur[t]] = @ \/ cur[t] \notin SmtpOps]
    /\ UNCHANGED <<rowVars, agent, audit, shown, mailVars, histVars>>

-----------------------------------------------------------------------------
(* execute_operation, shared by a human approval, a rule and the scheduler *)

\* ExecutionError reaches the caller.  The scheduler catches it and goes on.
Raise(t, from) ==
    /\ pc[t] = from
    /\ pc'  = [pc EXCEPT ![t] = IF t \in Schedulers THEN "caught" ELSE "idle"]
    /\ cur' = [cur EXCEPT ![t] = IF t \in Schedulers THEN @ ELSE NoOp]
    /\ UNCHANGED todo

\* SMTP fails closed before it has touched the row: on a blocked agent, on a
\* missing password, on an envelope without recipients.
PreflightRefuses(t) ==
    /\ cur[t] \in SmtpOps
    /\ Raise(t, "preflight")
    /\ UNCHANGED <<rowVars, agent, audit, sideVars, mailVars, histVars>>

\* IMAP resolves the credential inside its try block: the operation fails.
ImapCredentialFails(t) ==
    /\ cur[t] \notin SmtpOps \cup BodylessOps
    /\ Goto(t, "preflight", "mark_failed")
    /\ UNCHANGED <<rowVars, agent, audit, sideVars, mailVars, histVars>>

\* enforce_send_rate may refuse any SMTP send; SendRate models when.
RateRefuses(t) ==
    /\ cur[t] \in SmtpOps /\ agent = "active"
    /\ Goto(t, "preflight", "mark_throttled")
    /\ UNCHANGED <<rowVars, agent, audit, sideVars, mailVars, histVars>>

\* An APPEND whose message was not kept is a no-op that counts as executed.
SkipRelay(t) ==
    /\ cur[t] \in BodylessOps
    /\ Goto(t, "preflight", "mark_executed")
    /\ UNCHANGED <<rowVars, agent, audit, sideVars, mailVars, histVars>>

PreflightPasses(t) ==
    /\ agent = "active" /\ cur[t] \notin BodylessOps
    /\ Goto(t, "preflight", "relay")
    /\ UNCHANGED <<rowVars, agent, audit, sideVars, mailVars, histVars>>

Effect(t) == effects' = [effects EXCEPT ![cur[t]] = @ + 1]

RelaySucceeds(t) ==
    /\ Goto(t, "relay", "mark_executed")
    /\ Effect(t)
    /\ UNCHANGED <<rowVars, agent, audit, sideVars, inverted, histVars>>

\* (mutant) the relay's exception is swallowed
RelayFailureIgnored(t) ==
    /\ Goto(t, "relay", "mark_executed")
    /\ UNCHANGED <<rowVars, agent, audit, sideVars, mailVars, histVars>>

\* The upstream refused, or acted and the answer was lost.
RelayFails(t) ==
    /\ Goto(t, "relay", "mark_failed")
    /\ Effect(t) \/ UNCHANGED effects
    /\ UNCHANGED <<rowVars, agent, audit, sideVars, inverted, histVars>>

MarkExecuted(t) ==
    /\ Goto(t, "mark_executed", "audit_executed")
    /\ SetStatus(cur[t], "executed")
    /\ UNCHANGED <<schedule, overdue, agent, audit, sideVars, mailVars, histVars>>

AuditExecuted(t) ==
    /\ Finish(t, "audit_executed")
    /\ Log(cur[t], "executed")
    /\ UNCHANGED <<rowVars, agent, sideVars, mailVars, histVars>>

\* (mutant) _record_execution_failure without its audit row
MarkFailedSilently(t) ==
    /\ Raise(t, "mark_failed")
    /\ SetStatus(cur[t], "failed")
    /\ UNCHANGED <<schedule, overdue, agent, audit, sideVars, mailVars, histVars>>

\* (mutant) a failed execution is tried again
MarkFailedAndRetry(t) ==
    /\ Goto(t, "mark_failed", "preflight")
    /\ SetStatus(cur[t], "failed")
    /\ UNCHANGED <<schedule, overdue, agent, audit, sideVars, mailVars, histVars>>

MarkFailed(t) ==
    /\ Goto(t, "mark_failed", "audit_failed")
    /\ SetStatus(cur[t], "failed")
    /\ UNCHANGED <<schedule, overdue, agent, audit, sideVars, mailVars, histVars>>

AuditFailed(t) ==
    /\ Raise(t, "audit_failed")
    /\ Log(cur[t], "execution_failed")
    /\ UNCHANGED <<rowVars, agent, sideVars, mailVars, histVars>>

MarkThrottled(t) ==
    /\ Goto(t, "mark_throttled", "audit_throttled")
    /\ SetStatus(cur[t], "failed")
    /\ UNCHANGED <<schedule, overdue, agent, audit, sideVars, mailVars, histVars>>

AuditThrottled(t) ==
    /\ Raise(t, "audit_throttled")
    /\ Log(cur[t], "send_rate_exceeded")
    /\ UNCHANGED <<rowVars, agent, sideVars, mailVars, histVars>>

-----------------------------------------------------------------------------
(* undo_operation *)

\* A blocked agent, a refusal by the upstream, or an inverse command that ran
\* and whose answer was lost: UndoError, the row untouched.
UndoRefused(t) ==
    /\ Finish(t, "undo_relay")
    /\ \/ UNCHANGED inverted
       \/ agent = "active" /\ inverted' = [inverted EXCEPT ![cur[t]] = TRUE]
    /\ UNCHANGED <<rowVars, agent, audit, sideVars, effects, histVars>>

UndoSucceeds(t) ==
    /\ agent = "active"
    /\ Goto(t, "undo_relay", "mark_reverted")
    /\ inverted' = [inverted EXCEPT ![cur[t]] = TRUE]
    /\ UNCHANGED <<rowVars, agent, audit, sideVars, effects, histVars>>

MarkReverted(t) ==
    /\ Goto(t, "mark_reverted", "audit_reverted")
    /\ SetStatus(cur[t], "reverted")
    /\ UNCHANGED <<schedule, overdue, agent, audit, sideVars, mailVars, histVars>>

AuditReverted(t) ==
    /\ Finish(t, "audit_reverted")
    /\ Log(cur[t], "reverted")
    /\ UNCHANGED <<rowVars, agent, sideVars, mailVars, histVars>>

-----------------------------------------------------------------------------
(* The cool-down loop: select the due rows, then claim and execute each *)

DueOps     == {o \in Ops : status[o] = "pending" /\ schedule[o] = "due"}
\* (mutant) find_expired_pending without status = 'pending'
OverdueWhateverStatus == {o \in Ops : status[o] # "absent" /\ overdue[o]}

OverdueOps == {o \in Ops : status[o] = "pending" /\ overdue[o]}

StartPass(t, rows) ==
    /\ pc[t] = "idle" /\ rows # {}
    /\ pc'   = [pc EXCEPT ![t] = "loop"]
    /\ todo' = [todo EXCEPT ![t] = rows]
    /\ UNCHANGED cur

FindDueScheduled(t) ==
    /\ StartPass(t, DueOps)
    /\ UNCHANGED <<rowVars, agent, audit, sideVars, mailVars, histVars>>

TakeNext(t, o) ==
    /\ pc[t] = "loop" /\ o \in todo[t]
    /\ todo' = [todo EXCEPT ![t] = @ \ {o}]

\* (mutant) _claim without AND status = 'pending'
ClaimUnconditionally(t, o) ==
    /\ TakeNext(t, o)
    /\ SetStatus(o, "approved")
    /\ Begin(t, o, "preflight")
    /\ UNCHANGED <<schedule, overdue, agent, audit, sideVars, mailVars, histVars>>

\* UPDATE ... SET status = 'approved' WHERE id = ? AND status = 'pending'
Claim(t, o) ==
    /\ TakeNext(t, o)
    /\ status[o] = "pending"
    /\ SetStatus(o, "approved")
    /\ Begin(t, o, "preflight")
    /\ UNCHANGED <<schedule, overdue, agent, audit, sideVars, mailVars, histVars>>

ClaimLost(t, o) ==
    /\ TakeNext(t, o)
    /\ status[o] # "pending"
    /\ UNCHANGED <<rowVars, agent, audit, sideVars, mailVars, pc, cur, histVars>>

Caught(t) ==
    /\ Finish(t, "caught")
    /\ UNCHANGED <<rowVars, agent, audit, sideVars, mailVars, histVars>>

EndPass(t) ==
    /\ pc[t] = "loop" /\ todo[t] = {}
    /\ pc' = [pc EXCEPT ![t] = "idle"]
    /\ UNCHANGED <<rowVars, agent, audit, sideVars, mailVars, cur, todo, histVars>>

-----------------------------------------------------------------------------
(* The expiry loop: restore the mirror first, then the conditional update *)

FindExpiredPending(t) ==
    /\ StartPass(t, OverdueOps)
    /\ UNCHANGED <<rowVars, agent, audit, sideVars, mailVars, histVars>>

\* (mutant) _expire_one without step 1
ExpireWithoutRollback(t, o) ==
    /\ TakeNext(t, o)
    /\ Begin(t, o, "expire")
    /\ UNCHANGED <<rowVars, agent, audit, sideVars, mailVars, histVars>>

ExpireNext(t, o) ==
    /\ TakeNext(t, o)
    /\ Begin(t, o, "restore")
    /\ UNCHANGED <<rowVars, agent, audit, sideVars, mailVars, histVars>>

\* (mutant) the UPDATE matches nothing
ExpireNothing(t) ==
    /\ Finish(t, "expire")
    /\ Log(cur[t], "expired")
    /\ UNCHANGED <<rowVars, agent, sideVars, mailVars, histVars>>

\* UPDATE ... WHERE status = 'pending'; the audit row is written either way.
Expire(t) ==
    /\ Finish(t, "expire")
    /\ IF status[cur[t]] = "pending"
         THEN SetStatus(cur[t], "expired")
         ELSE UNCHANGED status
    /\ Log(cur[t], "expired")
    /\ UNCHANGED <<schedule, overdue, agent, sideVars, mailVars, histVars>>

-----------------------------------------------------------------------------
(* The account, the clock and failures *)

Suspend ==
    /\ agent = "active" /\ agent' = "suspended"
    /\ UNCHANGED <<rowVars, audit, sideVars, mailVars, taskVars, histVars>>

Unsuspend ==
    /\ agent = "suspended" /\ agent' = "active"
    /\ UNCHANGED <<rowVars, audit, sideVars, mailVars, taskVars, histVars>>

RevokeAgent ==
    /\ agent # "revoked" /\ agent' = "revoked"
    /\ UNCHANGED <<rowVars, audit, sideVars, mailVars, taskVars, histVars>>

\* One transaction revokes the credentials and cancels what is still pending.
DeleteAccount ==
    /\ agent # "revoked" /\ agent' = "revoked"
    /\ status' = [o \in Ops |-> IF status[o] = "pending" THEN "cancelled" ELSE status[o]]
    /\ UNCHANGED <<schedule, overdue, audit, sideVars, mailVars, taskVars, histVars>>

CoolDownElapses(o) ==
    /\ schedule[o] = "waiting" /\ status[o] = "pending"
    /\ schedule' = [schedule EXCEPT ![o] = "due"]
    /\ UNCHANGED <<status, overdue, agent, audit, sideVars, mailVars, taskVars, histVars>>

DeadlinePasses(o) ==
    /\ ~overdue[o] /\ status[o] = "pending"
    /\ overdue' = [overdue EXCEPT ![o] = TRUE]
    /\ UNCHANGED <<status, schedule, agent, audit, sideVars, mailVars, taskVars, histVars>>

\* A failure is charged to every operation a task of T has in hand.
Charge(T) ==
    /\ faults < MaxFaults /\ faults' = faults + 1
    /\ faulted' = [o \in Ops |-> faulted[o] \/ \E t \in T : cur[t] = o]

\* The tasks in T end where they are; what they had not done stays undone.
Drop(T) ==
    /\ pc'   = [t \in Tasks  |-> IF t \in T THEN "idle" ELSE pc[t]]
    /\ cur'  = [t \in Tasks  |-> IF t \in T THEN NoOp ELSE cur[t]]
    /\ todo' = [t \in Passes |-> IF t \in T THEN {} ELSE todo[t]]

\* A process dies with its handlers half way.
Crash(T) ==
    /\ \E t \in T : pc[t] # "idle"
    /\ Charge(T) /\ Drop(T)
    /\ UNCHANGED <<rowVars, agent, audit, sideVars, mailVars>>

\* A database call of one handler raises.  Only ExecutionError is handled, so
\* a request, a staging or the scheduler's whole pass ends; the expiry loop
\* treats a failed rollback as non-fatal and goes on after a failed row.
Fault(t) ==
    /\ pc[t] \in BusyPcs \ {"relay", "undo_relay", "caught"}
    /\ Charge({t})
    /\ \/ t \notin Expirers /\ Drop({t})
       \/ t \in Expirers /\ Finish(t, "expire")
       \/ t \in Expirers /\ pc[t] \in {"restore", "queue"} /\ Goto(t, pc[t], "expire")
    /\ UNCHANGED <<rowVars, agent, audit, sideVars, mailVars>>

-----------------------------------------------------------------------------
(* The specification *)

Stager(t) ==
    \/ \E o \in Ops : CreateOperation(t, o)
    \/ DecideNothing(t) \/ DecideReject(t) \/ DecideApproveAfter(t)
    \/ DecideHold(t) \/ DecideApprove(t)
    \/ SetSchedule(t) \/ AuditScheduled(t) \/ AuditHeld(t)
    \/ AuditApproved(t) \/ RereadOperation(t)

Request(t) ==
    \E o \in Ops : StartApprove(t, o) \/ StartReject(t, o) \/ StartUndo(t, o)

Scheduler(t) ==
    \/ FindDueScheduled(t)
    \/ \E o \in Ops : Claim(t, o) \/ ClaimLost(t, o)
    \/ Caught(t)

Expirer(t) ==
    \/ FindExpiredPending(t)
    \/ \E o \in Ops : ExpireNext(t, o)
    \/ Expire(t)

Rejecting(t) == MarkRejected(t) \/ AuditRejected(t) \/ Restore(t) \/ QueueReverts(t)

Executing(t) ==
    \/ PreflightRefuses(t) \/ ImapCredentialFails(t) \/ RateRefuses(t) \/ PreflightPasses(t)
    \/ SkipRelay(t)
    \/ RelaySucceeds(t) \/ RelayFails(t)
    \/ MarkExecuted(t) \/ AuditExecuted(t) \/ MarkFailed(t) \/ AuditFailed(t)
    \/ MarkThrottled(t) \/ AuditThrottled(t)

Undoing(t) == UndoRefused(t) \/ UndoSucceeds(t) \/ MarkReverted(t) \/ AuditReverted(t)

Environment ==
    \/ Suspend \/ Unsuspend \/ RevokeAgent \/ DeleteAccount
    \/ \E o \in Ops : CoolDownElapses(o) \/ DeadlinePasses(o)
    \/ Crash(ApiTasks) \/ Crash(Stagers)
    \/ \E t \in Tasks : Fault(t)

Next ==
    \/ \E t \in Stagers : Stager(t)
    \/ \E t \in Requests : Request(t)
    \/ \E t \in Schedulers : Scheduler(t)
    \/ \E t \in Expirers : Expirer(t)
    \/ \E t \in Passes : EndPass(t)
    \/ \E t \in Tasks : Rejecting(t) \/ Executing(t) \/ Undoing(t)
    \/ Environment

Spec == Init /\ [][Next]_vars

\* Event loops run every ready coroutine, both loops poll for ever, and the
\* clock does not stop; a human need never decide anything.
Fairness ==
    /\ \A t \in Stagers : WF_vars(Stager(t) /\ pc[t] # "idle")
    /\ \A t \in Schedulers : WF_vars(Scheduler(t) \/ EndPass(t))
    /\ \A t \in Expirers : WF_vars(Expirer(t) \/ EndPass(t))
    /\ \A t \in Tasks : WF_vars(Rejecting(t) \/ Executing(t) \/ Undoing(t))
    /\ \A o \in Ops : WF_vars(CoolDownElapses(o)) /\ WF_vars(DeadlinePasses(o))

FairSpec == Spec /\ Fairness

-----------------------------------------------------------------------------
(* Properties *)

InHand(o, labels) == {t \in Tasks : cur[t] = o /\ pc[t] \in labels}

\* No handler works on the operation and no pass has it on its list.
Quiet(o) == InHand(o, BusyPcs) = {} /\ \A t \in Passes : o \notin todo[t]

Decided(o) == status[o] \notin {"absent", "pending"}

\* Decided, and nothing but an undo is still working on it.
Settled(o) ==
    /\ Decided(o)
    /\ InHand(o, BusyPcs \ UndoPcs) = {}
    /\ \A t \in Passes : o \notin todo[t]

\* A decision is final.  Once an operation is decided and the handlers that
\* saw it pending have drained, no approval, rejection, cool-down, expiry or
\* account deletion touches it again: not its effect on the mailbox, not the
\* mirror, and its status only by an undo of what took effect.  (The 409 of the
\* API handlers, the WHERE status = 'pending' of both loops and of
\* delete_account.)
SettledIsFinal ==
    [][\A o \in Ops : Settled(o) =>
          /\ Settled(o)'
          /\ effects'[o] = effects[o] /\ shown'[o] = shown[o]
          /\ \/ status'[o] = status[o]
             \/ effects[o] > 0 /\ status'[o] = "reverted"]_vars

\* Two passes of the cool-down loop, which may overlap, never both execute an
\* operation: the conditional UPDATE in _claim lets one of them through.
ClaimIsExclusive ==
    \A s, t \in Schedulers :
        s # t /\ pc[s] \in ExecutorPcs /\ pc[t] \in ExecutorPcs => cur[s] # cur[t]

\* What the approval queue reports is true: an operation shown as executed or
\* reverted, or audited as executed, did happen on the upstream server, and
\* one shown as reverted was undone there.  Except an APPEND whose message was
\* not kept: it is shown as executed and nothing happened.
ExecutedIsTrue ==
    \A o \in Ops \ BodylessOps :
        /\ status[o] \in {"executed", "reverted"} \/ "executed" \in audit[o]
               => effects[o] > 0
        /\ status[o] = "reverted" => inverted[o]

\* The audit rows that account for each final status.
AccountsFor(s) ==
    CASE s = "executed" -> {"executed"}
      [] s = "failed"   -> {"execution_failed", "send_rate_exceeded"}
      [] s = "rejected" -> {"rejected"}
      [] s = "expired"  -> {"expired"}
      [] s = "reverted" -> {"reverted"}
      [] OTHER          -> {"staged"}

\* Status and audit row are two transactions; unless a failure came between,
\* an operation nobody works on has the audit row of its status, and an effect
\* on the mailbox always left the row of an execution, failed or not,
\* whichever handlers raced for the status.
DecisionIsAudited ==
    \A o \in Ops : Quiet(o) /\ ~faulted[o] /\ status[o] # "absent" =>
        /\ audit[o] \cap AccountsFor(status[o]) # {}
        /\ effects[o] > 0 => audit[o] \cap {"executed", "execution_failed"} # {}

\* A refused operation leaves no trace in the agent's mailbox view: the mirror
\* is back to the snapshot and the connected client gets told, whether a
\* human, a rule or the expiry loop refused.
RefusalIsReverted ==
    \A o \in Ops \ SmtpOps :
        status[o] \in {"rejected", "expired"} /\ Quiet(o) /\ ~faulted[o]
            => ~shown[o] /\ queued[o]

\* An operation left approved that nobody executes any more had no effect: a refusal
\* that nothing recorded may be taken for one, whoever else raced for the operation.
\* gateway/scheduler.py:116 catches it and goes on; the row stays.
StrandedIsUnsent ==
    \A o \in Ops : status[o] = "approved" /\ Quiet(o) /\ ~faulted[o] => effects[o] = 0

\* Nothing stays in the approval queue for ever: the expiry loop closes what
\* no human, rule or cool-down has decided, crashes and failed writes notwithstanding.
PendingIsDecided ==
    \A o \in Ops : status[o] = "pending" ~> status[o] # "pending"

(* The promise of the approval queue to the mailbox owner *)

PhaseOf(o) ==
    CASE status[o] = "absent"  -> "absent"
      [] status[o] = "pending" -> "open"
      [] OTHER                 -> "closed"

\* Handlers that saw the operation pending and may yet execute it.
GrantPcs == {"decide", "audit_approved", "reread", "preflight", "relay"}

Promise == INSTANCE ApprovalPromise
    WITH phase  <- [o \in Ops |-> PhaseOf(o)],
         grants <- [o \in Ops |-> InHand(o, GrantPcs)]

\* Every effect on the mailbox spends a permission that a human, a rule or the
\* cool-down loop gave while the operation was still open.
KeepsPromise == Promise!Spec

-----------------------------------------------------------------------------
(* What comments in the code say and the code does not keep to *)

\* gateway/scheduler.py:69 - "a concurrent manual approve/reject ... and this
\* loop can never both execute the same op".
ClaimBarsApproval ==
    \A o \in Ops :
        InHand(o, ExecutorPcs) \cap Schedulers = {} \/ InHand(o, ExecutorPcs) \cap Requests = {}

\* gateway/scheduler.py:117 - "The executor already marked the op 'failed' and
\* wrote an audit row", where the loop catches ExecutionError.
CaughtIsRecorded ==
    \A t \in Schedulers : pc[t] = "caught" =>
        audit[cur[t]] \cap {"execution_failed", "send_rate_exceeded"} # {}

\* gateway/expiry.py:124 - "Safe to call concurrently - the UPDATE WHERE
\* status='pending' is atomic": an operation audited as expired did expire.
ExpiredRowIsTrue ==
    \A o \in Ops : "expired" \in audit[o] => status[o] = "expired"

=============================================================================
