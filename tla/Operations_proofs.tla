-------------------------- MODULE Operations_proofs --------------------------
(***************************************************************************)
(* Theorems about Operations, for any number of operations and tasks and    *)
(* any number of failures.  Each rests on a lemma that takes every action   *)
(* in turn; the lemmas have the same shape and number the actions alike.    *)
(***************************************************************************)
EXTENDS Operations, TLAPS

\* The labels a handler works under are exactly those that are not a resting place.
LEMMA Labels ==
    /\ {"idle", "loop"} \subseteq Pcs
    /\ "idle" \notin BusyPcs /\ "loop" \notin BusyPcs
    /\ BusyPcs \subseteq Pcs
    /\ ExecutorPcs \subseteq BusyPcs /\ RejectPcs \subseteq BusyPcs
    /\ UndoPcs \subseteq BusyPcs     /\ RulePcs \subseteq BusyPcs
    /\ {"preflight", "relay", "mark_executed", "audit_executed",
        "mark_failed", "audit_failed", "mark_throttled", "audit_throttled",
        "mark_rejected", "audit_rejected", "restore", "queue",
        "undo_relay", "mark_reverted", "audit_reverted",
        "decide", "set_schedule", "audit_scheduled", "audit_held",
        "audit_approved", "reread", "expire", "caught"} \subseteq BusyPcs
    /\ NoOp \notin Ops
BY OpsAssumption DEF Pcs, BusyPcs, ExecutorPcs, RejectPcs, UndoPcs, RulePcs

\* Every kind of task is a task.
LEMMA InTasks ==
    /\ Requests \subseteq Tasks /\ Schedulers \subseteq Tasks
    /\ Expirers \subseteq Tasks /\ Stagers \subseteq Tasks
    /\ Passes \subseteq Tasks /\ Schedulers \subseteq Passes /\ Expirers \subseteq Passes
BY DEF Tasks, Passes

-----------------------------------------------------------------------------
(* Type correctness *)

\* The type invariant is inductive: each action in turn.
LEMMA StepKeepsTypes ==
    ASSUME TypeOK, [Next]_vars
    PROVE  TypeOK'
<1> USE InTasks, Labels, FaultsAssumption DEF Statuses, Events, Charge
<1> DEFINE Goal == TypeOK'
<1> USE DEF TypeOK,
      rowVars, sideVars, mailVars, taskVars, histVars
<1>1. ASSUME NEW t \in Stagers, \E o \in Ops : CreateOperation(t, o) PROVE Goal
  BY <1>1 DEF CreateOperation, Begin, SetStatus, Log
<1>2. ASSUME NEW t \in Stagers, DecideNothing(t) PROVE Goal
  BY <1>2 DEF DecideNothing, Finish, Home
<1>3. ASSUME NEW t \in Stagers, DecideReject(t) \/ DecideApproveAfter(t) \/ DecideHold(t) \/ DecideApprove(t)
      PROVE  Goal
  BY <1>3 DEF DecideReject, DecideApproveAfter, DecideHold, DecideApprove, Goto
<1>4. ASSUME NEW t \in Stagers, SetSchedule(t) \/ RereadOperation(t) PROVE Goal
  BY <1>4 DEF SetSchedule, RereadOperation, Goto
<1>5. ASSUME NEW t \in Stagers, AuditScheduled(t) \/ AuditHeld(t) PROVE Goal
  BY <1>5 DEF AuditScheduled, AuditHeld, Finish, Home, Log
<1>6. ASSUME NEW t \in Stagers, AuditApproved(t) PROVE Goal
  BY <1>6 DEF AuditApproved, Goto, Log
<1>7. ASSUME NEW t \in Requests, Request(t) PROVE Goal
  BY <1>7 DEF Request, StartApprove, StartReject, StartUndo, Begin
<1>8. ASSUME NEW t \in Tasks, MarkRejected(t) PROVE Goal
  BY <1>8 DEF MarkRejected, Goto, SetStatus
<1>9. ASSUME NEW t \in Tasks, AuditRejected(t) PROVE Goal
  BY <1>9 DEF AuditRejected, Goto, Log
<1>10. ASSUME NEW t \in Tasks, Restore(t) PROVE Goal
  BY <1>10 DEF Restore, Goto
<1>11. ASSUME NEW t \in Tasks, QueueReverts(t) PROVE Goal
  BY <1>11 DEF QueueReverts, Goto, Finish, Home
<1>12. ASSUME NEW t \in Tasks, PreflightRefuses(t) PROVE Goal
  BY <1>12 DEF PreflightRefuses, Raise
<1>13. ASSUME NEW t \in Tasks,
              ImapCredentialFails(t) \/ RateRefuses(t) \/ PreflightPasses(t) \/ SkipRelay(t)
      PROVE  Goal
  BY <1>13 DEF ImapCredentialFails, RateRefuses, PreflightPasses, SkipRelay, Goto
<1>14. ASSUME NEW t \in Tasks, RelaySucceeds(t) PROVE Goal
  BY <1>14 DEF RelaySucceeds, Goto, Effect
<1>15. ASSUME NEW t \in Tasks, RelayFails(t) PROVE Goal
  BY <1>15 DEF RelayFails, Goto, Effect
<1>16. ASSUME NEW t \in Tasks, MarkExecuted(t) \/ MarkFailed(t) \/ MarkThrottled(t) PROVE Goal
  BY <1>16 DEF MarkExecuted, MarkFailed, MarkThrottled, Goto, SetStatus
<1>17. ASSUME NEW t \in Tasks, AuditExecuted(t) PROVE Goal
  BY <1>17 DEF AuditExecuted, Finish, Home, Log
<1>18. ASSUME NEW t \in Tasks, AuditFailed(t) \/ AuditThrottled(t) PROVE Goal
  BY <1>18 DEF AuditFailed, AuditThrottled, Raise, Log
<1>19. ASSUME NEW t \in Tasks, UndoRefused(t) PROVE Goal
  BY <1>19 DEF UndoRefused, Finish, Home
<1>20. ASSUME NEW t \in Tasks, UndoSucceeds(t) PROVE Goal
  BY <1>20 DEF UndoSucceeds, Goto
<1>21. ASSUME NEW t \in Tasks, MarkReverted(t) PROVE Goal
  BY <1>21 DEF MarkReverted, Goto, SetStatus
<1>22. ASSUME NEW t \in Tasks, AuditReverted(t) PROVE Goal
  BY <1>22 DEF AuditReverted, Finish, Home, Log
<1>23. ASSUME NEW t \in Schedulers, FindDueScheduled(t) PROVE Goal
  BY <1>23 DEF FindDueScheduled, StartPass, DueOps
<1>24. ASSUME NEW t \in Schedulers, \E o \in Ops : Claim(t, o) PROVE Goal
  BY <1>24 DEF Claim, TakeNext, Begin, SetStatus
<1>25. ASSUME NEW t \in Schedulers, \E o \in Ops : ClaimLost(t, o) PROVE Goal
  BY <1>25 DEF ClaimLost, TakeNext
<1>26. ASSUME NEW t \in Schedulers, Caught(t) PROVE Goal
  BY <1>26 DEF Caught, Finish, Home
<1>27. ASSUME NEW t \in Expirers, FindExpiredPending(t) PROVE Goal
  BY <1>27 DEF FindExpiredPending, StartPass, OverdueOps
<1>28. ASSUME NEW t \in Expirers, \E o \in Ops : ExpireNext(t, o) PROVE Goal
  BY <1>28 DEF ExpireNext, TakeNext, Begin
<1>29. ASSUME NEW t \in Expirers, Expire(t) PROVE Goal
  BY <1>29 DEF Expire, Finish, Home, SetStatus, Log
<1>30. ASSUME NEW t \in Passes, EndPass(t) PROVE Goal
  BY <1>30 DEF EndPass
<1>31. CASE Suspend \/ Unsuspend \/ RevokeAgent
  BY <1>31 DEF Suspend, Unsuspend, RevokeAgent
<1>32. CASE DeleteAccount
  BY <1>32 DEF DeleteAccount
<1>33. CASE \E o \in Ops : CoolDownElapses(o) \/ DeadlinePasses(o)
  <2>1. ASSUME NEW o \in Ops, CoolDownElapses(o) PROVE Goal
    BY <2>1 DEF CoolDownElapses
  <2>2. ASSUME NEW o \in Ops, DeadlinePasses(o) PROVE Goal
    BY <2>2 DEF DeadlinePasses
  <2> QED BY <1>33, <2>1, <2>2
<1>34. ASSUME NEW T, Crash(T) PROVE Goal
  BY <1>34 DEF Crash, Drop
<1>35. ASSUME NEW t \in Tasks, Fault(t)
      PROVE  Goal
  <2> USE <1>35 DEF Fault, Drop, Finish, Goto, Home
  <2>1. CASE t \notin Expirers /\ Drop({t})
    BY <2>1
  <2>2. CASE t \in Expirers /\ Finish(t, "expire")
    BY <2>2
  <2>3. CASE t \in Expirers /\ pc[t] \in {"restore", "queue"} /\ Goto(t, pc[t], "expire")
    BY <2>3
  <2> QED BY <2>1, <2>2, <2>3
<1>36. CASE UNCHANGED vars
  BY <1>36 DEF vars
<1> QED
  BY <1>1, <1>2, <1>3, <1>4, <1>5, <1>6, <1>7, <1>8, <1>9, <1>10,
     <1>11, <1>12, <1>13, <1>14, <1>15, <1>16, <1>17, <1>18, <1>19,
     <1>20, <1>21, <1>22, <1>23, <1>24, <1>25, <1>26, <1>27, <1>28,
     <1>29, <1>30, <1>31, <1>32, <1>33, <1>34, <1>35, <1>36
  DEF Next, Stager, Rejecting, Executing, Undoing, Scheduler, Expirer, Environment

\* An empty table is well typed.
LEMMA InitHasTypes == Init => TypeOK
BY Labels, FaultsAssumption DEF Init, TypeOK, Statuses

\* Every value of every column, mailbox counter and task stays in its type, and
\* a task has an operation in hand exactly while it works on one.
THEOREM TypeCorrect == Spec => []TypeOK
BY InitHasTypes, StepKeepsTypes, PTL DEF Spec

-----------------------------------------------------------------------------
(* What the queue reports as executed did take effect *)

\* A handler that is about to record an execution or a reversal has done it.
Evidence(t) ==
    /\ pc[t] \in {"mark_executed", "audit_executed"} =>
           effects[cur[t]] > 0 \/ cur[t] \in BodylessOps
    /\ pc[t] \in UndoPcs => effects[cur[t]] > 0 /\ cur[t] \notin BodylessOps
    /\ pc[t] \in {"mark_reverted", "audit_reverted"} => inverted[cur[t]]

\* What a task is about to record about an operation has happened (Evidence), and
\* so what is recorded is true: no action of any task takes that away.
LEMMA StepKeepsEvidence ==
    ASSUME TypeOK, TypeOK', ExecutedIsTrue, \A t \in Tasks : Evidence(t), [Next]_vars
    PROVE  ExecutedIsTrue' /\ \A t \in Tasks : Evidence(t)'
<1> USE InTasks, Labels, OpsAssumption DEF UndoPcs
<1> DEFINE Goal == ExecutedIsTrue' /\ \A t \in Tasks : Evidence(t)'
<1> USE DEF ExecutedIsTrue, Evidence, TypeOK,
      rowVars, sideVars, mailVars, taskVars, histVars
<1>1. ASSUME NEW t \in Stagers, \E o \in Ops : CreateOperation(t, o) PROVE Goal
  BY <1>1 DEF CreateOperation, Begin, SetStatus, Log
<1>2. ASSUME NEW t \in Stagers, DecideNothing(t) PROVE Goal
  BY <1>2 DEF DecideNothing, Finish, Home
<1>3. ASSUME NEW t \in Stagers, DecideReject(t) \/ DecideApproveAfter(t) \/ DecideHold(t) \/ DecideApprove(t)
      PROVE  Goal
  BY <1>3 DEF DecideReject, DecideApproveAfter, DecideHold, DecideApprove, Goto
<1>4. ASSUME NEW t \in Stagers, SetSchedule(t) \/ RereadOperation(t) PROVE Goal
  BY <1>4 DEF SetSchedule, RereadOperation, Goto
<1>5. ASSUME NEW t \in Stagers, AuditScheduled(t) \/ AuditHeld(t) PROVE Goal
  BY <1>5 DEF AuditScheduled, AuditHeld, Finish, Home, Log
<1>6. ASSUME NEW t \in Stagers, AuditApproved(t) PROVE Goal
  BY <1>6 DEF AuditApproved, Goto, Log
<1>7. ASSUME NEW t \in Requests, Request(t) PROVE Goal
  BY <1>7 DEF Request, StartApprove, StartReject, StartUndo, Begin
<1>8. ASSUME NEW t \in Tasks, MarkRejected(t) PROVE Goal
  BY <1>8 DEF MarkRejected, Goto, SetStatus
<1>9. ASSUME NEW t \in Tasks, AuditRejected(t) PROVE Goal
  BY <1>9 DEF AuditRejected, Goto, Log
<1>10. ASSUME NEW t \in Tasks, Restore(t) PROVE Goal
  BY <1>10 DEF Restore, Goto
<1>11. ASSUME NEW t \in Tasks, QueueReverts(t) PROVE Goal
  BY <1>11 DEF QueueReverts, Goto, Finish, Home
<1>12. ASSUME NEW t \in Tasks, PreflightRefuses(t) PROVE Goal
  BY <1>12 DEF PreflightRefuses, Raise
<1>13. ASSUME NEW t \in Tasks,
              ImapCredentialFails(t) \/ RateRefuses(t) \/ PreflightPasses(t) \/ SkipRelay(t)
      PROVE  Goal
  BY <1>13 DEF ImapCredentialFails, RateRefuses, PreflightPasses, SkipRelay, Goto
<1>14. ASSUME NEW t \in Tasks, RelaySucceeds(t) PROVE Goal
  BY <1>14 DEF RelaySucceeds, Goto, Effect
<1>15. ASSUME NEW t \in Tasks, RelayFails(t) PROVE Goal
  BY <1>15 DEF RelayFails, Goto, Effect
<1>16. ASSUME NEW t \in Tasks, MarkExecuted(t) \/ MarkFailed(t) \/ MarkThrottled(t) PROVE Goal
  BY <1>16 DEF MarkExecuted, MarkFailed, MarkThrottled, Goto, SetStatus
<1>17. ASSUME NEW t \in Tasks, AuditExecuted(t) PROVE Goal
  BY <1>17 DEF AuditExecuted, Finish, Home, Log
<1>18. ASSUME NEW t \in Tasks, AuditFailed(t) \/ AuditThrottled(t) PROVE Goal
  BY <1>18 DEF AuditFailed, AuditThrottled, Raise, Log
<1>19. ASSUME NEW t \in Tasks, UndoRefused(t) PROVE Goal
  BY <1>19 DEF UndoRefused, Finish, Home
<1>20. ASSUME NEW t \in Tasks, UndoSucceeds(t) PROVE Goal
  BY <1>20 DEF UndoSucceeds, Goto
<1>21. ASSUME NEW t \in Tasks, MarkReverted(t) PROVE Goal
  BY <1>21 DEF MarkReverted, Goto, SetStatus
<1>22. ASSUME NEW t \in Tasks, AuditReverted(t) PROVE Goal
  BY <1>22 DEF AuditReverted, Finish, Home, Log
<1>23. ASSUME NEW t \in Schedulers, FindDueScheduled(t) PROVE Goal
  BY <1>23 DEF FindDueScheduled, StartPass, DueOps
<1>24. ASSUME NEW t \in Schedulers, \E o \in Ops : Claim(t, o) PROVE Goal
  BY <1>24 DEF Claim, TakeNext, Begin, SetStatus
<1>25. ASSUME NEW t \in Schedulers, \E o \in Ops : ClaimLost(t, o) PROVE Goal
  BY <1>25 DEF ClaimLost, TakeNext
<1>26. ASSUME NEW t \in Schedulers, Caught(t) PROVE Goal
  BY <1>26 DEF Caught, Finish, Home
<1>27. ASSUME NEW t \in Expirers, FindExpiredPending(t) PROVE Goal
  BY <1>27 DEF FindExpiredPending, StartPass, OverdueOps
<1>28. ASSUME NEW t \in Expirers, \E o \in Ops : ExpireNext(t, o) PROVE Goal
  BY <1>28 DEF ExpireNext, TakeNext, Begin
<1>29. ASSUME NEW t \in Expirers, Expire(t) PROVE Goal
  BY <1>29 DEF Expire, Finish, Home, SetStatus, Log
<1>30. ASSUME NEW t \in Passes, EndPass(t) PROVE Goal
  BY <1>30 DEF EndPass
<1>31. CASE Suspend \/ Unsuspend \/ RevokeAgent
  BY <1>31 DEF Suspend, Unsuspend, RevokeAgent
<1>32. CASE DeleteAccount
  BY <1>32 DEF DeleteAccount
<1>33. CASE \E o \in Ops : CoolDownElapses(o) \/ DeadlinePasses(o)
  BY <1>33 DEF CoolDownElapses, DeadlinePasses
<1>34. ASSUME NEW T, Crash(T) PROVE Goal
  BY <1>34 DEF Crash, Drop
<1>35. ASSUME NEW t \in Tasks, Fault(t)
      PROVE  Goal
  <2> USE <1>35 DEF Fault, Drop, Finish, Goto, Home
  <2>1. CASE t \notin Expirers /\ Drop({t})
    BY <2>1
  <2>2. CASE t \in Expirers /\ Finish(t, "expire")
    BY <2>2
  <2>3. CASE t \in Expirers /\ pc[t] \in {"restore", "queue"} /\ Goto(t, pc[t], "expire")
    BY <2>3
  <2> QED BY <2>1, <2>2, <2>3
<1>36. CASE UNCHANGED vars
  BY <1>36 DEF vars
<1> QED
  BY <1>1, <1>2, <1>3, <1>4, <1>5, <1>6, <1>7, <1>8, <1>9, <1>10,
     <1>11, <1>12, <1>13, <1>14, <1>15, <1>16, <1>17, <1>18, <1>19,
     <1>20, <1>21, <1>22, <1>23, <1>24, <1>25, <1>26, <1>27, <1>28,
     <1>29, <1>30, <1>31, <1>32, <1>33, <1>34, <1>35, <1>36
  DEF Next, Stager, Rejecting, Executing, Undoing, Scheduler, Expirer, Environment

EvidenceInv == TypeOK /\ ExecutedIsTrue /\ \A t \in Tasks : Evidence(t)

\* The inductive invariant behind the two theorems about executed operations.
LEMMA EvidenceAlways == Spec => []EvidenceInv
<1>1. Init => EvidenceInv
  <2> SUFFICES ASSUME Init PROVE EvidenceInv
    OBVIOUS
  <2>1. ExecutedIsTrue /\ \A t \in Tasks : Evidence(t)
    BY DEF Init, ExecutedIsTrue, Evidence, UndoPcs
  <2> QED BY <2>1, InitHasTypes DEF EvidenceInv
<1>2. EvidenceInv /\ [Next]_vars => EvidenceInv'
  BY StepKeepsTypes, StepKeepsEvidence DEF EvidenceInv
<1> QED BY <1>1, <1>2, PTL DEF Spec

\* An operation shown as executed or reverted, or audited as executed, took
\* effect upstream, and one shown as reverted was undone there: for any number
\* of handlers racing for it and any failures between their steps.
THEOREM ExecutedIsTrueAlways == Spec => []ExecutedIsTrue
<1>1. EvidenceInv => ExecutedIsTrue
  BY DEF EvidenceInv
<1> QED BY <1>1, EvidenceAlways, PTL

-----------------------------------------------------------------------------
(* One pass of the cool-down loop at a time executes an operation *)

\* Claimed is decided: nobody can claim it a second time.
ClaimedIsDecided == \A t \in Schedulers : pc[t] \in ExecutorPcs => Decided(cur[t])

\* An operation a pass has claimed is no longer pending, so that the conditional
\* UPDATE of another pass changes nothing.
LEMMA StepKeepsClaims ==
    ASSUME TypeOK, TypeOK', ClaimedIsDecided, ClaimIsExclusive, [Next]_vars
    PROVE  ClaimedIsDecided' /\ ClaimIsExclusive'
<1> USE InTasks, Labels, TasksAssumption DEF ExecutorPcs
<1> DEFINE Goal == ClaimedIsDecided' /\ ClaimIsExclusive'
<1> USE DEF ClaimedIsDecided, ClaimIsExclusive, Decided, TypeOK,
      rowVars, sideVars, mailVars, taskVars, histVars
<1>1. ASSUME NEW t \in Stagers, \E o \in Ops : CreateOperation(t, o) PROVE Goal
  BY <1>1 DEF CreateOperation, Begin, SetStatus, Log
<1>2. ASSUME NEW t \in Stagers, DecideNothing(t) PROVE Goal
  BY <1>2 DEF DecideNothing, Finish, Home
<1>3. ASSUME NEW t \in Stagers, DecideReject(t) \/ DecideApproveAfter(t) \/ DecideHold(t) \/ DecideApprove(t)
      PROVE  Goal
  BY <1>3 DEF DecideReject, DecideApproveAfter, DecideHold, DecideApprove, Goto
<1>4. ASSUME NEW t \in Stagers, SetSchedule(t) \/ RereadOperation(t) PROVE Goal
  BY <1>4 DEF SetSchedule, RereadOperation, Goto
<1>5. ASSUME NEW t \in Stagers, AuditScheduled(t) \/ AuditHeld(t) PROVE Goal
  BY <1>5 DEF AuditScheduled, AuditHeld, Finish, Home, Log
<1>6. ASSUME NEW t \in Stagers, AuditApproved(t) PROVE Goal
  BY <1>6 DEF AuditApproved, Goto, Log
<1>7. ASSUME NEW t \in Requests, Request(t) PROVE Goal
  BY <1>7 DEF Request, StartApprove, StartReject, StartUndo, Begin
<1>8. ASSUME NEW t \in Tasks, MarkRejected(t) PROVE Goal
  BY <1>8 DEF MarkRejected, Goto, SetStatus
<1>9. ASSUME NEW t \in Tasks, AuditRejected(t) PROVE Goal
  BY <1>9 DEF AuditRejected, Goto, Log
<1>10. ASSUME NEW t \in Tasks, Restore(t) PROVE Goal
  BY <1>10 DEF Restore, Goto
<1>11. ASSUME NEW t \in Tasks, QueueReverts(t) PROVE Goal
  BY <1>11 DEF QueueReverts, Goto, Finish, Home
<1>12. ASSUME NEW t \in Tasks, PreflightRefuses(t) PROVE Goal
  BY <1>12 DEF PreflightRefuses, Raise
<1>13. ASSUME NEW t \in Tasks,
              ImapCredentialFails(t) \/ RateRefuses(t) \/ PreflightPasses(t) \/ SkipRelay(t)
      PROVE  Goal
  BY <1>13 DEF ImapCredentialFails, RateRefuses, PreflightPasses, SkipRelay, Goto
<1>14. ASSUME NEW t \in Tasks, RelaySucceeds(t) PROVE Goal
  BY <1>14 DEF RelaySucceeds, Goto, Effect
<1>15. ASSUME NEW t \in Tasks, RelayFails(t) PROVE Goal
  BY <1>15 DEF RelayFails, Goto, Effect
<1>16. ASSUME NEW t \in Tasks, MarkExecuted(t) \/ MarkFailed(t) \/ MarkThrottled(t) PROVE Goal
  BY <1>16 DEF MarkExecuted, MarkFailed, MarkThrottled, Goto, SetStatus
<1>17. ASSUME NEW t \in Tasks, AuditExecuted(t) PROVE Goal
  BY <1>17 DEF AuditExecuted, Finish, Home, Log
<1>18. ASSUME NEW t \in Tasks, AuditFailed(t) \/ AuditThrottled(t) PROVE Goal
  BY <1>18 DEF AuditFailed, AuditThrottled, Raise, Log
<1>19. ASSUME NEW t \in Tasks, UndoRefused(t) PROVE Goal
  BY <1>19 DEF UndoRefused, Finish, Home
<1>20. ASSUME NEW t \in Tasks, UndoSucceeds(t) PROVE Goal
  BY <1>20 DEF UndoSucceeds, Goto
<1>21. ASSUME NEW t \in Tasks, MarkReverted(t) PROVE Goal
  BY <1>21 DEF MarkReverted, Goto, SetStatus
<1>22. ASSUME NEW t \in Tasks, AuditReverted(t) PROVE Goal
  BY <1>22 DEF AuditReverted, Finish, Home, Log
<1>23. ASSUME NEW t \in Schedulers, FindDueScheduled(t) PROVE Goal
  BY <1>23 DEF FindDueScheduled, StartPass, DueOps
<1>24. ASSUME NEW t \in Schedulers, \E o \in Ops : Claim(t, o) PROVE Goal
  BY <1>24 DEF Claim, TakeNext, Begin, SetStatus
<1>25. ASSUME NEW t \in Schedulers, \E o \in Ops : ClaimLost(t, o) PROVE Goal
  BY <1>25 DEF ClaimLost, TakeNext
<1>26. ASSUME NEW t \in Schedulers, Caught(t) PROVE Goal
  BY <1>26 DEF Caught, Finish, Home
<1>27. ASSUME NEW t \in Expirers, FindExpiredPending(t) PROVE Goal
  BY <1>27 DEF FindExpiredPending, StartPass, OverdueOps
<1>28. ASSUME NEW t \in Expirers, \E o \in Ops : ExpireNext(t, o) PROVE Goal
  BY <1>28 DEF ExpireNext, TakeNext, Begin
<1>29. ASSUME NEW t \in Expirers, Expire(t) PROVE Goal
  BY <1>29 DEF Expire, Finish, Home, SetStatus, Log
<1>30. ASSUME NEW t \in Passes, EndPass(t) PROVE Goal
  BY <1>30 DEF EndPass
<1>31. CASE Suspend \/ Unsuspend \/ RevokeAgent
  BY <1>31 DEF Suspend, Unsuspend, RevokeAgent
<1>32. CASE DeleteAccount
  BY <1>32 DEF DeleteAccount
<1>33. CASE \E o \in Ops : CoolDownElapses(o) \/ DeadlinePasses(o)
  BY <1>33 DEF CoolDownElapses, DeadlinePasses
<1>34. ASSUME NEW T, Crash(T) PROVE Goal
  BY <1>34 DEF Crash, Drop
<1>35. ASSUME NEW t \in Tasks, Fault(t)
      PROVE  Goal
  <2> USE <1>35 DEF Fault, Drop, Finish, Goto, Home
  <2>1. CASE t \notin Expirers /\ Drop({t})
    BY <2>1
  <2>2. CASE t \in Expirers /\ Finish(t, "expire")
    BY <2>2
  <2>3. CASE t \in Expirers /\ pc[t] \in {"restore", "queue"} /\ Goto(t, pc[t], "expire")
    BY <2>3
  <2> QED BY <2>1, <2>2, <2>3
<1>36. CASE UNCHANGED vars
  BY <1>36 DEF vars
<1> QED
  BY <1>1, <1>2, <1>3, <1>4, <1>5, <1>6, <1>7, <1>8, <1>9, <1>10,
     <1>11, <1>12, <1>13, <1>14, <1>15, <1>16, <1>17, <1>18, <1>19,
     <1>20, <1>21, <1>22, <1>23, <1>24, <1>25, <1>26, <1>27, <1>28,
     <1>29, <1>30, <1>31, <1>32, <1>33, <1>34, <1>35, <1>36
  DEF Next, Stager, Rejecting, Executing, Undoing, Scheduler, Expirer, Environment

\* Two overlapping passes of the cool-down loop never both execute an operation.
THEOREM ClaimIsExclusiveAlways == Spec => []ClaimIsExclusive
<1> DEFINE IInv == TypeOK /\ ClaimedIsDecided /\ ClaimIsExclusive
<1>1. Init => IInv
  <2> SUFFICES ASSUME Init PROVE IInv
    OBVIOUS
  <2>1. ClaimedIsDecided /\ ClaimIsExclusive
    BY InTasks DEF Init, ClaimedIsDecided, ClaimIsExclusive, ExecutorPcs
  <2> QED BY <2>1, InitHasTypes
<1>2. IInv /\ [Next]_vars => IInv'
  BY StepKeepsTypes, StepKeepsClaims
<1> QED BY <1>1, <1>2, PTL DEF Spec

-----------------------------------------------------------------------------
(* A decision is final *)

FinalStep(o) == Settled(o) =>
    /\ Settled(o)'
    /\ effects'[o] = effects[o] /\ shown'[o] = shown[o]
    /\ \/ status'[o] = status[o]
       \/ effects[o] > 0 /\ status'[o] = "reverted"

\* A step leaves a settled operation settled and its effect and mirror alone.
LEMMA StepIsFinal ==
    ASSUME EvidenceInv, TypeOK', [Next]_vars, NEW x \in Ops
    PROVE  FinalStep(x)
<1> USE InTasks, Labels DEF UndoPcs, EvidenceInv
<1> DEFINE Goal == FinalStep(x)
<1> USE DEF FinalStep, Evidence, Settled, Decided, InHand, TypeOK,
      rowVars, sideVars, mailVars, taskVars, histVars
<1>1. ASSUME NEW t \in Stagers, \E o \in Ops : CreateOperation(t, o) PROVE Goal
  BY <1>1 DEF CreateOperation, Begin, SetStatus, Log
<1>2. ASSUME NEW t \in Stagers, DecideNothing(t) PROVE Goal
  BY <1>2 DEF DecideNothing, Finish, Home
<1>3. ASSUME NEW t \in Stagers, DecideReject(t) \/ DecideApproveAfter(t) \/ DecideHold(t) \/ DecideApprove(t)
      PROVE  Goal
  BY <1>3 DEF DecideReject, DecideApproveAfter, DecideHold, DecideApprove, Goto
<1>4. ASSUME NEW t \in Stagers, SetSchedule(t) \/ RereadOperation(t) PROVE Goal
  BY <1>4 DEF SetSchedule, RereadOperation, Goto
<1>5. ASSUME NEW t \in Stagers, AuditScheduled(t) \/ AuditHeld(t) PROVE Goal
  BY <1>5 DEF AuditScheduled, AuditHeld, Finish, Home, Log
<1>6. ASSUME NEW t \in Stagers, AuditApproved(t) PROVE Goal
  BY <1>6 DEF AuditApproved, Goto, Log
<1>7. ASSUME NEW t \in Requests, Request(t) PROVE Goal
  BY <1>7 DEF Request, StartApprove, StartReject, StartUndo, Begin
<1>8. ASSUME NEW t \in Tasks, MarkRejected(t) PROVE Goal
  BY <1>8 DEF MarkRejected, Goto, SetStatus
<1>9. ASSUME NEW t \in Tasks, AuditRejected(t) PROVE Goal
  BY <1>9 DEF AuditRejected, Goto, Log
<1>10. ASSUME NEW t \in Tasks, Restore(t) PROVE Goal
  <2>1. cur[t] = x => ~Settled(x)
    BY <1>10 DEF Restore, Goto
  <2>2. cur[t] # x => shown'[x] = shown[x]
    BY <1>10 DEF Restore, Goto
  <2>3. Settled(x) => Settled(x)'
    BY <1>10 DEF Restore, Goto
  <2> QED BY <1>10, <2>1, <2>2, <2>3 DEF Restore, Goto
<1>11. ASSUME NEW t \in Tasks, QueueReverts(t) PROVE Goal
  BY <1>11 DEF QueueReverts, Goto, Finish, Home
<1>12. ASSUME NEW t \in Tasks, PreflightRefuses(t) PROVE Goal
  BY <1>12 DEF PreflightRefuses, Raise
<1>13. ASSUME NEW t \in Tasks,
              ImapCredentialFails(t) \/ RateRefuses(t) \/ PreflightPasses(t) \/ SkipRelay(t)
      PROVE  Goal
  BY <1>13 DEF ImapCredentialFails, RateRefuses, PreflightPasses, SkipRelay, Goto
<1>14. ASSUME NEW t \in Tasks, RelaySucceeds(t) PROVE Goal
  BY <1>14 DEF RelaySucceeds, Goto, Effect
<1>15. ASSUME NEW t \in Tasks, RelayFails(t) PROVE Goal
  BY <1>15 DEF RelayFails, Goto, Effect
<1>16. ASSUME NEW t \in Tasks, MarkExecuted(t) \/ MarkFailed(t) \/ MarkThrottled(t) PROVE Goal
  BY <1>16 DEF MarkExecuted, MarkFailed, MarkThrottled, Goto, SetStatus
<1>17. ASSUME NEW t \in Tasks, AuditExecuted(t) PROVE Goal
  BY <1>17 DEF AuditExecuted, Finish, Home, Log
<1>18. ASSUME NEW t \in Tasks, AuditFailed(t) \/ AuditThrottled(t) PROVE Goal
  BY <1>18 DEF AuditFailed, AuditThrottled, Raise, Log
<1>19. ASSUME NEW t \in Tasks, UndoRefused(t) PROVE Goal
  BY <1>19 DEF UndoRefused, Finish, Home
<1>20. ASSUME NEW t \in Tasks, UndoSucceeds(t) PROVE Goal
  BY <1>20 DEF UndoSucceeds, Goto
<1>21. ASSUME NEW t \in Tasks, MarkReverted(t) PROVE Goal
  BY <1>21 DEF MarkReverted, Goto, SetStatus
<1>22. ASSUME NEW t \in Tasks, AuditReverted(t) PROVE Goal
  BY <1>22 DEF AuditReverted, Finish, Home, Log
<1>23. ASSUME NEW t \in Schedulers, FindDueScheduled(t) PROVE Goal
  BY <1>23 DEF FindDueScheduled, StartPass, DueOps
<1>24. ASSUME NEW t \in Schedulers, \E o \in Ops : Claim(t, o) PROVE Goal
  BY <1>24 DEF Claim, TakeNext, Begin, SetStatus
<1>25. ASSUME NEW t \in Schedulers, \E o \in Ops : ClaimLost(t, o) PROVE Goal
  BY <1>25 DEF ClaimLost, TakeNext
<1>26. ASSUME NEW t \in Schedulers, Caught(t) PROVE Goal
  BY <1>26 DEF Caught, Finish, Home
<1>27. ASSUME NEW t \in Expirers, FindExpiredPending(t) PROVE Goal
  BY <1>27 DEF FindExpiredPending, StartPass, OverdueOps
<1>28. ASSUME NEW t \in Expirers, \E o \in Ops : ExpireNext(t, o) PROVE Goal
  BY <1>28 DEF ExpireNext, TakeNext, Begin
<1>29. ASSUME NEW t \in Expirers, Expire(t) PROVE Goal
  BY <1>29 DEF Expire, Finish, Home, SetStatus, Log
<1>30. ASSUME NEW t \in Passes, EndPass(t) PROVE Goal
  BY <1>30 DEF EndPass
<1>31. CASE Suspend \/ Unsuspend \/ RevokeAgent
  BY <1>31 DEF Suspend, Unsuspend, RevokeAgent
<1>32. CASE DeleteAccount
  BY <1>32 DEF DeleteAccount
<1>33. CASE \E o \in Ops : CoolDownElapses(o) \/ DeadlinePasses(o)
  BY <1>33 DEF CoolDownElapses, DeadlinePasses
<1>34. ASSUME NEW T, Crash(T) PROVE Goal
  BY <1>34 DEF Crash, Drop
<1>35. ASSUME NEW t \in Tasks, Fault(t)
      PROVE  Goal
  <2> USE <1>35 DEF Fault, Drop, Finish, Goto, Home
  <2>1. CASE t \notin Expirers /\ Drop({t})
    BY <2>1
  <2>2. CASE t \in Expirers /\ Finish(t, "expire")
    BY <2>2
  <2>3. CASE t \in Expirers /\ pc[t] \in {"restore", "queue"} /\ Goto(t, pc[t], "expire")
    BY <2>3
  <2> QED BY <2>1, <2>2, <2>3
<1>36. CASE UNCHANGED vars
  BY <1>36 DEF vars
<1> QED
  BY <1>1, <1>2, <1>3, <1>4, <1>5, <1>6, <1>7, <1>8, <1>9, <1>10,
     <1>11, <1>12, <1>13, <1>14, <1>15, <1>16, <1>17, <1>18, <1>19,
     <1>20, <1>21, <1>22, <1>23, <1>24, <1>25, <1>26, <1>27, <1>28,
     <1>29, <1>30, <1>31, <1>32, <1>33, <1>34, <1>35, <1>36
  DEF Next, Stager, Rejecting, Executing, Undoing, Scheduler, Expirer, Environment

\* Once an operation is decided and the handlers that saw it pending are gone,
\* its effect and the mirror stay as they are, and its status changes only by
\* the undo of something that took effect.
THEOREM SettledIsFinalAlways == Spec => SettledIsFinal
<1>1. EvidenceInv /\ EvidenceInv' /\ [Next]_vars => [\A o \in Ops : FinalStep(o)]_vars
  BY StepIsFinal DEF EvidenceInv
<1>2. (\A o \in Ops : FinalStep(o)) <=>
        (\A o \in Ops : Settled(o) =>
          /\ Settled(o)'
          /\ effects'[o] = effects[o] /\ shown'[o] = shown[o]
          /\ \/ status'[o] = status[o]
             \/ effects[o] > 0 /\ status'[o] = "reverted")
  BY DEF FinalStep
<1> QED BY <1>1, <1>2, EvidenceAlways, PTL DEF Spec, SettledIsFinal

-----------------------------------------------------------------------------
(* Operations implements ApprovalPromise *)

(* What a step does, seen through the mapping *)
SamePhase     == \A o \in Ops : PhaseOf(o)' = PhaseOf(o)
SameGrants    == \A o \in Ops : InHand(o, GrantPcs)' = InHand(o, GrantPcs)
GrantsLose(T) == \A o \in Ops : InHand(o, GrantPcs)' = InHand(o, GrantPcs) \ T
Closes(S)     == \A o \in Ops :
    PhaseOf(o)' = IF o \in S /\ PhaseOf(o) = "open" THEN "closed" ELSE PhaseOf(o)

\* A step that touches no phase, permission or effect is a stutter of the promise.
LEMMA SeenAsStutter ==
    ASSUME SamePhase, SameGrants, effects' = effects
    PROVE  UNCHANGED Promise!vars
BY DEF Promise!vars, SamePhase, SameGrants

\* A step after which the tasks T have no permission is a withdrawal.
LEMMA SeenAsWithdraw ==
    ASSUME NEW T \in SUBSET Tasks, SamePhase, GrantsLose(T), effects' = effects
    PROVE  Promise!Next
<1>1. Promise!Withdraw(T)
  BY DEF Promise!Withdraw, SamePhase, GrantsLose
<1> QED BY <1>1 DEF Promise!Next

\* A step that decides the operations S and gives no permission closes them.
LEMMA SeenAsClose ==
    ASSUME NEW S \in SUBSET Ops, Closes(S), SameGrants, effects' = effects
    PROVE  Promise!Next
<1>1. Promise!Close(S)
  BY DEF Promise!Close, Closes, SameGrants
<1> QED BY <1>1 DEF Promise!Next

\* A handler that leaves the labels of a permission, or was never at one.
LEMMA GotoLoses ==
    ASSUME TypeOK, NEW t \in Tasks, NEW from, NEW to, Goto(t, from, to), to \notin GrantPcs
    PROVE  GrantsLose({t})
BY DEF TypeOK, Goto, GrantsLose, InHand

\* A handler that ends or raises has no permission.
LEMMA RestLoses ==
    ASSUME TypeOK, NEW t \in Tasks, NEW from, Finish(t, from) \/ Raise(t, from)
    PROVE  GrantsLose({t})
BY DEF TypeOK, Finish, Raise, Home, GrantsLose, InHand, GrantPcs

\* A handler that moves between two labels of a permission, or between two others,
\* keeps what it has.
LEMMA GotoKeeps ==
    ASSUME TypeOK, NEW t \in Tasks, NEW from, NEW to, Goto(t, from, to),
           from \in GrantPcs <=> to \in GrantPcs
    PROVE  SameGrants
BY DEF TypeOK, Goto, SameGrants, InHand

\* A handler that ends without ever having had a permission changes none.
LEMMA RestKeeps ==
    ASSUME TypeOK, NEW t \in Tasks, NEW from, Finish(t, from), from \notin GrantPcs
    PROVE  SameGrants
BY DEF TypeOK, Finish, Home, SameGrants, InHand, GrantPcs

\* update_operation_status, with any status but 'pending', closes the operation.
LEMMA SetStatusCloses ==
    ASSUME TypeOK, NEW o \in Ops, NEW new, SetStatus(o, new), new \notin {"absent", "pending"},
           status[o] # "absent"
    PROVE  Closes({o})
BY DEF TypeOK, SetStatus, Closes, PhaseOf

\* Handlers work on rows that exist, and passes list them.
RowsExist ==
    /\ \A t \in Tasks : pc[t] \in BusyPcs => status[cur[t]] # "absent"
    /\ \A t \in Passes : \A o \in todo[t] : status[o] # "absent"

\* Every step of the code is a step of the promise or a stutter.
LEMMA StepKeepsPromise ==
    ASSUME TypeOK, RowsExist, [Next]_vars
    PROVE  [Promise!Next]_(Promise!vars)
<1> USE InTasks, Labels DEF GrantPcs,
        rowVars, sideVars, mailVars, taskVars, histVars
<1> DEFINE Goal == [Promise!Next]_(Promise!vars)
<1>1. ASSUME NEW t \in Stagers, NEW o \in Ops, CreateOperation(t, o) PROVE Goal
  <2>1. Promise!Stage(t, o)
    <3>1. \A x \in Ops : InHand(x, GrantPcs)' = IF x = o THEN {t} ELSE InHand(x, GrantPcs)
      BY <1>1 DEF CreateOperation, Begin, InHand, TypeOK, RowsExist
    <3>2. \A x \in Ops : PhaseOf(x)' = IF x = o THEN "open" ELSE PhaseOf(x)
      BY <1>1 DEF CreateOperation, SetStatus, PhaseOf, TypeOK
    <3>3. PhaseOf(o) = "absent" /\ effects' = effects
      BY <1>1 DEF CreateOperation, PhaseOf
    <3> QED BY <3>1, <3>2, <3>3 DEF Promise!Stage
  <2> QED BY <2>1 DEF Promise!Next
<1>2. ASSUME NEW t \in Stagers,
             DecideNothing(t) \/ AuditScheduled(t) \/ AuditHeld(t)
      PROVE  Goal
  <2>1. SamePhase /\ effects' = effects
    BY <1>2 DEF DecideNothing, AuditScheduled, AuditHeld, SamePhase, PhaseOf
  <2>2. GrantsLose({t})
    BY <1>2, RestLoses DEF DecideNothing, AuditScheduled, AuditHeld
  <2> QED BY <2>1, <2>2, SeenAsWithdraw
<1>3. ASSUME NEW t \in Stagers,
             DecideReject(t) \/ DecideApproveAfter(t) \/ DecideHold(t) \/ SetSchedule(t)
      PROVE  Goal
  <2>1. SamePhase /\ effects' = effects
    BY <1>3 DEF DecideReject, DecideApproveAfter, DecideHold, SetSchedule, SamePhase, PhaseOf
  <2>2. GrantsLose({t})
    BY <1>3, GotoLoses DEF DecideReject, DecideApproveAfter, DecideHold, SetSchedule
  <2> QED BY <2>1, <2>2, SeenAsWithdraw
<1>4. ASSUME NEW t \in Stagers,
             DecideApprove(t) \/ AuditApproved(t) \/ RereadOperation(t)
      PROVE  Goal
  <2>1. SamePhase /\ effects' = effects
    BY <1>4 DEF DecideApprove, AuditApproved, RereadOperation, SamePhase, PhaseOf
  <2>2. SameGrants
    BY <1>4, GotoKeeps DEF DecideApprove, AuditApproved, RereadOperation
  <2> QED BY <2>1, <2>2, SeenAsStutter
<1>5. ASSUME NEW t \in Requests, NEW o \in Ops, StartApprove(t, o) PROVE Goal
  <2>1. Promise!Grant(t, o)
    <3>1. PhaseOf(o) = "open"
      BY <1>5 DEF StartApprove, PhaseOf
    <3>2. \A x \in Ops : InHand(x, GrantPcs)' =
              IF x = o THEN InHand(x, GrantPcs) \cup {t} ELSE InHand(x, GrantPcs)
      BY <1>5 DEF StartApprove, Begin, InHand, TypeOK
    <3>3. SamePhase \/ Closes({o})
      BY <1>5, SetStatusCloses DEF StartApprove, SamePhase, PhaseOf
    <3>4. effects' = effects
      BY <1>5 DEF StartApprove
    <3> QED BY <3>1, <3>2, <3>3, <3>4 DEF Promise!Grant, SamePhase, Closes
  <2> QED BY <2>1 DEF Promise!Next
<1>6. ASSUME NEW t \in Requests, NEW o \in Ops, StartReject(t, o) \/ StartUndo(t, o)
      PROVE  Goal
  <2>1. SamePhase /\ effects' = effects
    BY <1>6 DEF StartReject, StartUndo, SamePhase, PhaseOf
  <2>2. SameGrants
    BY <1>6 DEF StartReject, StartUndo, Begin, SameGrants, InHand, TypeOK
  <2> QED BY <2>1, <2>2, SeenAsStutter
<1>7. ASSUME NEW t \in Tasks,
             AuditRejected(t) \/ Restore(t) \/ QueueReverts(t)
      PROVE  Goal
  <2>1. SamePhase /\ effects' = effects
    BY <1>7 DEF AuditRejected, Restore, QueueReverts, SamePhase, PhaseOf
  <2>2. GrantsLose({t})
    BY <1>7, GotoLoses, RestLoses DEF AuditRejected, Restore, QueueReverts
  <2> QED BY <2>1, <2>2, SeenAsWithdraw
<1>8. ASSUME NEW t \in Tasks,
             PreflightRefuses(t) \/ ImapCredentialFails(t) \/ RateRefuses(t) \/ SkipRelay(t)
      PROVE  Goal
  <2>1. SamePhase /\ effects' = effects
    BY <1>8 DEF PreflightRefuses, ImapCredentialFails, RateRefuses, SkipRelay, SamePhase, PhaseOf
  <2>2. GrantsLose({t})
    BY <1>8, GotoLoses, RestLoses DEF PreflightRefuses, ImapCredentialFails, RateRefuses, SkipRelay
  <2> QED BY <2>1, <2>2, SeenAsWithdraw
<1>9. ASSUME NEW t \in Tasks,
             PreflightPasses(t)
      PROVE  Goal
  <2>1. SamePhase /\ effects' = effects
    BY <1>9 DEF PreflightPasses, SamePhase, PhaseOf
  <2>2. SameGrants
    BY <1>9, GotoKeeps DEF PreflightPasses
  <2> QED BY <2>1, <2>2, SeenAsStutter
<1>10. ASSUME NEW t \in Tasks, RelaySucceeds(t) \/ (RelayFails(t) /\ Effect(t)) PROVE Goal
  <2>1. cur[t] \in Ops /\ t \in InHand(cur[t], GrantPcs)
    BY <1>10 DEF RelaySucceeds, RelayFails, Goto, InHand, TypeOK
  <2>2. \A o \in Ops : InHand(o, GrantPcs)' =
            IF o = cur[t] THEN InHand(o, GrantPcs) \ {t} ELSE InHand(o, GrantPcs)
    BY <1>10 DEF RelaySucceeds, RelayFails, Goto, InHand, TypeOK
  <2>3. SamePhase
    BY <1>10 DEF RelaySucceeds, RelayFails, SamePhase, PhaseOf
  <2>4. effects' = [effects EXCEPT ![cur[t]] = @ + 1]
    BY <1>10 DEF RelaySucceeds, RelayFails, Effect
  <2>5. Promise!Execute(t, cur[t])
    BY <2>1, <2>2, <2>3, <2>4 DEF Promise!Execute, SamePhase
  <2> QED BY <2>1, <2>5 DEF Promise!Next
<1>11. ASSUME NEW t \in Tasks,
             RelayFails(t) /\ UNCHANGED effects
      PROVE  Goal
  <2>1. SamePhase /\ effects' = effects
    BY <1>11 DEF RelayFails, SamePhase, PhaseOf
  <2>2. GrantsLose({t})
    BY <1>11, GotoLoses DEF RelayFails
  <2> QED BY <2>1, <2>2, SeenAsWithdraw
<1>12. ASSUME NEW t \in Tasks,
             MarkExecuted(t) \/ MarkFailed(t) \/ MarkThrottled(t)
      PROVE  Goal
  <2>1. cur[t] \in Ops /\ status[cur[t]] # "absent"
    BY <1>12 DEF MarkExecuted, MarkFailed, MarkThrottled, Goto, Finish, RowsExist, TypeOK
  <2>2. Closes({cur[t]}) /\ effects' = effects
    BY <1>12, <2>1, SetStatusCloses DEF MarkExecuted, MarkFailed, MarkThrottled
  <2>3. SameGrants
    BY <1>12, GotoKeeps DEF MarkExecuted, MarkFailed, MarkThrottled
  <2> QED BY <2>1, <2>2, <2>3, SeenAsClose
<1>13. ASSUME NEW t \in Tasks,
             MarkRejected(t) \/ MarkReverted(t)
      PROVE  Goal
  <2>1. cur[t] \in Ops /\ status[cur[t]] # "absent"
    BY <1>13 DEF MarkRejected, MarkReverted, Goto, Finish, RowsExist, TypeOK
  <2>2. Closes({cur[t]}) /\ effects' = effects
    BY <1>13, <2>1, SetStatusCloses DEF MarkRejected, MarkReverted
  <2>3. SameGrants
    BY <1>13, GotoKeeps DEF MarkRejected, MarkReverted
  <2> QED BY <2>1, <2>2, <2>3, SeenAsClose
<1>14. ASSUME NEW t \in Tasks,
             AuditExecuted(t) \/ AuditFailed(t) \/ AuditThrottled(t)
      PROVE  Goal
  <2>1. SamePhase /\ effects' = effects
    BY <1>14 DEF AuditExecuted, AuditFailed, AuditThrottled, SamePhase, PhaseOf
  <2>2. GrantsLose({t})
    BY <1>14, RestLoses DEF AuditExecuted, AuditFailed, AuditThrottled
  <2> QED BY <2>1, <2>2, SeenAsWithdraw
<1>15. ASSUME NEW t \in Tasks,
             UndoRefused(t) \/ UndoSucceeds(t) \/ AuditReverted(t)
      PROVE  Goal
  <2>1. SamePhase /\ effects' = effects
    BY <1>15 DEF UndoRefused, UndoSucceeds, AuditReverted, SamePhase, PhaseOf
  <2>2. GrantsLose({t})
    BY <1>15, GotoLoses, RestLoses DEF UndoRefused, UndoSucceeds, AuditReverted
  <2> QED BY <2>1, <2>2, SeenAsWithdraw
<1>16. ASSUME NEW t \in Passes,
             FindDueScheduled(t) \/ FindExpiredPending(t) \/ EndPass(t)
      PROVE  Goal
  <2>1. SamePhase /\ effects' = effects
    BY <1>16 DEF FindDueScheduled, FindExpiredPending, EndPass, StartPass, SamePhase, PhaseOf
  <2>2. SameGrants
    BY <1>16 DEF FindDueScheduled, FindExpiredPending, EndPass, StartPass, SameGrants, InHand, TypeOK
  <2> QED BY <2>1, <2>2, SeenAsStutter
<1>17. ASSUME NEW t \in Schedulers, NEW o \in Ops, Claim(t, o) PROVE Goal
  <2>1. Promise!Grant(t, o)
    <3>1. PhaseOf(o) = "open"
      BY <1>17 DEF Claim, TakeNext, PhaseOf
    <3>2. \A x \in Ops : InHand(x, GrantPcs)' =
              IF x = o THEN InHand(x, GrantPcs) \cup {t} ELSE InHand(x, GrantPcs)
      BY <1>17 DEF Claim, TakeNext, Begin, InHand, TypeOK
    <3>3. SamePhase \/ Closes({o})
      BY <1>17, SetStatusCloses DEF Claim, TakeNext, SamePhase, PhaseOf
    <3>4. effects' = effects
      BY <1>17 DEF Claim, TakeNext
    <3> QED BY <3>1, <3>2, <3>3, <3>4 DEF Promise!Grant, SamePhase, Closes
  <2> QED BY <2>1 DEF Promise!Next
<1>18. ASSUME NEW t \in Passes,
             \E o \in Ops : ClaimLost(t, o) \/ ExpireNext(t, o)
      PROVE  Goal
  <2>1. SamePhase /\ effects' = effects
    BY <1>18 DEF ClaimLost, ExpireNext, TakeNext, Begin, SamePhase, PhaseOf
  <2>2. SameGrants
    BY <1>18 DEF ClaimLost, ExpireNext, TakeNext, Begin, SameGrants, InHand, TypeOK
  <2> QED BY <2>1, <2>2, SeenAsStutter
<1>19. ASSUME NEW t \in Schedulers,
             Caught(t)
      PROVE  Goal
  <2>1. SamePhase /\ effects' = effects
    BY <1>19 DEF Caught, SamePhase, PhaseOf
  <2>2. GrantsLose({t})
    BY <1>19, RestLoses DEF Caught
  <2> QED BY <2>1, <2>2, SeenAsWithdraw
<1>20. ASSUME NEW t \in Expirers, Expire(t) PROVE Goal
  <2>1. SameGrants /\ effects' = effects
    BY <1>20, RestKeeps DEF Expire
  <2>2. CASE status[cur[t]] = "pending"
    <3>1. Closes({cur[t]}) /\ cur[t] \in Ops
      BY <1>20, <2>2, SetStatusCloses DEF Expire, Finish, TypeOK
    <3> QED BY <2>1, <3>1, SeenAsClose
  <2>3. CASE status[cur[t]] # "pending"
    BY <1>20, <2>1, <2>3, SeenAsStutter DEF Expire, SamePhase, PhaseOf
  <2> QED BY <2>2, <2>3
<1>21. CASE DeleteAccount
  <2> DEFINE S == {o \in Ops : status[o] = "pending"}
  <2>1. Closes(S) /\ effects' = effects
    BY <1>21 DEF DeleteAccount, Closes, PhaseOf, TypeOK
  <2>2. SameGrants
    BY <1>21 DEF DeleteAccount, SameGrants, InHand
  <2> QED BY <2>1, <2>2, SeenAsClose
<1>22. CASE \/ Suspend \/ Unsuspend \/ RevokeAgent
          \/ \E o \in Ops : CoolDownElapses(o) \/ DeadlinePasses(o)
  <2>1. SamePhase /\ SameGrants /\ effects' = effects
    BY <1>22 DEF Suspend, Unsuspend, RevokeAgent, CoolDownElapses, DeadlinePasses,
              SamePhase, SameGrants, InHand, PhaseOf
  <2> QED BY <2>1, SeenAsStutter
<1>23. ASSUME NEW T, Crash(T) PROVE Goal
  <2>1. SamePhase /\ effects' = effects
    BY <1>23 DEF Crash, SamePhase, PhaseOf
  <2>2. GrantsLose(T \cap Tasks)
    BY <1>23 DEF Crash, Drop, GrantsLose, InHand, GrantPcs, TypeOK
  <2> QED BY <2>1, <2>2, SeenAsWithdraw
<1>24. ASSUME NEW t \in Tasks, Fault(t) PROVE Goal
  <2>1. SamePhase /\ effects' = effects
    BY <1>24 DEF Fault, SamePhase, PhaseOf
  <2>2. GrantsLose({t})
    <3>1. CASE Drop({t})
      BY <3>1 DEF Drop, GrantsLose, InHand, GrantPcs, TypeOK
    <3>2. CASE Finish(t, "expire") \/ Goto(t, pc[t], "expire")
      BY <3>2, GotoLoses, RestLoses
    <3> QED BY <1>24, <3>1, <3>2 DEF Fault
  <2> QED BY <2>1, <2>2, SeenAsWithdraw
<1>25. CASE UNCHANGED vars
  <2>1. SamePhase /\ SameGrants /\ effects' = effects
    BY <1>25 DEF vars, SamePhase, SameGrants, InHand, PhaseOf
  <2> QED BY <2>1, SeenAsStutter
<1> QED
  BY <1>1, <1>2, <1>3, <1>4, <1>5, <1>6, <1>7, <1>8, <1>9, <1>10,
     <1>11, <1>12, <1>13, <1>14, <1>15, <1>16, <1>17, <1>18, <1>19,
     <1>20, <1>21, <1>22, <1>23, <1>24, <1>25
  DEF Next, Stager, Request, Rejecting, Executing, Undoing, Scheduler, Expirer, Environment,
      RelayFails

\* An operation some handler works on has a row.
LEMMA StepKeepsRows ==
    ASSUME TypeOK, TypeOK', RowsExist, [Next]_vars
    PROVE  RowsExist'
<1> USE InTasks, Labels
<1> DEFINE Goal == RowsExist'
<1> USE DEF RowsExist, TypeOK,
      rowVars, sideVars, mailVars, taskVars, histVars
<1>1. ASSUME NEW t \in Stagers, \E o \in Ops : CreateOperation(t, o) PROVE Goal
  BY <1>1 DEF CreateOperation, Begin, SetStatus, Log
<1>2. ASSUME NEW t \in Stagers, DecideNothing(t) PROVE Goal
  BY <1>2 DEF DecideNothing, Finish, Home
<1>3. ASSUME NEW t \in Stagers, DecideReject(t) \/ DecideApproveAfter(t) \/ DecideHold(t) \/ DecideApprove(t)
      PROVE  Goal
  BY <1>3 DEF DecideReject, DecideApproveAfter, DecideHold, DecideApprove, Goto
<1>4. ASSUME NEW t \in Stagers, SetSchedule(t) \/ RereadOperation(t) PROVE Goal
  BY <1>4 DEF SetSchedule, RereadOperation, Goto
<1>5. ASSUME NEW t \in Stagers, AuditScheduled(t) \/ AuditHeld(t) PROVE Goal
  BY <1>5 DEF AuditScheduled, AuditHeld, Finish, Home, Log
<1>6. ASSUME NEW t \in Stagers, AuditApproved(t) PROVE Goal
  BY <1>6 DEF AuditApproved, Goto, Log
<1>7. ASSUME NEW t \in Requests, Request(t) PROVE Goal
  BY <1>7 DEF Request, StartApprove, StartReject, StartUndo, Begin
<1>8. ASSUME NEW t \in Tasks, MarkRejected(t) PROVE Goal
  BY <1>8 DEF MarkRejected, Goto, SetStatus
<1>9. ASSUME NEW t \in Tasks, AuditRejected(t) PROVE Goal
  BY <1>9 DEF AuditRejected, Goto, Log
<1>10. ASSUME NEW t \in Tasks, Restore(t) PROVE Goal
  BY <1>10 DEF Restore, Goto
<1>11. ASSUME NEW t \in Tasks, QueueReverts(t) PROVE Goal
  BY <1>11 DEF QueueReverts, Goto, Finish, Home
<1>12. ASSUME NEW t \in Tasks, PreflightRefuses(t) PROVE Goal
  BY <1>12 DEF PreflightRefuses, Raise
<1>13. ASSUME NEW t \in Tasks,
              ImapCredentialFails(t) \/ RateRefuses(t) \/ PreflightPasses(t) \/ SkipRelay(t)
      PROVE  Goal
  BY <1>13 DEF ImapCredentialFails, RateRefuses, PreflightPasses, SkipRelay, Goto
<1>14. ASSUME NEW t \in Tasks, RelaySucceeds(t) PROVE Goal
  BY <1>14 DEF RelaySucceeds, Goto, Effect
<1>15. ASSUME NEW t \in Tasks, RelayFails(t) PROVE Goal
  BY <1>15 DEF RelayFails, Goto, Effect
<1>16. ASSUME NEW t \in Tasks, MarkExecuted(t) \/ MarkFailed(t) \/ MarkThrottled(t) PROVE Goal
  BY <1>16 DEF MarkExecuted, MarkFailed, MarkThrottled, Goto, SetStatus
<1>17. ASSUME NEW t \in Tasks, AuditExecuted(t) PROVE Goal
  BY <1>17 DEF AuditExecuted, Finish, Home, Log
<1>18. ASSUME NEW t \in Tasks, AuditFailed(t) \/ AuditThrottled(t) PROVE Goal
  BY <1>18 DEF AuditFailed, AuditThrottled, Raise, Log
<1>19. ASSUME NEW t \in Tasks, UndoRefused(t) PROVE Goal
  BY <1>19 DEF UndoRefused, Finish, Home
<1>20. ASSUME NEW t \in Tasks, UndoSucceeds(t) PROVE Goal
  BY <1>20 DEF UndoSucceeds, Goto
<1>21. ASSUME NEW t \in Tasks, MarkReverted(t) PROVE Goal
  BY <1>21 DEF MarkReverted, Goto, SetStatus
<1>22. ASSUME NEW t \in Tasks, AuditReverted(t) PROVE Goal
  BY <1>22 DEF AuditReverted, Finish, Home, Log
<1>23. ASSUME NEW t \in Schedulers, FindDueScheduled(t) PROVE Goal
  BY <1>23 DEF FindDueScheduled, StartPass, DueOps
<1>24. ASSUME NEW t \in Schedulers, \E o \in Ops : Claim(t, o) PROVE Goal
  BY <1>24 DEF Claim, TakeNext, Begin, SetStatus
<1>25. ASSUME NEW t \in Schedulers, \E o \in Ops : ClaimLost(t, o) PROVE Goal
  BY <1>25 DEF ClaimLost, TakeNext
<1>26. ASSUME NEW t \in Schedulers, Caught(t) PROVE Goal
  BY <1>26 DEF Caught, Finish, Home
<1>27. ASSUME NEW t \in Expirers, FindExpiredPending(t) PROVE Goal
  BY <1>27 DEF FindExpiredPending, StartPass, OverdueOps
<1>28. ASSUME NEW t \in Expirers, \E o \in Ops : ExpireNext(t, o) PROVE Goal
  BY <1>28 DEF ExpireNext, TakeNext, Begin
<1>29. ASSUME NEW t \in Expirers, Expire(t) PROVE Goal
  BY <1>29 DEF Expire, Finish, Home, SetStatus, Log
<1>30. ASSUME NEW t \in Passes, EndPass(t) PROVE Goal
  BY <1>30 DEF EndPass
<1>31. CASE Suspend \/ Unsuspend \/ RevokeAgent
  BY <1>31 DEF Suspend, Unsuspend, RevokeAgent
<1>32. CASE DeleteAccount
  BY <1>32 DEF DeleteAccount
<1>33. CASE \E o \in Ops : CoolDownElapses(o) \/ DeadlinePasses(o)
  BY <1>33 DEF CoolDownElapses, DeadlinePasses
<1>34. ASSUME NEW T, Crash(T) PROVE Goal
  BY <1>34 DEF Crash, Drop
<1>35. ASSUME NEW t \in Tasks, Fault(t)
      PROVE  Goal
  <2> USE <1>35 DEF Fault, Drop, Finish, Goto, Home
  <2>1. CASE t \notin Expirers /\ Drop({t})
    BY <2>1
  <2>2. CASE t \in Expirers /\ Finish(t, "expire")
    BY <2>2
  <2>3. CASE t \in Expirers /\ pc[t] \in {"restore", "queue"} /\ Goto(t, pc[t], "expire")
    BY <2>3
  <2> QED BY <2>1, <2>2, <2>3
<1>36. CASE UNCHANGED vars
  BY <1>36 DEF vars
<1> QED
  BY <1>1, <1>2, <1>3, <1>4, <1>5, <1>6, <1>7, <1>8, <1>9, <1>10,
     <1>11, <1>12, <1>13, <1>14, <1>15, <1>16, <1>17, <1>18, <1>19,
     <1>20, <1>21, <1>22, <1>23, <1>24, <1>25, <1>26, <1>27, <1>28,
     <1>29, <1>30, <1>31, <1>32, <1>33, <1>34, <1>35, <1>36
  DEF Next, Stager, Rejecting, Executing, Undoing, Scheduler, Expirer, Environment

\* Every effect on the mailbox spends a permission given while the operation
\* was open, by a human, a rule or the cool-down loop; a closed operation never
\* reopens.  Several permissions may be out at once.
THEOREM PromiseKept == Spec => KeepsPromise
<1> DEFINE IInv == TypeOK /\ RowsExist
<1>1. Init => IInv /\ Promise!Init
  BY InitHasTypes, Labels DEF Init, Promise!Init, InHand, GrantPcs, PhaseOf, RowsExist
<1>2. IInv /\ [Next]_vars => IInv'
  BY StepKeepsTypes, StepKeepsRows
<1>3. IInv /\ [Next]_vars => [Promise!Next]_(Promise!vars)
  BY StepKeepsPromise
<1> QED BY <1>1, <1>2, <1>3, PTL DEF Spec, KeepsPromise, Promise!Spec

-----------------------------------------------------------------------------
(* What is left behind when nobody works on an operation any more, for any *)
(* number of operations, tasks and failures.                               *)

\* A row that does not exist yet is nobody's, and one that does was audited as staged.
Known(o) ==
    /\ status[o] = "absent" =>
           /\ \A t \in Tasks : cur[t] # o
           /\ \A t \in Passes : o \notin todo[t]
    /\ status[o] # "absent" => "staged" \in audit[o]

\* Somebody who has the operation in hand is at one of the labels.
Handled(o, labels) == \E t \in Tasks : cur[t] = o /\ pc[t] \in labels

\* Unless a handler was cut short, whoever has changed the status or the mailbox is yet
\* to write the audit row, or has; and whoever is yet to change the status is at it.
Accounted(o) ==
    faulted[o] = FALSE =>
        /\ status[o] = "executed" => "executed" \in audit[o] \/ Handled(o, {"audit_executed"})
        /\ status[o] = "failed" => \/ "execution_failed" \in audit[o] \/ "send_rate_exceeded" \in audit[o]
                                   \/ Handled(o, {"audit_failed", "audit_throttled"})
        /\ status[o] = "rejected" => "rejected" \in audit[o] \/ Handled(o, {"audit_rejected"})
        /\ status[o] = "reverted" => "reverted" \in audit[o] \/ Handled(o, {"audit_reverted"})
        /\ status[o] = "expired" => "expired" \in audit[o]
        /\ effects[o] > 0 =>
               \/ "executed" \in audit[o] \/ "execution_failed" \in audit[o]
               \/ Handled(o, {"mark_executed", "audit_executed", "mark_failed", "audit_failed"})
        /\ effects[o] > 0 /\ status[o] \in {"absent", "pending", "approved"} =>
               Handled(o, {"mark_executed", "mark_failed"})

\* Unless a handler was cut short, the mirror of a refused operation is restored and its
\* client queued for, or the handler is at it; the expiry loop restores before it expires.
Reverting(t) ==
    cur[t] \in Ops /\ faulted[cur[t]] = FALSE =>
        /\ pc[t] \in {"queue", "expire"} => shown[cur[t]] = FALSE
        /\ pc[t] = "expire" => queued[cur[t]] = TRUE \/ cur[t] \in SmtpOps
Restored(o) ==
    o \notin SmtpOps /\ faulted[o] = FALSE =>
        /\ status[o] = "rejected" =>
               \/ Handled(o, {"audit_rejected", "restore"})
               \/ shown[o] = FALSE /\ (queued[o] = TRUE \/ Handled(o, {"queue"}))
        /\ status[o] = "expired" => shown[o] = FALSE /\ queued[o] = TRUE

\* An operation is nobody's before its row and its first audit row exist.
LEMMA StepKeepsKnown ==
    ASSUME TypeOK, TypeOK', \A o \in Ops : Known(o), [Next]_vars
    PROVE  \A o \in Ops : Known(o)'
<1> USE InTasks, Labels, OpsAssumption, TasksAssumption DEF UndoPcs
<1> DEFINE Goal == \A o \in Ops : Known(o)'
<1> USE DEF Known, TypeOK,
      rowVars, sideVars, mailVars, taskVars, histVars
<1>1. ASSUME NEW t \in Stagers, \E o \in Ops : CreateOperation(t, o) PROVE Goal
  BY <1>1 DEF CreateOperation, Begin, SetStatus, Log
<1>2. ASSUME NEW t \in Stagers, DecideNothing(t) PROVE Goal
  BY <1>2 DEF DecideNothing, Finish, Home
<1>3. ASSUME NEW t \in Stagers, DecideReject(t) \/ DecideApproveAfter(t) \/ DecideHold(t) \/ DecideApprove(t)
      PROVE  Goal
  BY <1>3 DEF DecideReject, DecideApproveAfter, DecideHold, DecideApprove, Goto
<1>4. ASSUME NEW t \in Stagers, SetSchedule(t) \/ RereadOperation(t) PROVE Goal
  BY <1>4 DEF SetSchedule, RereadOperation, Goto
<1>5. ASSUME NEW t \in Stagers, AuditScheduled(t) \/ AuditHeld(t) PROVE Goal
  BY <1>5 DEF AuditScheduled, AuditHeld, Finish, Home, Log
<1>6. ASSUME NEW t \in Stagers, AuditApproved(t) PROVE Goal
  BY <1>6 DEF AuditApproved, Goto, Log
<1>7. ASSUME NEW t \in Requests, Request(t) PROVE Goal
  BY <1>7 DEF Request, StartApprove, StartReject, StartUndo, Begin
<1>8. ASSUME NEW t \in Tasks, MarkRejected(t) PROVE Goal
  BY <1>8 DEF MarkRejected, Goto, SetStatus
<1>9. ASSUME NEW t \in Tasks, AuditRejected(t) PROVE Goal
  BY <1>9 DEF AuditRejected, Goto, Log
<1>10. ASSUME NEW t \in Tasks, Restore(t) PROVE Goal
  BY <1>10 DEF Restore, Goto
<1>11. ASSUME NEW t \in Tasks, QueueReverts(t) PROVE Goal
  BY <1>11 DEF QueueReverts, Goto, Finish, Home
<1>12. ASSUME NEW t \in Tasks, PreflightRefuses(t) PROVE Goal
  BY <1>12 DEF PreflightRefuses, Raise
<1>13. ASSUME NEW t \in Tasks,
              ImapCredentialFails(t) \/ RateRefuses(t) \/ PreflightPasses(t) \/ SkipRelay(t)
      PROVE  Goal
  BY <1>13 DEF ImapCredentialFails, RateRefuses, PreflightPasses, SkipRelay, Goto
<1>14. ASSUME NEW t \in Tasks, RelaySucceeds(t) PROVE Goal
  BY <1>14 DEF RelaySucceeds, Goto, Effect
<1>15. ASSUME NEW t \in Tasks, RelayFails(t) PROVE Goal
  BY <1>15 DEF RelayFails, Goto, Effect
<1>16. ASSUME NEW t \in Tasks, MarkExecuted(t) \/ MarkFailed(t) \/ MarkThrottled(t) PROVE Goal
  BY <1>16 DEF MarkExecuted, MarkFailed, MarkThrottled, Goto, SetStatus
<1>17. ASSUME NEW t \in Tasks, AuditExecuted(t) PROVE Goal
  BY <1>17 DEF AuditExecuted, Finish, Home, Log
<1>18. ASSUME NEW t \in Tasks, AuditFailed(t) \/ AuditThrottled(t) PROVE Goal
  BY <1>18 DEF AuditFailed, AuditThrottled, Raise, Log
<1>19. ASSUME NEW t \in Tasks, UndoRefused(t) PROVE Goal
  BY <1>19 DEF UndoRefused, Finish, Home
<1>20. ASSUME NEW t \in Tasks, UndoSucceeds(t) PROVE Goal
  BY <1>20 DEF UndoSucceeds, Goto
<1>21. ASSUME NEW t \in Tasks, MarkReverted(t) PROVE Goal
  BY <1>21 DEF MarkReverted, Goto, SetStatus
<1>22. ASSUME NEW t \in Tasks, AuditReverted(t) PROVE Goal
  BY <1>22 DEF AuditReverted, Finish, Home, Log
<1>23. ASSUME NEW t \in Schedulers, FindDueScheduled(t) PROVE Goal
  BY <1>23 DEF FindDueScheduled, StartPass, DueOps
<1>24. ASSUME NEW t \in Schedulers, \E o \in Ops : Claim(t, o) PROVE Goal
  BY <1>24 DEF Claim, TakeNext, Begin, SetStatus
<1>25. ASSUME NEW t \in Schedulers, \E o \in Ops : ClaimLost(t, o) PROVE Goal
  BY <1>25 DEF ClaimLost, TakeNext
<1>26. ASSUME NEW t \in Schedulers, Caught(t) PROVE Goal
  BY <1>26 DEF Caught, Finish, Home
<1>27. ASSUME NEW t \in Expirers, FindExpiredPending(t) PROVE Goal
  BY <1>27 DEF FindExpiredPending, StartPass, OverdueOps
<1>28. ASSUME NEW t \in Expirers, \E o \in Ops : ExpireNext(t, o) PROVE Goal
  BY <1>28 DEF ExpireNext, TakeNext, Begin
<1>29. ASSUME NEW t \in Expirers, Expire(t) PROVE Goal
  BY <1>29 DEF Expire, Finish, Home, SetStatus, Log
<1>30. ASSUME NEW t \in Passes, EndPass(t) PROVE Goal
  BY <1>30 DEF EndPass
<1>31. CASE Suspend \/ Unsuspend \/ RevokeAgent
  BY <1>31 DEF Suspend, Unsuspend, RevokeAgent
<1>32. CASE DeleteAccount
  BY <1>32 DEF DeleteAccount
<1>33. CASE \E o \in Ops : CoolDownElapses(o) \/ DeadlinePasses(o)
  BY <1>33 DEF CoolDownElapses, DeadlinePasses
<1>34. ASSUME NEW T, Crash(T) PROVE Goal
  BY <1>34 DEF Crash, Drop
<1>35. ASSUME NEW t \in Tasks, Fault(t)
      PROVE  Goal
  <2> USE <1>35 DEF Fault, Drop, Finish, Goto, Home
  <2>1. CASE t \notin Expirers /\ Drop({t})
    BY <2>1
  <2>2. CASE t \in Expirers /\ Finish(t, "expire")
    BY <2>2
  <2>3. CASE t \in Expirers /\ pc[t] \in {"restore", "queue"} /\ Goto(t, pc[t], "expire")
    BY <2>3
  <2> QED BY <2>1, <2>2, <2>3
<1>36. CASE UNCHANGED vars
  BY <1>36 DEF vars
<1> QED
  BY <1>1, <1>2, <1>3, <1>4, <1>5, <1>6, <1>7, <1>8, <1>9, <1>10,
     <1>11, <1>12, <1>13, <1>14, <1>15, <1>16, <1>17, <1>18, <1>19,
     <1>20, <1>21, <1>22, <1>23, <1>24, <1>25, <1>26, <1>27, <1>28,
     <1>29, <1>30, <1>31, <1>32, <1>33, <1>34, <1>35, <1>36
  DEF Next, Stager, Rejecting, Executing, Undoing, Scheduler, Expirer, Environment

\* Of a task that is cut short the operation is charged, and nobody else's work is lost.
LEMMA DropKeepsAccounts ==
    ASSUME NEW x \in Ops, Accounted(x), NEW T, Charge(T), Drop(T), faulted \in [Ops -> BOOLEAN],
           UNCHANGED <<status, audit, effects>>
    PROVE  Accounted(x)'
<1>1. CASE \E t \in T : cur[t] = x
  <2>1. faulted'[x] = TRUE
    BY <1>1 DEF Charge
  <2> QED BY <2>1 DEF Accounted
<1>2. CASE ~\E t \in T : cur[t] = x
  <2>1. faulted'[x] = faulted[x]
    BY <1>2 DEF Charge
  <2>2. ASSUME NEW t \in Tasks, cur[t] = x PROVE cur'[t] = x /\ pc'[t] = pc[t]
    BY <1>2, <2>2 DEF Drop
  <2>3. \A l : Handled(x, l) => Handled(x, l)'
    BY <2>2 DEF Handled
  <2> QED BY <2>1, <2>3 DEF Accounted
<1> QED BY <1>1, <1>2

\* Whoever is yet to write the audit row that Accounted asks for writes it next, or fails.
LEMMA StepKeepsAccounts ==
    ASSUME TypeOK, TypeOK', NEW x \in Ops, Known(x), Accounted(x), [Next]_vars
    PROVE  Accounted(x)'
<1> USE InTasks, Labels, OpsAssumption, TasksAssumption DEF UndoPcs, Charge
<1> DEFINE Goal == Accounted(x)'
<1> USE DEF Known, Accounted, Handled, TypeOK,
      rowVars, sideVars, mailVars, taskVars, histVars
<1>1. ASSUME NEW t \in Stagers, \E o \in Ops : CreateOperation(t, o) PROVE Goal
  BY <1>1 DEF CreateOperation, Begin, SetStatus, Log
<1>2. ASSUME NEW t \in Stagers, DecideNothing(t) PROVE Goal
  BY <1>2 DEF DecideNothing, Finish, Home
<1>3. ASSUME NEW t \in Stagers, DecideReject(t) \/ DecideApproveAfter(t) \/ DecideHold(t) \/ DecideApprove(t)
      PROVE  Goal
  BY <1>3 DEF DecideReject, DecideApproveAfter, DecideHold, DecideApprove, Goto
<1>4. ASSUME NEW t \in Stagers, SetSchedule(t) \/ RereadOperation(t) PROVE Goal
  BY <1>4 DEF SetSchedule, RereadOperation, Goto
<1>5. ASSUME NEW t \in Stagers, AuditScheduled(t) \/ AuditHeld(t) PROVE Goal
  BY <1>5 DEF AuditScheduled, AuditHeld, Finish, Home, Log
<1>6. ASSUME NEW t \in Stagers, AuditApproved(t) PROVE Goal
  BY <1>6 DEF AuditApproved, Goto, Log
<1>7. ASSUME NEW t \in Requests, Request(t) PROVE Goal
  BY <1>7 DEF Request, StartApprove, StartReject, StartUndo, Begin
<1>8. ASSUME NEW t \in Tasks, MarkRejected(t) PROVE Goal
  BY <1>8 DEF MarkRejected, Goto, SetStatus
<1>9. ASSUME NEW t \in Tasks, AuditRejected(t) PROVE Goal
  BY <1>9 DEF AuditRejected, Goto, Log
<1>10. ASSUME NEW t \in Tasks, Restore(t) PROVE Goal
  BY <1>10 DEF Restore, Goto
<1>11. ASSUME NEW t \in Tasks, QueueReverts(t) PROVE Goal
  BY <1>11 DEF QueueReverts, Goto, Finish, Home
<1>12. ASSUME NEW t \in Tasks, PreflightRefuses(t) PROVE Goal
  BY <1>12 DEF PreflightRefuses, Raise
<1>13. ASSUME NEW t \in Tasks,
              ImapCredentialFails(t) \/ RateRefuses(t) \/ PreflightPasses(t) \/ SkipRelay(t)
      PROVE  Goal
  BY <1>13 DEF ImapCredentialFails, RateRefuses, PreflightPasses, SkipRelay, Goto
<1>14. ASSUME NEW t \in Tasks, RelaySucceeds(t) PROVE Goal
  BY <1>14 DEF RelaySucceeds, Goto, Effect
<1>15. ASSUME NEW t \in Tasks, RelayFails(t) PROVE Goal
  BY <1>15 DEF RelayFails, Goto, Effect
<1>16. ASSUME NEW t \in Tasks, MarkExecuted(t) \/ MarkFailed(t) \/ MarkThrottled(t) PROVE Goal
  BY <1>16 DEF MarkExecuted, MarkFailed, MarkThrottled, Goto, SetStatus
<1>17. ASSUME NEW t \in Tasks, AuditExecuted(t) PROVE Goal
  BY <1>17 DEF AuditExecuted, Finish, Home, Log
<1>18. ASSUME NEW t \in Tasks, AuditFailed(t) \/ AuditThrottled(t) PROVE Goal
  BY <1>18 DEF AuditFailed, AuditThrottled, Raise, Log
<1>19. ASSUME NEW t \in Tasks, UndoRefused(t) PROVE Goal
  BY <1>19 DEF UndoRefused, Finish, Home
<1>20. ASSUME NEW t \in Tasks, UndoSucceeds(t) PROVE Goal
  BY <1>20 DEF UndoSucceeds, Goto
<1>21. ASSUME NEW t \in Tasks, MarkReverted(t) PROVE Goal
  BY <1>21 DEF MarkReverted, Goto, SetStatus
<1>22. ASSUME NEW t \in Tasks, AuditReverted(t) PROVE Goal
  BY <1>22 DEF AuditReverted, Finish, Home, Log
<1>23. ASSUME NEW t \in Schedulers, FindDueScheduled(t) PROVE Goal
  BY <1>23 DEF FindDueScheduled, StartPass, DueOps
<1>24. ASSUME NEW t \in Schedulers, \E o \in Ops : Claim(t, o) PROVE Goal
  BY <1>24 DEF Claim, TakeNext, Begin, SetStatus
<1>25. ASSUME NEW t \in Schedulers, \E o \in Ops : ClaimLost(t, o) PROVE Goal
  BY <1>25 DEF ClaimLost, TakeNext
<1>26. ASSUME NEW t \in Schedulers, Caught(t) PROVE Goal
  BY <1>26 DEF Caught, Finish, Home
<1>27. ASSUME NEW t \in Expirers, FindExpiredPending(t) PROVE Goal
  BY <1>27 DEF FindExpiredPending, StartPass, OverdueOps
<1>28. ASSUME NEW t \in Expirers, \E o \in Ops : ExpireNext(t, o) PROVE Goal
  BY <1>28 DEF ExpireNext, TakeNext, Begin
<1>29. ASSUME NEW t \in Expirers, Expire(t) PROVE Goal
  BY <1>29 DEF Expire, Finish, Home, SetStatus, Log
<1>30. ASSUME NEW t \in Passes, EndPass(t) PROVE Goal
  BY <1>30 DEF EndPass
<1>31. CASE Suspend \/ Unsuspend \/ RevokeAgent
  BY <1>31 DEF Suspend, Unsuspend, RevokeAgent
<1>32. CASE DeleteAccount
  BY <1>32 DEF DeleteAccount
<1>33. CASE \E o \in Ops : CoolDownElapses(o) \/ DeadlinePasses(o)
  BY <1>33 DEF CoolDownElapses, DeadlinePasses
<1>34. ASSUME NEW T, Crash(T) PROVE Goal
  BY <1>34, DropKeepsAccounts DEF Crash
<1>35. ASSUME NEW t \in Tasks, Fault(t)
      PROVE  Goal
  <2>1. CASE t \notin Expirers /\ Drop({t})
    <3>1. Charge({t}) /\ faulted \in [Ops -> BOOLEAN] /\ UNCHANGED <<status, audit, effects>>
      BY <1>35 DEF Fault
    <3> HIDE DEF Accounted
    <3> QED BY ONLY <2>1, <3>1, Accounted(x), x \in Ops, DropKeepsAccounts
  <2>2. CASE t \in Expirers /\ Finish(t, "expire")
    BY <1>35, <2>2 DEF Fault, Finish, Home
  <2>3. CASE t \in Expirers /\ pc[t] \in {"restore", "queue"} /\ Goto(t, pc[t], "expire")
    BY <1>35, <2>3 DEF Fault, Goto
  <2> QED BY <1>35, <2>1, <2>2, <2>3 DEF Fault
<1>36. CASE UNCHANGED vars
  BY <1>36 DEF vars
<1> QED
  BY <1>1, <1>2, <1>3, <1>4, <1>5, <1>6, <1>7, <1>8, <1>9, <1>10,
     <1>11, <1>12, <1>13, <1>14, <1>15, <1>16, <1>17, <1>18, <1>19,
     <1>20, <1>21, <1>22, <1>23, <1>24, <1>25, <1>26, <1>27, <1>28,
     <1>29, <1>30, <1>31, <1>32, <1>33, <1>34, <1>35, <1>36
  DEF Next, Stager, Rejecting, Executing, Undoing, Scheduler, Expirer, Environment

\* The mirror is restored, then the client queued for, then the row expired.
LEMMA StepKeepsRestoring ==
    ASSUME TypeOK, TypeOK', \A o \in Ops : Known(o), NEW s \in Tasks, Reverting(s), [Next]_vars
    PROVE  Reverting(s)'
<1> USE InTasks, Labels, OpsAssumption, TasksAssumption DEF UndoPcs, Charge
<1> DEFINE Goal == Reverting(s)'
<1> USE DEF Known, Reverting, TypeOK,
      rowVars, sideVars, mailVars, taskVars, histVars
<1>1. ASSUME NEW t \in Stagers, \E o \in Ops : CreateOperation(t, o) PROVE Goal
  BY <1>1 DEF CreateOperation, Begin, SetStatus, Log
<1>2. ASSUME NEW t \in Stagers, DecideNothing(t) PROVE Goal
  BY <1>2 DEF DecideNothing, Finish, Home
<1>3. ASSUME NEW t \in Stagers, DecideReject(t) \/ DecideApproveAfter(t) \/ DecideHold(t) \/ DecideApprove(t)
      PROVE  Goal
  BY <1>3 DEF DecideReject, DecideApproveAfter, DecideHold, DecideApprove, Goto
<1>4. ASSUME NEW t \in Stagers, SetSchedule(t) \/ RereadOperation(t) PROVE Goal
  BY <1>4 DEF SetSchedule, RereadOperation, Goto
<1>5. ASSUME NEW t \in Stagers, AuditScheduled(t) \/ AuditHeld(t) PROVE Goal
  BY <1>5 DEF AuditScheduled, AuditHeld, Finish, Home, Log
<1>6. ASSUME NEW t \in Stagers, AuditApproved(t) PROVE Goal
  BY <1>6 DEF AuditApproved, Goto, Log
<1>7. ASSUME NEW t \in Requests, Request(t) PROVE Goal
  BY <1>7 DEF Request, StartApprove, StartReject, StartUndo, Begin
<1>8. ASSUME NEW t \in Tasks, MarkRejected(t) PROVE Goal
  BY <1>8 DEF MarkRejected, Goto, SetStatus
<1>9. ASSUME NEW t \in Tasks, AuditRejected(t) PROVE Goal
  BY <1>9 DEF AuditRejected, Goto, Log
<1>10. ASSUME NEW t \in Tasks, Restore(t) PROVE Goal
  BY <1>10 DEF Restore, Goto
<1>11. ASSUME NEW t \in Tasks, QueueReverts(t) PROVE Goal
  <2>1. /\ pc[t] = "queue" /\ pc'[t] \in {"expire", "loop", "idle"}
        /\ cur'[t] = IF t \in Expirers THEN cur[t] ELSE NoOp
        /\ pc'[t] = "expire" => t \in Expirers
        /\ \A u \in Tasks \ {t} : pc'[u] = pc[u] /\ cur'[u] = cur[u]
        /\ UNCHANGED <<status, shown, faulted>>
    BY <1>11 DEF QueueReverts, Goto, Finish, Home
  <2>2. queued' = [queued EXCEPT ![cur[t]] = @ \/ cur[t] \notin SmtpOps]
    BY <1>11 DEF QueueReverts
  <2>3. \A o \in Ops : queued[o] = TRUE => queued'[o] = TRUE
    BY <2>2
  <2>4. cur[t] \in Ops \ SmtpOps => queued'[cur[t]] = TRUE
    <3>1. queued \in [Ops -> BOOLEAN]
      OBVIOUS
    <3> QED BY ONLY <2>2, <3>1
  <2> QED BY <2>1, <2>3, <2>4
<1>12. ASSUME NEW t \in Tasks, PreflightRefuses(t) PROVE Goal
  BY <1>12 DEF PreflightRefuses, Raise
<1>13. ASSUME NEW t \in Tasks,
              ImapCredentialFails(t) \/ RateRefuses(t) \/ PreflightPasses(t) \/ SkipRelay(t)
      PROVE  Goal
  BY <1>13 DEF ImapCredentialFails, RateRefuses, PreflightPasses, SkipRelay, Goto
<1>14. ASSUME NEW t \in Tasks, RelaySucceeds(t) PROVE Goal
  BY <1>14 DEF RelaySucceeds, Goto, Effect
<1>15. ASSUME NEW t \in Tasks, RelayFails(t) PROVE Goal
  BY <1>15 DEF RelayFails, Goto, Effect
<1>16. ASSUME NEW t \in Tasks, MarkExecuted(t) \/ MarkFailed(t) \/ MarkThrottled(t) PROVE Goal
  BY <1>16 DEF MarkExecuted, MarkFailed, MarkThrottled, Goto, SetStatus
<1>17. ASSUME NEW t \in Tasks, AuditExecuted(t) PROVE Goal
  BY <1>17 DEF AuditExecuted, Finish, Home, Log
<1>18. ASSUME NEW t \in Tasks, AuditFailed(t) \/ AuditThrottled(t) PROVE Goal
  BY <1>18 DEF AuditFailed, AuditThrottled, Raise, Log
<1>19. ASSUME NEW t \in Tasks, UndoRefused(t) PROVE Goal
  BY <1>19 DEF UndoRefused, Finish, Home
<1>20. ASSUME NEW t \in Tasks, UndoSucceeds(t) PROVE Goal
  BY <1>20 DEF UndoSucceeds, Goto
<1>21. ASSUME NEW t \in Tasks, MarkReverted(t) PROVE Goal
  BY <1>21 DEF MarkReverted, Goto, SetStatus
<1>22. ASSUME NEW t \in Tasks, AuditReverted(t) PROVE Goal
  BY <1>22 DEF AuditReverted, Finish, Home, Log
<1>23. ASSUME NEW t \in Schedulers, FindDueScheduled(t) PROVE Goal
  BY <1>23 DEF FindDueScheduled, StartPass, DueOps
<1>24. ASSUME NEW t \in Schedulers, \E o \in Ops : Claim(t, o) PROVE Goal
  BY <1>24 DEF Claim, TakeNext, Begin, SetStatus
<1>25. ASSUME NEW t \in Schedulers, \E o \in Ops : ClaimLost(t, o) PROVE Goal
  BY <1>25 DEF ClaimLost, TakeNext
<1>26. ASSUME NEW t \in Schedulers, Caught(t) PROVE Goal
  BY <1>26 DEF Caught, Finish, Home
<1>27. ASSUME NEW t \in Expirers, FindExpiredPending(t) PROVE Goal
  BY <1>27 DEF FindExpiredPending, StartPass, OverdueOps
<1>28. ASSUME NEW t \in Expirers, \E o \in Ops : ExpireNext(t, o) PROVE Goal
  BY <1>28 DEF ExpireNext, TakeNext, Begin
<1>29. ASSUME NEW t \in Expirers, Expire(t) PROVE Goal
  BY <1>29 DEF Expire, Finish, Home, SetStatus, Log
<1>30. ASSUME NEW t \in Passes, EndPass(t) PROVE Goal
  BY <1>30 DEF EndPass
<1>31. CASE Suspend \/ Unsuspend \/ RevokeAgent
  BY <1>31 DEF Suspend, Unsuspend, RevokeAgent
<1>32. CASE DeleteAccount
  BY <1>32 DEF DeleteAccount
<1>33. CASE \E o \in Ops : CoolDownElapses(o) \/ DeadlinePasses(o)
  BY <1>33 DEF CoolDownElapses, DeadlinePasses
<1>34. ASSUME NEW T, Crash(T) PROVE Goal
  BY <1>34 DEF Crash, Drop
<1>35. ASSUME NEW t \in Tasks, Fault(t)
      PROVE  Goal
  <2> USE <1>35 DEF Fault, Drop, Finish, Goto, Home
  <2>1. CASE t \notin Expirers /\ Drop({t})
    BY <2>1
  <2>2. CASE t \in Expirers /\ Finish(t, "expire")
    BY <2>2
  <2>3. CASE t \in Expirers /\ pc[t] \in {"restore", "queue"} /\ Goto(t, pc[t], "expire")
    BY <2>3
  <2> QED BY <2>1, <2>2, <2>3
<1>36. CASE UNCHANGED vars
  BY <1>36 DEF vars
<1> QED
  BY <1>1, <1>2, <1>3, <1>4, <1>5, <1>6, <1>7, <1>8, <1>9, <1>10,
     <1>11, <1>12, <1>13, <1>14, <1>15, <1>16, <1>17, <1>18, <1>19,
     <1>20, <1>21, <1>22, <1>23, <1>24, <1>25, <1>26, <1>27, <1>28,
     <1>29, <1>30, <1>31, <1>32, <1>33, <1>34, <1>35, <1>36
  DEF Next, Stager, Rejecting, Executing, Undoing, Scheduler, Expirer, Environment

\* A refusal goes on to its restore, whatever others do to the row meanwhile.
LEMMA StepKeepsRestored ==
    ASSUME TypeOK, TypeOK', NEW x \in Ops, Known(x), Restored(x), \A t \in Tasks : Reverting(t), [Next]_vars
    PROVE  Restored(x)'
<1> USE InTasks, Labels, OpsAssumption, TasksAssumption DEF UndoPcs, Charge
<1> DEFINE Goal == Restored(x)'
<1> USE DEF Known, Restored, Reverting, Handled, TypeOK,
      rowVars, sideVars, mailVars, taskVars, histVars
<1>1. ASSUME NEW t \in Stagers, \E o \in Ops : CreateOperation(t, o) PROVE Goal
  BY <1>1 DEF CreateOperation, Begin, SetStatus, Log
<1>2. ASSUME NEW t \in Stagers, DecideNothing(t) PROVE Goal
  BY <1>2 DEF DecideNothing, Finish, Home
<1>3. ASSUME NEW t \in Stagers, DecideReject(t) \/ DecideApproveAfter(t) \/ DecideHold(t) \/ DecideApprove(t)
      PROVE  Goal
  BY <1>3 DEF DecideReject, DecideApproveAfter, DecideHold, DecideApprove, Goto
<1>4. ASSUME NEW t \in Stagers, SetSchedule(t) \/ RereadOperation(t) PROVE Goal
  BY <1>4 DEF SetSchedule, RereadOperation, Goto
<1>5. ASSUME NEW t \in Stagers, AuditScheduled(t) \/ AuditHeld(t) PROVE Goal
  BY <1>5 DEF AuditScheduled, AuditHeld, Finish, Home, Log
<1>6. ASSUME NEW t \in Stagers, AuditApproved(t) PROVE Goal
  BY <1>6 DEF AuditApproved, Goto, Log
<1>7. ASSUME NEW t \in Requests, Request(t) PROVE Goal
  BY <1>7 DEF Request, StartApprove, StartReject, StartUndo, Begin
<1>8. ASSUME NEW t \in Tasks, MarkRejected(t) PROVE Goal
  BY <1>8 DEF MarkRejected, Goto, SetStatus
<1>9. ASSUME NEW t \in Tasks, AuditRejected(t) PROVE Goal
  BY <1>9 DEF AuditRejected, Goto, Log
<1>10. ASSUME NEW t \in Tasks, Restore(t) PROVE Goal
  BY <1>10 DEF Restore, Goto
<1>11. ASSUME NEW t \in Tasks, QueueReverts(t) PROVE Goal
  <2>1. /\ pc[t] = "queue" /\ pc'[t] \in {"expire", "loop", "idle"}
        /\ cur'[t] = IF t \in Expirers THEN cur[t] ELSE NoOp
        /\ pc'[t] = "expire" => t \in Expirers
        /\ \A u \in Tasks \ {t} : pc'[u] = pc[u] /\ cur'[u] = cur[u]
        /\ UNCHANGED <<status, shown, faulted>>
    BY <1>11 DEF QueueReverts, Goto, Finish, Home
  <2>2. queued' = [queued EXCEPT ![cur[t]] = @ \/ cur[t] \notin SmtpOps]
    BY <1>11 DEF QueueReverts
  <2>3. \A o \in Ops : queued[o] = TRUE => queued'[o] = TRUE
    BY <2>2
  <2>4. cur[t] \in Ops \ SmtpOps => queued'[cur[t]] = TRUE
    <3>1. queued \in [Ops -> BOOLEAN]
      OBVIOUS
    <3> QED BY ONLY <2>2, <3>1
  <2> QED BY <2>1, <2>3, <2>4
<1>12. ASSUME NEW t \in Tasks, PreflightRefuses(t) PROVE Goal
  BY <1>12 DEF PreflightRefuses, Raise
<1>13. ASSUME NEW t \in Tasks,
              ImapCredentialFails(t) \/ RateRefuses(t) \/ PreflightPasses(t) \/ SkipRelay(t)
      PROVE  Goal
  BY <1>13 DEF ImapCredentialFails, RateRefuses, PreflightPasses, SkipRelay, Goto
<1>14. ASSUME NEW t \in Tasks, RelaySucceeds(t) PROVE Goal
  BY <1>14 DEF RelaySucceeds, Goto, Effect
<1>15. ASSUME NEW t \in Tasks, RelayFails(t) PROVE Goal
  BY <1>15 DEF RelayFails, Goto, Effect
<1>16. ASSUME NEW t \in Tasks, MarkExecuted(t) \/ MarkFailed(t) \/ MarkThrottled(t) PROVE Goal
  BY <1>16 DEF MarkExecuted, MarkFailed, MarkThrottled, Goto, SetStatus
<1>17. ASSUME NEW t \in Tasks, AuditExecuted(t) PROVE Goal
  BY <1>17 DEF AuditExecuted, Finish, Home, Log
<1>18. ASSUME NEW t \in Tasks, AuditFailed(t) \/ AuditThrottled(t) PROVE Goal
  BY <1>18 DEF AuditFailed, AuditThrottled, Raise, Log
<1>19. ASSUME NEW t \in Tasks, UndoRefused(t) PROVE Goal
  BY <1>19 DEF UndoRefused, Finish, Home
<1>20. ASSUME NEW t \in Tasks, UndoSucceeds(t) PROVE Goal
  BY <1>20 DEF UndoSucceeds, Goto
<1>21. ASSUME NEW t \in Tasks, MarkReverted(t) PROVE Goal
  BY <1>21 DEF MarkReverted, Goto, SetStatus
<1>22. ASSUME NEW t \in Tasks, AuditReverted(t) PROVE Goal
  BY <1>22 DEF AuditReverted, Finish, Home, Log
<1>23. ASSUME NEW t \in Schedulers, FindDueScheduled(t) PROVE Goal
  BY <1>23 DEF FindDueScheduled, StartPass, DueOps
<1>24. ASSUME NEW t \in Schedulers, \E o \in Ops : Claim(t, o) PROVE Goal
  BY <1>24 DEF Claim, TakeNext, Begin, SetStatus
<1>25. ASSUME NEW t \in Schedulers, \E o \in Ops : ClaimLost(t, o) PROVE Goal
  BY <1>25 DEF ClaimLost, TakeNext
<1>26. ASSUME NEW t \in Schedulers, Caught(t) PROVE Goal
  BY <1>26 DEF Caught, Finish, Home
<1>27. ASSUME NEW t \in Expirers, FindExpiredPending(t) PROVE Goal
  BY <1>27 DEF FindExpiredPending, StartPass, OverdueOps
<1>28. ASSUME NEW t \in Expirers, \E o \in Ops : ExpireNext(t, o) PROVE Goal
  BY <1>28 DEF ExpireNext, TakeNext, Begin
<1>29. ASSUME NEW t \in Expirers, Expire(t) PROVE Goal
  BY <1>29 DEF Expire, Finish, Home, SetStatus, Log
<1>30. ASSUME NEW t \in Passes, EndPass(t) PROVE Goal
  BY <1>30 DEF EndPass
<1>31. CASE Suspend \/ Unsuspend \/ RevokeAgent
  BY <1>31 DEF Suspend, Unsuspend, RevokeAgent
<1>32. CASE DeleteAccount
  BY <1>32 DEF DeleteAccount
<1>33. CASE \E o \in Ops : CoolDownElapses(o) \/ DeadlinePasses(o)
  BY <1>33 DEF CoolDownElapses, DeadlinePasses
<1>34. ASSUME NEW T, Crash(T) PROVE Goal
  BY <1>34 DEF Crash, Drop
<1>35. ASSUME NEW t \in Tasks, Fault(t)
      PROVE  Goal
  <2> USE <1>35 DEF Fault, Drop, Finish, Goto, Home
  <2>1. CASE t \notin Expirers /\ Drop({t})
    BY <2>1
  <2>2. CASE t \in Expirers /\ Finish(t, "expire")
    BY <2>2
  <2>3. CASE t \in Expirers /\ pc[t] \in {"restore", "queue"} /\ Goto(t, pc[t], "expire")
    BY <2>3
  <2> QED BY <2>1, <2>2, <2>3
<1>36. CASE UNCHANGED vars
  BY <1>36 DEF vars
<1> QED
  BY <1>1, <1>2, <1>3, <1>4, <1>5, <1>6, <1>7, <1>8, <1>9, <1>10,
     <1>11, <1>12, <1>13, <1>14, <1>15, <1>16, <1>17, <1>18, <1>19,
     <1>20, <1>21, <1>22, <1>23, <1>24, <1>25, <1>26, <1>27, <1>28,
     <1>29, <1>30, <1>31, <1>32, <1>33, <1>34, <1>35, <1>36
  DEF Next, Stager, Rejecting, Executing, Undoing, Scheduler, Expirer, Environment


DecisionInv ==
    /\ TypeOK
    /\ \A o \in Ops : Known(o) /\ Accounted(o) /\ Restored(o)
    /\ \A t \in Tasks : Reverting(t)

\* The inductive invariant behind the three theorems.
LEMMA DecisionInvAlways == Spec => []DecisionInv
<1>1. Init => DecisionInv
  <2> SUFFICES ASSUME Init PROVE DecisionInv
    OBVIOUS
  <2>1. \A t \in Tasks : Reverting(t)
    BY OpsAssumption DEF Init, Reverting
  <2>2. \A o \in Ops : Known(o) /\ Accounted(o) /\ Restored(o)
    <3> SUFFICES ASSUME NEW o \in Ops PROVE Known(o) /\ Accounted(o) /\ Restored(o)
      OBVIOUS
    <3>1. /\ status[o] = "absent" /\ effects[o] = 0
          /\ \A t \in Tasks : cur[t] # o
          /\ \A t \in Passes : o \notin todo[t]
      BY OpsAssumption DEF Init
    <3> QED BY <3>1 DEF Known, Accounted, Restored
  <2> QED BY <2>1, <2>2, InitHasTypes DEF DecisionInv
<1>2. DecisionInv /\ [Next]_vars => DecisionInv'
  <2> SUFFICES ASSUME DecisionInv, [Next]_vars PROVE DecisionInv'
    OBVIOUS
  <2> USE DEF DecisionInv
  <2>1. TypeOK'
    BY StepKeepsTypes
  <2>2. \A o \in Ops : Known(o)'
    BY <2>1, StepKeepsKnown
  <2>3. \A o \in Ops : Accounted(o)'
    BY <2>1, StepKeepsAccounts
  <2>4. \A o \in Ops : Restored(o)'
    BY <2>1, StepKeepsRestored
  <2>5. \A t \in Tasks : Reverting(t)'
    BY <2>1, StepKeepsRestoring
  <2> QED BY <2>1, <2>2, <2>3, <2>4, <2>5
<1> QED BY <1>1, <1>2, PTL DEF Spec

\* An operation nobody works on is handled by nobody.
LEMMA QuietIsUnhandled ==
    ASSUME NEW o, Quiet(o), NEW labels, labels \subseteq BusyPcs PROVE ~Handled(o, labels)
BY DEF Quiet, InHand, Handled

-----------------------------------------------------------------------------

\* Unless a failure came between, an operation nobody works on has the audit row of
\* its status, whichever of the handlers that raced for it came last.
THEOREM DecisionAlwaysAudited == Spec => []DecisionIsAudited
<1>1. DecisionInv => DecisionIsAudited
  <2> SUFFICES ASSUME DecisionInv, NEW o \in Ops, Quiet(o), ~faulted[o], status[o] # "absent"
               PROVE  /\ audit[o] \cap AccountsFor(status[o]) # {}
                      /\ effects[o] > 0 => audit[o] \cap {"executed", "execution_failed"} # {}
    BY DEF DecisionIsAudited
  <2>1. Known(o) /\ Accounted(o) /\ faulted[o] = FALSE /\ status[o] \in Statuses
    BY DEF DecisionInv, TypeOK
  <2>2. \A labels \in SUBSET BusyPcs : ~Handled(o, labels)
    BY QuietIsUnhandled
  <2>3. /\ ~Handled(o, {"audit_executed"}) /\ ~Handled(o, {"audit_failed", "audit_throttled"})
        /\ ~Handled(o, {"audit_rejected"}) /\ ~Handled(o, {"audit_reverted"})
        /\ ~Handled(o, {"mark_executed", "audit_executed", "mark_failed", "audit_failed"})
    BY <2>2, Labels
  <2> QED BY <2>1, <2>3 DEF Known, Accounted, AccountsFor, Statuses
<1> QED BY <1>1, DecisionInvAlways, PTL

\* A refused operation leaves nothing in the mirror, and its client is told, also when
\* a rejection and an expiry race.
THEOREM RefusalAlwaysReverted == Spec => []RefusalIsReverted
<1>1. DecisionInv => RefusalIsReverted
  <2> SUFFICES ASSUME DecisionInv, NEW o \in Ops \ SmtpOps, Quiet(o), ~faulted[o],
                      status[o] \in {"rejected", "expired"}
               PROVE  ~shown[o] /\ queued[o]
    BY DEF RefusalIsReverted
  <2>1. Restored(o) /\ faulted[o] = FALSE
    BY DEF DecisionInv, TypeOK
  <2>2. ~Handled(o, {"audit_rejected", "restore"}) /\ ~Handled(o, {"queue"})
    BY Labels, QuietIsUnhandled
  <2>3. shown[o] = FALSE /\ queued[o] = TRUE
    BY <2>1, <2>2 DEF Restored
  <2> QED BY <2>3
<1> QED BY <1>1, DecisionInvAlways, PTL

\* An operation that stays approved and that nobody executes was never sent.
THEOREM StrandedAlwaysUnsent == Spec => []StrandedIsUnsent
<1>1. DecisionInv => StrandedIsUnsent
  <2> SUFFICES ASSUME DecisionInv, NEW o \in Ops, Quiet(o), ~faulted[o], status[o] = "approved"
               PROVE  effects[o] = 0
    BY DEF StrandedIsUnsent
  <2>1. Accounted(o) /\ faulted[o] = FALSE /\ effects[o] \in Nat
    BY DEF DecisionInv, TypeOK
  <2>2. ~Handled(o, {"mark_executed", "mark_failed"})
    BY Labels, QuietIsUnhandled
  <2> QED BY <2>1, <2>2 DEF Accounted
<1> QED BY <1>1, DecisionInvAlways, PTL

-----------------------------------------------------------------------------
(* What a lock around approval, rule and cool-down would buy.              *)

\* Those who have an operation in hand to execute it, up to the row that says so.
WorkPcs == GrantPcs \cup {"mark_executed", "mark_failed"}

\* Of the tasks that have an operation in hand to execute it, there is one.
OneExecutor ==
    \A s, t \in Tasks :
        cur[s] \in Ops /\ cur[s] = cur[t] /\ pc[s] \in WorkPcs /\ pc[t] \in WorkPcs => s = t

\* Nobody who has it in hand will execute it again.
Once(o) == faulted[o] = FALSE => effects[o] = 0 \/ (effects[o] = 1 /\ ~Handled(o, GrantPcs))

\* Of a task that is cut short the operation is charged, and nobody takes another up.
LEMMA DropKeepsOnce ==
    ASSUME NEW x \in Ops, Once(x), NEW T, Charge(T), Drop(T), faulted \in [Ops -> BOOLEAN],
           UNCHANGED effects
    PROVE  Once(x)'
<1>1. ASSUME NEW t \in Tasks, cur'[t] = x, pc'[t] \in GrantPcs PROVE cur[t] = x /\ pc[t] \in GrantPcs
  BY <1>1, Labels, OpsAssumption DEF Drop, GrantPcs
<1>2. Handled(x, GrantPcs)' => Handled(x, GrantPcs)
  BY <1>1 DEF Handled, GrantPcs
<1>3. faulted'[x] = FALSE => faulted[x] = FALSE
  BY DEF Charge
<1> QED BY <1>2, <1>3 DEF Once

\* A relay spends the hand that executes, and whoever takes an operation up finds it
\* pending, untouched, or finds the one that is about to write that it is not.
LEMMA StepKeepsOnce ==
    ASSUME TypeOK, TypeOK', NEW x \in Ops, Known(x), Accounted(x), Once(x),
           OneExecutor, OneExecutor', [Next]_vars
    PROVE  Once(x)'
<1> USE InTasks, Labels, OpsAssumption, TasksAssumption DEF UndoPcs, Charge
<1> DEFINE Goal == Once(x)'
<1> USE DEF Known, Accounted, Once, Handled, OneExecutor, WorkPcs, GrantPcs, TypeOK,
      rowVars, sideVars, mailVars, taskVars, histVars
<1>1. ASSUME NEW t \in Stagers, \E o \in Ops : CreateOperation(t, o) PROVE Goal
  BY <1>1 DEF CreateOperation, Begin, SetStatus, Log
<1>2. ASSUME NEW t \in Stagers, DecideNothing(t) PROVE Goal
  BY <1>2 DEF DecideNothing, Finish, Home
<1>3. ASSUME NEW t \in Stagers, DecideReject(t) \/ DecideApproveAfter(t) \/ DecideHold(t) \/ DecideApprove(t)
      PROVE  Goal
  BY <1>3 DEF DecideReject, DecideApproveAfter, DecideHold, DecideApprove, Goto
<1>4. ASSUME NEW t \in Stagers, SetSchedule(t) \/ RereadOperation(t) PROVE Goal
  BY <1>4 DEF SetSchedule, RereadOperation, Goto
<1>5. ASSUME NEW t \in Stagers, AuditScheduled(t) \/ AuditHeld(t) PROVE Goal
  BY <1>5 DEF AuditScheduled, AuditHeld, Finish, Home, Log
<1>6. ASSUME NEW t \in Stagers, AuditApproved(t) PROVE Goal
  BY <1>6 DEF AuditApproved, Goto, Log
<1>7. ASSUME NEW t \in Requests, Request(t) PROVE Goal
  BY <1>7 DEF Request, StartApprove, StartReject, StartUndo, Begin
<1>8. ASSUME NEW t \in Tasks, MarkRejected(t) PROVE Goal
  BY <1>8 DEF MarkRejected, Goto, SetStatus
<1>9. ASSUME NEW t \in Tasks, AuditRejected(t) PROVE Goal
  BY <1>9 DEF AuditRejected, Goto, Log
<1>10. ASSUME NEW t \in Tasks, Restore(t) PROVE Goal
  BY <1>10 DEF Restore, Goto
<1>11. ASSUME NEW t \in Tasks, QueueReverts(t) PROVE Goal
  BY <1>11 DEF QueueReverts, Goto, Finish, Home
<1>12. ASSUME NEW t \in Tasks, PreflightRefuses(t) PROVE Goal
  BY <1>12 DEF PreflightRefuses, Raise
<1>13. ASSUME NEW t \in Tasks,
              ImapCredentialFails(t) \/ RateRefuses(t) \/ PreflightPasses(t) \/ SkipRelay(t)
      PROVE  Goal
  BY <1>13 DEF ImapCredentialFails, RateRefuses, PreflightPasses, SkipRelay, Goto
<1>14. ASSUME NEW t \in Tasks, RelaySucceeds(t) PROVE Goal
  BY <1>14 DEF RelaySucceeds, Goto, Effect
<1>15. ASSUME NEW t \in Tasks, RelayFails(t) PROVE Goal
  BY <1>15 DEF RelayFails, Goto, Effect
<1>16. ASSUME NEW t \in Tasks, MarkExecuted(t) \/ MarkFailed(t) \/ MarkThrottled(t) PROVE Goal
  BY <1>16 DEF MarkExecuted, MarkFailed, MarkThrottled, Goto, SetStatus
<1>17. ASSUME NEW t \in Tasks, AuditExecuted(t) PROVE Goal
  BY <1>17 DEF AuditExecuted, Finish, Home, Log
<1>18. ASSUME NEW t \in Tasks, AuditFailed(t) \/ AuditThrottled(t) PROVE Goal
  BY <1>18 DEF AuditFailed, AuditThrottled, Raise, Log
<1>19. ASSUME NEW t \in Tasks, UndoRefused(t) PROVE Goal
  BY <1>19 DEF UndoRefused, Finish, Home
<1>20. ASSUME NEW t \in Tasks, UndoSucceeds(t) PROVE Goal
  BY <1>20 DEF UndoSucceeds, Goto
<1>21. ASSUME NEW t \in Tasks, MarkReverted(t) PROVE Goal
  BY <1>21 DEF MarkReverted, Goto, SetStatus
<1>22. ASSUME NEW t \in Tasks, AuditReverted(t) PROVE Goal
  BY <1>22 DEF AuditReverted, Finish, Home, Log
<1>23. ASSUME NEW t \in Schedulers, FindDueScheduled(t) PROVE Goal
  BY <1>23 DEF FindDueScheduled, StartPass, DueOps
<1>24. ASSUME NEW t \in Schedulers, \E o \in Ops : Claim(t, o) PROVE Goal
  BY <1>24 DEF Claim, TakeNext, Begin, SetStatus
<1>25. ASSUME NEW t \in Schedulers, \E o \in Ops : ClaimLost(t, o) PROVE Goal
  BY <1>25 DEF ClaimLost, TakeNext
<1>26. ASSUME NEW t \in Schedulers, Caught(t) PROVE Goal
  BY <1>26 DEF Caught, Finish, Home
<1>27. ASSUME NEW t \in Expirers, FindExpiredPending(t) PROVE Goal
  BY <1>27 DEF FindExpiredPending, StartPass, OverdueOps
<1>28. ASSUME NEW t \in Expirers, \E o \in Ops : ExpireNext(t, o) PROVE Goal
  BY <1>28 DEF ExpireNext, TakeNext, Begin
<1>29. ASSUME NEW t \in Expirers, Expire(t) PROVE Goal
  BY <1>29 DEF Expire, Finish, Home, SetStatus, Log
<1>30. ASSUME NEW t \in Passes, EndPass(t) PROVE Goal
  BY <1>30 DEF EndPass
<1>31. CASE Suspend \/ Unsuspend \/ RevokeAgent
  BY <1>31 DEF Suspend, Unsuspend, RevokeAgent
<1>32. CASE DeleteAccount
  BY <1>32 DEF DeleteAccount
<1>33. CASE \E o \in Ops : CoolDownElapses(o) \/ DeadlinePasses(o)
  BY <1>33 DEF CoolDownElapses, DeadlinePasses
<1>34. ASSUME NEW T, Crash(T) PROVE Goal
  BY <1>34, DropKeepsOnce DEF Crash
<1>35. ASSUME NEW t \in Tasks, Fault(t)
      PROVE  Goal
  <2>1. CASE t \notin Expirers /\ Drop({t})
    <3>1. Charge({t}) /\ faulted \in [Ops -> BOOLEAN] /\ UNCHANGED effects
      BY <1>35 DEF Fault
    <3> HIDE DEF Accounted, Once
    <3> QED BY ONLY <2>1, <3>1, Once(x), x \in Ops, DropKeepsOnce
  <2>2. CASE t \in Expirers /\ Finish(t, "expire")
    BY <1>35, <2>2 DEF Fault, Finish, Home
  <2>3. CASE t \in Expirers /\ pc[t] \in {"restore", "queue"} /\ Goto(t, pc[t], "expire")
    BY <1>35, <2>3 DEF Fault, Goto
  <2> QED BY <1>35, <2>1, <2>2, <2>3 DEF Fault
<1>36. CASE UNCHANGED vars
  BY <1>36 DEF vars
<1> QED
  BY <1>1, <1>2, <1>3, <1>4, <1>5, <1>6, <1>7, <1>8, <1>9, <1>10,
     <1>11, <1>12, <1>13, <1>14, <1>15, <1>16, <1>17, <1>18, <1>19,
     <1>20, <1>21, <1>22, <1>23, <1>24, <1>25, <1>26, <1>27, <1>28,
     <1>29, <1>30, <1>31, <1>32, <1>33, <1>34, <1>35, <1>36
  DEF Next, Stager, Rejecting, Executing, Undoing, Scheduler, Expirer, Environment

\* As long as no two tasks execute the same operation at once, whoever gave them the
\* permission, an operation that no failure met takes effect once: the double effect that
\* the claim of the cool-down loop does not bar (scheduler.py:69) is a matter of two
\* executors at once, and of nothing else.
THEOREM OneExecutorOneEffect ==
    Spec /\ []OneExecutor => [](\A o \in Ops : faulted[o] = FALSE => effects[o] <= 1)
<1> DEFINE Inv == \A o \in Ops : Once(o)
<1>1. Init => Inv
  BY DEF Init, Once
<1>2. DecisionInv /\ DecisionInv' /\ OneExecutor /\ OneExecutor' /\ Inv /\ [Next]_vars => Inv'
  BY StepKeepsOnce DEF DecisionInv
<1>3. Inv => \A o \in Ops : faulted[o] = FALSE => effects[o] <= 1
  BY DEF Once
<1> QED BY <1>1, <1>2, <1>3, DecisionInvAlways, PTL DEF Spec

=============================================================================
