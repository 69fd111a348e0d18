---------------------------- MODULE ApprovalPromise ----------------------------
(***************************************************************************)
(* What the approval queue promises the owner of a mailbox: an operation    *)
(* takes effect only by spending a permission, a permission is given only   *)
(* while the operation is open, and a closed operation never reopens.       *)
(* Several permissions may be out at once and outlive the closing: the      *)
(* queue bounds the effects by the permissions, it does not make them       *)
(* exclusive.                                                               *)
(***************************************************************************)
EXTENDS Naturals

CONSTANTS Ops, Tasks

VARIABLES
    phase,    \* of an operation: "absent", "open" or "closed"
    grants,   \* tasks that hold a permission to execute it
    effects   \* how often it took effect

vars == <<phase, grants, effects>>

Init ==
    /\ phase   = [o \in Ops |-> "absent"]
    /\ grants  = [o \in Ops |-> {}]
    /\ effects = [o \in Ops |-> 0]

\* The stager may be told by a rule to execute at once.
Stage(t, o) ==
    /\ phase[o] = "absent"
    /\ phase'  = [phase  EXCEPT ![o] = "open"]
    /\ grants' = [grants EXCEPT ![o] = {t}]
    /\ UNCHANGED effects

\* Permission is given to a task while the operation is open, or by closing it.
Grant(t, o) ==
    /\ phase[o] = "open"
    /\ grants' = [grants EXCEPT ![o] = @ \cup {t}]
    /\ phase' \in {phase, [phase EXCEPT ![o] = "closed"]}
    /\ UNCHANGED effects

Execute(t, o) ==
    /\ t \in grants[o]
    /\ grants'  = [grants  EXCEPT ![o] = @ \ {t}]
    /\ effects' = [effects EXCEPT ![o] = @ + 1]
    /\ UNCHANGED phase

\* A refusal, a failure or a crash takes permissions back, unspent.
Withdraw(T) ==
    /\ grants' = [o \in Ops |-> grants[o] \ T]
    /\ UNCHANGED <<phase, effects>>

Close(S) ==
    /\ phase' = [o \in Ops |-> IF o \in S /\ phase[o] = "open" THEN "closed" ELSE phase[o]]
    /\ UNCHANGED <<grants, effects>>

Next ==
    \/ \E t \in Tasks, o \in Ops : Stage(t, o) \/ Grant(t, o) \/ Execute(t, o)
    \/ \E T \in SUBSET Tasks : Withdraw(T)
    \/ \E S \in SUBSET Ops : Close(S)

Spec == Init /\ [][Next]_vars

=============================================================================
