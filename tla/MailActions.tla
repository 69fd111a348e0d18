----------------------------- MODULE MailActions -----------------------------
(***************************************************************************)
(* What an approved operation does to the messages of the upstream mailbox  *)
(* (_execute_imap_upstream of gateway/execution.py), and what its undo does *)
(* to them (gateway/undo.py).  UIDs belong to one folder and one            *)
(* UIDVALIDITY: a message that moves gets another UID, which the server     *)
(* reports as COPYUID, the executor records in the audit row, and the undo  *)
(* reads again.  One operation is followed; what others do to the mailbox   *)
(* is among what the owner's own mail client does.                          *)
(***************************************************************************)
EXTENDS Integers, FiniteSets

CONSTANTS
    Msgs, Folders,
    Tasks,          \* requests that approve or undo
    MaxUid,         \* bound on the UIDs a folder gives out
    MaxOutside,     \* bound on what the owner's client and the server do
    MaxFaults       \* bound on lost or refused commands and restarts

MailAssumption ==
    /\ MaxUid \in Nat /\ MaxOutside \in Nat /\ MaxFaults \in Nat
    /\ IsFiniteSet(Msgs) /\ "none" \notin Folders

VARIABLES
    (* the mailbox: where each message is, its flags, UIDs given out, UIDVALIDITY *)
    pos, flags, uidnext, validity,
    (* what the server can do: MOVE, COPYUID *)
    hasMove, hasCopyUid,
    (* the operation: what was staged, its folder_to, its status, the detail of the
       latest 'executed' row of its trail *)
    plan, folderTo, status, detail,
    (* each task: where it is, the destination it holds *)
    pc, found,
    (* history: the messages staged, those of them with the flag, messages that the
       executions and the undos moved; did anything else touch the messages? *)
    meant, marked, taken, back, disturbed,
    outside, faults

mailVars == <<pos, flags, uidnext, validity>>
opVars   == <<plan, folderTo, status, detail>>
constVars == <<hasMove, hasCopyUid, meant, marked>>
boundVars == <<outside, faults>>
vars == <<mailVars, opVars, pc, found, constVars, taken, back, disturbed, boundVars>>

None == "none"
Nowhere == <<None, 0>>                      \* not delivered yet
Gone == <<None, 1>>
NoWay == [uids |-> {}, validity |-> 0]      \* no destination recorded

\* mark stands for mark_read and flag, unmark for their opposites; a trash
\* without a folder is a STORE of \Deleted.
Plans ==
    {p \in [kind : {"move", "trash", "mark", "unmark", "copy"}, from : Folders,
            to : Folders \cup {None}, uids : SUBSET (1 .. MaxUid)] :
        /\ p.from # p.to
        /\ p.kind \in {"move", "copy"} => p.to # None
        /\ p.kind \in {"mark", "unmark"} => p.to = None}

Flag == IF plan.kind = "trash" THEN "Deleted" ELSE "Flagged"
In(f) == {m \in Msgs : pos[m][1] = f}
At(f, S) == {m \in In(f) : pos[m][2] \in S}
Rank(m, M) == Cardinality({n \in M : pos[n][2] < pos[m][2]})
Staged == At(plan.from, plan.uids)

\* No two messages share a UID, UIDs are below the next one; who holds a
\* destination is about to record it or to move it back.
TypeOK ==
    /\ \A m \in Msgs : pos[m] \in {Nowhere, Gone} \/ (pos[m][1] \in Folders /\ pos[m][2] \in 1 .. uidnext[pos[m][1]] - 1)
    /\ \A m, n \in Msgs : pos[m] = pos[n] => m = n \/ pos[m] \in {Nowhere, Gone}
    /\ \A f \in Folders : uidnext[f] \in 1 .. MaxUid + 1
    /\ status \in {"free", "pending", "approved", "executed", "failed", "reverted"}
    /\ status # "free" => plan \in Plans /\ folderTo \in {plan.to, None}
    /\ \A t \in Tasks : found[t] # NoWay => pc[t] \in {"mark", "audit", "inverse"}

\* A mailbox of one folder or of two, with a message that is still to come.
Placements ==
    {p \in [Msgs -> (Folders \X (1 .. Cardinality(Msgs))) \cup {Nowhere}] :
        /\ \A m, n \in Msgs : p[m] = p[n] => m = n \/ p[m] = Nowhere
        /\ \A m \in Msgs : p[m][2] > 1 => \E n \in Msgs : p[n] = <<p[m][1], p[m][2] - 1>>}

Init ==
    /\ pos \in Placements /\ uidnext = [f \in Folders |-> Cardinality(In(f)) + 1]
    /\ flags \in [Msgs -> {{}, {"Flagged"}}]
    /\ validity = [f \in Folders |-> 1]
    /\ hasMove \in BOOLEAN /\ hasCopyUid \in BOOLEAN
    /\ plan = None /\ folderTo = None /\ status = "free" /\ detail = NoWay
    /\ pc = [t \in Tasks |-> "idle"] /\ found = [t \in Tasks |-> NoWay]
    /\ meant = {} /\ marked = {} /\ taken = {} /\ back = {} /\ disturbed = FALSE
    /\ outside = 0 /\ faults = 0

Goto(t, l) == pc' = [pc EXCEPT ![t] = l]
Hold(t, d) == found' = [found EXCEPT ![t] = d]

\* UID MOVE of M to the end of folder g.
MoveTo(M, g) ==
    /\ uidnext[g] + Cardinality(M) <= MaxUid + 1
    /\ pos' = [m \in Msgs |-> IF m \in M THEN <<g, uidnext[g] + Rank(m, M)>> ELSE pos[m]]
    /\ uidnext' = [uidnext EXCEPT ![g] = @ + Cardinality(M)]
    /\ UNCHANGED <<flags, validity>>

\* UID STORE +FLAGS or -FLAGS of one flag.
Store(M, flag, add) ==
    /\ flags' = [m \in Msgs |-> IF m \notin M THEN flags[m]
                                ELSE IF add THEN flags[m] \cup {flag} ELSE flags[m] \ {flag}]
    /\ UNCHANGED <<pos, uidnext, validity>>

-----------------------------------------------------------------------------
(* Staging and approval *)

\* The agent names messages by the UIDs they have at the time.
Stage ==
    /\ status = "free" /\ status' = "pending"
    /\ plan' \in Plans /\ folderTo' = plan'.to
    /\ plan'.uids # {} /\ plan'.uids \subseteq {pos[m][2] : m \in In(plan'.from)}
    /\ meant' = At(plan'.from, plan'.uids)
    /\ marked' = {m \in meant' : "Flagged" \in flags[m]}
    /\ UNCHANGED <<mailVars, detail, pc, found, hasMove, hasCopyUid, taken, back, disturbed, boundVars>>

\* Two approvals may both read 'pending' before either writes 'approved'; the
\* second execution is counted as a disturbance.
StartApprove(t) ==
    /\ pc[t] = "idle" /\ status = "pending" /\ Goto(t, "approve")
    /\ disturbed' = (disturbed \/ \E s \in Tasks : pc[s] # "idle")
    /\ UNCHANGED <<mailVars, opVars, found, constVars, taken, back, boundVars>>

FallsBack == plan.kind = "trash" /\ plan.to # None /\ ~hasMove

Approve(t) ==
    /\ pc[t] = "approve" /\ status' = "approved"
    /\ Goto(t, IF FallsBack THEN "forget" ELSE "relay")
    /\ UNCHANGED <<mailVars, plan, folderTo, detail, found, constVars, taken, back, disturbed, boundVars>>

-----------------------------------------------------------------------------
(* Execution *)

\* _clear_folder_to, in a transaction of its own before anything is sent.
Forget(t) ==
    /\ pc[t] = "forget" /\ Goto(t, "relay")
    /\ folderTo' = None
    /\ UNCHANGED <<mailVars, plan, status, detail, found, constVars, taken, back, disturbed, boundVars>>

Moves == plan.kind = "move" \/ (plan.kind = "trash" /\ plan.to # None /\ hasMove)

\* SELECT and the UID command.  UIDs that no message has are passed over; the
\* copies of a COPY are other messages.
Effect ==
    /\ IF Moves THEN MoveTo(Staged, plan.to) /\ taken' = taken \cup Staged
       ELSE IF plan.kind = "copy"
         THEN /\ uidnext[plan.to] + Cardinality(Staged) <= MaxUid + 1
              /\ uidnext' = [uidnext EXCEPT ![plan.to] = @ + Cardinality(Staged)]
              /\ UNCHANGED <<pos, flags, validity, taken>>
       ELSE Store(Staged, Flag, plan.kind # "unmark") /\ UNCHANGED taken

\* parse_copyuid: the UIDs given to the messages that moved, or nothing.
CopyUid == IF Moves /\ hasCopyUid /\ Staged # {}
           THEN [uids |-> {pos'[m][2] : m \in Staged}, validity |-> validity[plan.to]] ELSE NoWay

Relay(t) ==
    /\ pc[t] = "relay" /\ Goto(t, "mark")
    /\ Effect /\ Hold(t, CopyUid)
    /\ UNCHANGED <<opVars, constVars, back, disturbed, boundVars>>

\* The command took effect and its answer is lost, or it is refused.
RelayFails(t) ==
    /\ pc[t] = "relay" /\ Goto(t, "fail")
    /\ faults < MaxFaults /\ faults' = faults + 1
    /\ Effect \/ UNCHANGED <<mailVars, taken>>
    /\ UNCHANGED <<opVars, found, constVars, back, disturbed, outside>>

\* update_operation_status and record_audit_event are two transactions.
MarkExecuted(t) ==
    /\ pc[t] = "mark" /\ Goto(t, "audit") /\ status' = "executed"
    /\ UNCHANGED <<mailVars, plan, folderTo, detail, found, constVars, taken, back, disturbed, boundVars>>

AuditExecuted(t) ==
    /\ pc[t] = "audit" /\ Goto(t, "idle") /\ Hold(t, NoWay)
    /\ detail' = found[t]
    /\ UNCHANGED <<mailVars, plan, folderTo, status, constVars, taken, back, disturbed, boundVars>>

RecordFailure(t) ==
    /\ pc[t] = "fail" /\ Goto(t, "idle") /\ status' = "failed"
    /\ UNCHANGED <<mailVars, plan, folderTo, detail, found, constVars, taken, back, disturbed, boundVars>>

-----------------------------------------------------------------------------
(* Undo *)

MovesBack == plan.kind \in {"move", "trash"}

\* Without a folder to move back from, UndoError.
StartUndo(t) ==
    /\ pc[t] = "idle" /\ status = "executed" /\ plan.kind # "copy"
    /\ MovesBack => folderTo # None
    /\ Goto(t, IF MovesBack THEN "lookup" ELSE "inverse")
    /\ UNCHANGED <<mailVars, opVars, found, constVars, taken, back, disturbed, boundVars>>

\* (mutant) the UIDs of the source are taken for those of the destination
LookupSource(t) ==
    /\ pc[t] = "lookup" /\ Goto(t, "inverse")
    /\ Hold(t, [uids |-> plan.uids, validity |-> validity[plan.to]])
    /\ UNCHANGED <<mailVars, opVars, constVars, taken, back, disturbed, boundVars>>

\* _load_move_destination: the latest row counts; without a destination, UndoError.
Lookup(t) ==
    /\ pc[t] = "lookup" /\ Goto(t, IF detail = NoWay THEN "idle" ELSE "inverse")
    /\ Hold(t, detail)
    /\ UNCHANGED <<mailVars, opVars, constVars, taken, back, disturbed, boundVars>>

\* (mutant) UIDVALIDITY is not compared
RecordedAnyway(t) == At(plan.to, found[t].uids)

\* What UID MOVE finds of the recorded destination, in the folder in which it was
\* recorded.
Recorded(t) == IF validity[plan.to] = found[t].validity THEN At(plan.to, found[t].uids) ELSE {}

\* (mutant) the inverse of every STORE is -FLAGS
InverseRemoves(t) ==
    /\ IF MovesBack
         THEN Recorded(t) # {} /\ MoveTo(Recorded(t), plan.from) /\ back' = back \cup Recorded(t)
         ELSE Store(Staged, Flag, FALSE) /\ UNCHANGED back

\* The inverse command; UID MOVE with nothing to move is answered OK without a
\* COPYUID, and counts as none.
Inverse(t) ==
    /\ IF MovesBack
         THEN Recorded(t) # {} /\ MoveTo(Recorded(t), plan.from) /\ back' = back \cup Recorded(t)
         ELSE Store(Staged, Flag, plan.kind = "unmark") /\ UNCHANGED back

\* (mutant) the answer to UID MOVE is not searched for a COPYUID
UndoRelayTrusting(t) ==
    /\ pc[t] = "inverse" /\ Goto(t, "revert") /\ Hold(t, NoWay)
    /\ Inverse(t) \/ (MovesBack /\ Recorded(t) = {} /\ UNCHANGED <<mailVars, back>>)
    /\ UNCHANGED <<opVars, constVars, taken, disturbed, boundVars>>

UndoRelay(t) ==
    /\ pc[t] = "inverse" /\ Goto(t, "revert") /\ Hold(t, NoWay)
    /\ Inverse(t)
    /\ UNCHANGED <<opVars, constVars, taken, disturbed, boundVars>>

\* UndoError: nothing was there to move, or the command is refused, or its answer
\* is lost.  The operation stays 'executed'.
UndoFails(t) ==
    /\ pc[t] = "inverse" /\ Goto(t, "idle") /\ Hold(t, NoWay)
    /\ \/ MovesBack /\ Recorded(t) = {} /\ UNCHANGED <<mailVars, back, faults>>
       \/ /\ faults < MaxFaults /\ faults' = faults + 1
          /\ Inverse(t) \/ UNCHANGED <<mailVars, back>>
    /\ UNCHANGED <<opVars, constVars, taken, disturbed, outside>>

MarkReverted(t) ==
    /\ pc[t] = "revert" /\ Goto(t, "idle") /\ status' = "reverted"
    /\ UNCHANGED <<mailVars, plan, folderTo, detail, found, constVars, taken, back, disturbed, boundVars>>

\* The process ends, and with it every request.
Restart ==
    /\ faults < MaxFaults /\ faults' = faults + 1
    /\ \E t \in Tasks : pc[t] # "idle"
    /\ pc' = [t \in Tasks |-> "idle"] /\ found' = [t \in Tasks |-> NoWay]
    /\ UNCHANGED <<mailVars, opVars, constVars, taken, back, disturbed, outside>>

-----------------------------------------------------------------------------
(* The owner's client, new mail, and a server that numbers a folder anew *)

Elsewhere(M) ==
    /\ outside < MaxOutside /\ outside' = outside + 1
    /\ disturbed' = (disturbed \/ meant \cap M # {})
    /\ UNCHANGED <<opVars, pc, found, constVars, taken, back, faults>>

OwnerMoves(m, f) == pos[m][1] \in Folders \ {f} /\ MoveTo({m}, f) /\ Elsewhere({m})
OwnerFlags(m) == pos[m][1] \in Folders /\ Store({m}, "Flagged", "Flagged" \notin flags[m]) /\ Elsewhere({m})
Arrive(m, f) == pos[m] = Nowhere /\ MoveTo({m}, f) /\ Elsewhere({})

OwnerDeletes(m) ==
    /\ pos[m][1] \in Folders /\ Elsewhere({m})
    /\ pos' = [pos EXCEPT ![m] = Gone] /\ UNCHANGED <<flags, uidnext, validity>>

Renumber(f) ==
    /\ validity' = [validity EXCEPT ![f] = @ + 1]
    /\ \E number \in [In(f) -> 1 .. Cardinality(In(f))] :
          /\ \A m, n \in In(f) : number[m] = number[n] => m = n
          /\ pos' = [m \in Msgs |-> IF m \in In(f) THEN <<f, number[m]>> ELSE pos[m]]
    /\ uidnext' = [uidnext EXCEPT ![f] = Cardinality(In(f)) + 1]
    /\ Elsewhere(meant) /\ UNCHANGED flags

Executing(t) == Approve(t) \/ Forget(t) \/ Relay(t) \/ RelayFails(t) \/ MarkExecuted(t) \/ AuditExecuted(t) \/ RecordFailure(t)
Undoing(t) == Lookup(t) \/ UndoRelay(t) \/ UndoFails(t) \/ MarkReverted(t)

Next ==
    \/ Stage \/ \E t \in Tasks : StartApprove(t) \/ StartUndo(t) \/ Executing(t) \/ Undoing(t)
    \/ \E m \in Msgs, f \in Folders : OwnerMoves(m, f) \/ Arrive(m, f)
    \/ \E m \in Msgs : OwnerDeletes(m) \/ OwnerFlags(m)
    \/ (\E f \in Folders : Renumber(f)) \/ Restart

Spec == Init /\ [][Next]_vars

-----------------------------------------------------------------------------
(* Properties *)

\* An undo takes back only messages that the operation itself moved, whoever
\* moved, deleted or delivered mail since and however the folders were numbered,
\* and a move is reverted only when something did come back.
\* gateway/undo.py:44-47 - "the old number may belong to an unrelated message (or
\* to nothing, which used to report a false 'reverted')".
UndoIsTrue == back \subseteq taken /\ (status = "reverted" /\ MovesBack => back # {})

\* Everything is as it was when the operation was staged: its messages are in
\* their folder, and have the flag that they had unless they differed in it.
Restored ==
    \A m \in meant :
        /\ pos[m][1] = plan.from
        /\ plan.kind = "mark" /\ marked = {} => "Flagged" \notin flags[m]
        /\ plan.kind = "unmark" /\ marked = meant => "Flagged" \in flags[m]

\* As long as nobody but the operation and its undo touches the messages and the
\* folders keep their numbering, an undo that has read a destination finds every
\* message there, and what is reverted is restored (undo_operation,
\* _load_move_destination, _execute_undo_imap).
UndoRestores ==
    ~disturbed =>
        /\ status = "reverted" => Restored
        /\ \A t \in Tasks : pc[t] = "inverse" /\ MovesBack /\ back = {} => Recorded(t) = meant

(* What comments and docs say and the code does not keep to *)

\* gateway/undo.py:144 - "Reverse an executed operation": the undo of a mark_read
\* or flag takes the flag from messages that had it before, too.
UndoReverses ==
    ~disturbed /\ status = "reverted" /\ plan.kind = "mark" =>
        \A m \in meant : "Flagged" \in flags[m] <=> m \in marked

\* gateway/execution.py:505 - the destination is recorded "so undo can address the
\* messages in the destination mailbox": an undo that comes between the status
\* and the audit row, or after a second execution, finds none.
ExecutedIsUndoable == status = "executed" /\ taken # {} /\ hasCopyUid => detail # NoWay

=============================================================================
