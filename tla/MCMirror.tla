------------------------------- MODULE MCMirror -------------------------------
(***************************************************************************)
(* Instances for TLC of the two views of a mailbox: the mirror and what the *)
(* agents are shown of it (Mirror), and the messages themselves while an    *)
(* operation is executed and undone (MailActions).  The two share no        *)
(* variable, so that a behaviour moves one of them only.                    *)
(***************************************************************************)
EXTENDS Mirror, TLC

CONSTANTS o1, o2, m1, m2, inbox, archive, Msgs, Folders, Tasks, MaxOutside, MaxFaults

VARIABLES
    moving,                                             \* the one that moves
    pos, flags, nextIn, validity, hasMove, hasCopyUid, plan, folderTo, stage, detail,
    pc, found, aimed, marked, taken, back, disturbed, outside, faults     \* of MailActions

mailActionVars ==
    <<pos, flags, nextIn, validity, hasMove, hasCopyUid, plan, folderTo, stage, detail,
      pc, found, aimed, marked, taken, back, disturbed, outside, faults>>

Mail == INSTANCE MailActions WITH uidnext <- nextIn, status <- stage, meant <- aimed

ASSUME MailsAssumption == Mail!MailAssumption

MirrorInit ==
    /\ moving \in {"mirror", "mail"} /\ Init /\ Mail!Init
    /\ pos[m1] = <<inbox, 1>>       \* the other placements differ by names
    /\ IF moving = "mail" THEN mailbox = [u \in Uids \ {MaxUid} |-> {}]
       ELSE pos[m2] = <<archive, 1>> /\ flags = [m \in Msgs |-> {}] /\ hasMove /\ hasCopyUid

MirrorNext ==
    \/ moving = "mirror" /\ Next /\ UNCHANGED <<moving, mailActionVars>>
    \/ moving = "mail" /\ Mail!Next /\ UNCHANGED <<moving, vars>>

MirrorSpec == MirrorInit /\ [][MirrorNext]_<<moving, vars, mailActionVars>>

\* An undo takes back only messages that its operation moved, a move is reverted
\* only when one of them came back, and the undo of an operation that nothing has
\* disturbed restores what was there (undo_operation, _load_move_destination).
UndoIsTrue == Mail!UndoIsTrue /\ Mail!UndoRestores

Store(set, add, remove) == [type |-> "store", set |-> set, add |-> add, remove |-> remove]
Move(set) == [type |-> "move", set |-> set, add |-> {}, remove |-> {}]

\* Two operations that share no message; the last message is still to arrive.
Disjoint(o) ==
    IF o = o1 THEN {Store(Between(2, 1), {"S"}, {}), Move(Between(1, 2))}
              ELSE {Store(Single(3), {"S"}, {}), Move(Single(3))}

\* Which is what the theorems about Mirror are about.
ASSUME DisjointIsApart ==
    (\A o \in Ops : Commands(o) = Disjoint(o)) => Apart /\ Starless

(* Instances for the statements at the end of Mirror *)

\* Operations on one message.
Same(o) == IF o = o1 THEN {Store(Single(1), {}, {"S"})} ELSE {Store(Single(1), {"S"}, {})}

\* A range of messages that no FETCH has brought yet.
Ranges(o) == {Store(Between(1, 2), {"S"}, {})}

\* A range that grows with new mail.
Later(o) == {Move(Between(1, Star))}

\* Plain numbers separated by commas.
Lists(o) == {Move(Single(1) \cup Single(2))}

\* A range that is longer than the mailbox.
Wide(o) == {Move(Between(2, 4))}

=============================================================================
