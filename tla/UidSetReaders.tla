---------------------------- MODULE UidSetReaders ----------------------------
(***************************************************************************)
(* The readers of UID sets (UidSets) against what the set denotes, over     *)
(* every mailbox with UIDs up to MaxUid and every set of at most two parts. *)
(***************************************************************************)
EXTENDS UidSets

CONSTANTS MaxUid

VARIABLES uids, set

vars == <<uids, set>>

Ends == 1 .. MaxUid \cup {Star}

\* "7", "*", "2:5", "5:2", "*:3", "3:*" and two of these with a comma.
UidSetsOf == {{p, q} : p \in Ends \X Ends, q \in Ends \X Ends}

Init == uids = {} /\ set \in UidSetsOf

\* Messages come and go.
Change ==
    /\ uids' \in SUBSET (1 .. MaxUid)
    /\ UNCHANGED set

Next == Change

Spec == Init /\ [][Next]_vars

\* The reader that takes the snapshot of an operation finds exactly the
\* messages the set denotes in the mirror: reversed ranges, "*" and unions
\* included (_expand_uid_set, gateway/state_db.py:904).
ExpandIsMeaning == uids # {} => Expand(set, uids) = Meaning(set, uids)

\* The readers that decide what the agent is shown never act on a message the
\* set does not denote (get_pending_move_uids_for_folder and _uid_in_set).
ShownOnlyIfMeant ==
    uids # {} => /\ PendingUids(set) \cap uids \subseteq Meaning(set, uids)
                 /\ \A u \in uids : UidInSet(u, set) => u \in Meaning(set, uids)

\* The two ways of reading agree on a plain number or an ascending range.
PlainSetsAgree ==
    \A u, v \in uids : u <= v =>
        /\ PendingUids(Between(u, v)) \cap uids = Expand(Between(u, v), uids)
        /\ \A w \in uids : UidInSet(w, Between(u, v)) <=> w \in PendingUids(Between(u, v))

=============================================================================
