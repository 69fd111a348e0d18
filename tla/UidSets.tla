------------------------------- MODULE UidSets -------------------------------
(***************************************************************************)
(* IMAP UID sets as gateway/state_db.py reads them, in two ways that are    *)
(* meant to agree: _expand_uid_set for the local mirror, and the parsers    *)
(* inside get_pending_move_uids_for_folder and                              *)
(* get_pending_flag_changes_for_uid for what the agent is shown.            *)
(*                                                                         *)
(* A UID set is a set of parts.  A part is a pair of ends; "7" is <<7, 7>>  *)
(* and "*" is <<Star, Star>>.                                               *)
(***************************************************************************)
EXTENDS Integers, FiniteSets, FiniteSetsExt

Star == 0

Single(u)   == {<<u, u>>}
Between(a, b) == {<<a, b>>}

(* What RFC 3501 means by a UID set in a mailbox with these UIDs. *)

Denoted(x, uids) == IF x = Star THEN Max(uids) ELSE x

MeansBy(part, u, uids) ==
    LET a == Denoted(part[1], uids)
        b == Denoted(part[2], uids)
    IN  u \in a .. b \cup b .. a

Meaning(set, uids) == {u \in uids : \E part \in set : MeansBy(part, u, uids)}

(* _expand_uid_set(uid_set_str, known_uids) *)

ExpandPart(part, known) ==
    LET low  == IF part[1] = Star THEN Max(known) ELSE part[1]
        high == IF part[2] = Star THEN Max(known) ELSE part[2]
    IN  known \cap (IF low > high THEN high .. low ELSE low .. high)

Expand(set, known) ==
    IF known = {} THEN {} ELSE UNION {ExpandPart(part, known) : part \in set}

(* get_pending_move_uids_for_folder: message_ids holds the whole UID set as *)
(* one string.  It is used when it is a number, or two numbers and a colon. *)

\* (mutant) "*" passes for a number
UnderstoodWithStar(set) == Cardinality(set) = 1

Understood(set) == Cardinality(set) = 1 /\ \A part \in set : Star \notin {part[1], part[2]}

PendingUids(set) ==
    IF Understood(set) THEN UNION {part[1] .. part[2] : part \in set} ELSE {}

(* _uid_in_set of get_pending_flag_changes_for_uid *)
UidInSet(u, set) == Understood(set) /\ \E part \in set : part[1] <= u /\ u <= part[2]

=============================================================================
