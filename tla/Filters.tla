------------------------------- MODULE Filters -------------------------------
(***************************************************************************)
(* The elements of a sequence that are in a set, in their order: a WHERE of *)
(* the database, or a comprehension with an `if`.  It is what SelectSeq     *)
(* gives, defined by a function so that it can be reasoned about.           *)
(***************************************************************************)
EXTENDS Naturals, Sequences

Filter(s, T) ==
    LET kept[i \in 0 .. Len(s)] ==
            IF i = 0 THEN <<>>
            ELSE IF s[i] \in T THEN Append(kept[i - 1], s[i]) ELSE kept[i - 1]
    IN  kept[Len(s)]

=============================================================================
