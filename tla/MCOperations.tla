----------------------------- MODULE MCOperations -----------------------------
(* Instances of Operations for TLC. *)
EXTENDS Operations, TLC

\* Tasks of one kind, and operations of one protocol, are interchangeable.
Symmetry ==
    Permutations(Requests) \cup Permutations(Schedulers) \cup Permutations(Expirers)

=============================================================================
