-------------------------------- MODULE MCTrail --------------------------------
(***************************************************************************)
(* Instances for TLC of what remains of an operation: the hash-chained log  *)
(* (AuditChain), and the scrubbing and purging of the rows it speaks of     *)
(* (Retention).  The two share no variable, so that a behaviour moves one   *)
(* `half` only.                                                             *)
(***************************************************************************)
EXTENDS Naturals, Sequences

CONSTANTS
    Writers, Recorders, ApiWriters, UserWriters, NoOne, SlowCommits,
    MaxRows, MaxPurges,                         \* of AuditChain
    Ops, Passes, Limit, MaxFaults               \* of Retention

VARIABLES
    half,                                       \* the one that moves
    chain, hashes, dbLock, auditLock, pc, prev, lost,
    checker, anchor, purges,                    \* of AuditChain
    user, session, status, body, scrubbed, order, old,
    trail, staged, pass, purge, faults          \* of Retention

chainVars == <<chain, hashes, dbLock, auditLock, pc, prev, lost,
               checker, anchor, purges>>
keptVars  == <<user, session, status, body, scrubbed, order, old,
               trail, staged, pass, purge, faults>>

Chain == INSTANCE AuditChain WITH minted <- hashes
Kept  == INSTANCE Retention

ASSUME ChainAssumption == Chain!WritersAssumption /\ Chain!BoundsAssumption
ASSUME KeptAssumption == Kept!RetentionAssumption

TrailInit == half \in {"chain", "rows"} /\ Chain!Init /\ Kept!Init

TrailNext ==
    \/ half = "chain" /\ Chain!Next /\ UNCHANGED <<half, keptVars>>
    \/ half = "rows" /\ Kept!Next /\ UNCHANGED <<half, chainVars>>

\* The fairness of each, asked of the half that moves.
TrailSpec ==
    /\ TrailInit /\ [][TrailNext]_<<half, chainVars, keptVars>>
    /\ \A w \in Writers :
          /\ SF_chainVars(half = "chain" /\ Chain!ReadHead(w))
          /\ WF_chainVars(half = "chain" /\ (Chain!Insert(w) \/ Chain!BusyTimeout(w)))
          /\ WF_chainVars(half = "chain" /\ Chain!ReleaseLock(w))
          /\ WF_chainVars(half = "chain" /\ (Chain!Commit(w) \/ Chain!Rollback(w)))
    /\ \A p \in Passes : WF_keptVars(half = "rows" /\ Kept!Pass(p))
    /\ WF_keptVars(half = "rows" /\ Kept!Purge)
    /\ WF_keptVars(half = "rows" /\ Kept!WindowPasses)
    /\ \A o \in Ops : WF_keptVars(half = "rows" /\ Kept!Age(o))

\* As long as every row was written by a writer that wrote before it read the head, and
\* nothing was purged, the hourly verification raises no alarm (verify_audit_chain,
\* verify_against_anchor).
NoFalseAlarm == Chain!NoFalseAlarm

\* A row written inside a transaction that wrote before links to the row before
\* it, and no row links to one that was rolled back (insert_audit_event reads the
\* head of the committed rows under the write lock).
LinksHold == [][Chain!NoDanglingLink']_chainVars /\ Chain!TxRowsLink

\* The body of an operation that may still be executed is in its row, however
\* long it waits and whatever scrubs meanwhile, and no body goes without the event
\* that says so (find_scrubable_operations, _scrub_one).
ScrubbingIsSafe == Kept!PendingKeepsBody /\ Kept!ScrubIsAudited

\* Every writer of the chain ends, by its commit or the busy timeout, and a body of a
\* decided operation is scrubbed or purged in the end, though passes are bounded and
\* fail (insert_audit_event, scrub_expired_body_previews).
WritersAndPassesEnd == Chain!EveryWriterEnds /\ Kept!DecidedIsScrubbed

\* gateway/audit.py:14 - no two insertions ever read the same prev_hash.
NoSharedPrev == Chain!NoSharedPrev

=============================================================================
