------------------------------ MODULE AuditChain ------------------------------
(***************************************************************************)
(* gateway/audit.py: the hash-chained audit log, its writers in two         *)
(* processes, the verification loop with its external anchor, and the       *)
(* retention purge of gateway/retention.py.                                 *)
(*                                                                         *)
(* Two locks guard an insertion.  The asyncio lock _AUDIT_LOCK is one per   *)
(* process and is held from reading the chain head to the last statement of *)
(* insert_audit_event, not to the commit.  SQLite's write lock is one for   *)
(* the file and is held from a connection's first write to its commit.      *)
(*                                                                         *)
(*   Recorders  call record_audit_event (or export_account): nothing was    *)
(*              written on the connection before, so the head is read       *)
(*              outside any transaction                                     *)
(*   the others write first (create_operation, _expire_one, _scrub_one,     *)
(*              delete_account) and call insert_audit_event inside their    *)
(*              transaction                                                 *)
(*                                                                         *)
(* A hash is a number never used before; 0 is GENESIS_HASH.                 *)
(***************************************************************************)
EXTENDS Naturals, Sequences, FiniteSets, Filters

CONSTANTS
    Writers, Recorders,
    ApiWriters,    \* those in the API process; the others are in a proxy
    UserWriters,   \* those whose row carries a user_id
    NoOne,
    SlowCommits,   \* may a transaction outlast busy_timeout?  _purge_user awaits
                   \* network calls inside one
    MaxRows,       \* bound on the rows ever inserted
    MaxPurges      \* bound on retention purges

WritersAssumption ==
    /\ Recorders \subseteq Writers /\ ApiWriters \subseteq Writers
    /\ UserWriters \subseteq Writers /\ NoOne \notin Writers
BoundsAssumption ==
    MaxRows \in Nat /\ MaxPurges \in Nat /\ SlowCommits \in BOOLEAN

VARIABLES
    chain,      \* audit_log in id order: rows of hash, prev, tx (by a
                \* transaction that wrote first) and user
    minted,     \* hashes computed so far
    dbLock,     \* holder of SQLite's write lock
    auditLock,  \* holder of _AUDIT_LOCK, by process
    pc, prev,   \* of each writer: where it is, the head it read
    lost,       \* rows given up with "database is locked"
    checker,    \* the verification loop: "asleep", "verified" or "alarm"
    anchor,     \* last head in the anchor sink, 0 when none
    purges

vars == <<chain, minted, dbLock, auditLock, pc, prev, lost, checker, anchor, purges>>
logVars   == <<chain, minted>>
checkVars == <<checker, anchor, purges>>

Procs == {"api", "proxy"}
Proc(w) == IF w \in ApiWriters THEN "api" ELSE "proxy"

Row == [hash : Nat, prev : Nat, tx : BOOLEAN, user : BOOLEAN]
WriterPcs == {"idle", "head", "insert", "release", "commit"}

\* A task computes a hash only while it holds the lock of its process.
TypeOK ==
    /\ chain \in Seq(Row) /\ minted \in 0 .. MaxRows
    /\ dbLock \in Writers \cup {NoOne}
    /\ auditLock \in [Procs -> Writers \cup {NoOne}]
    /\ pc \in [Writers -> WriterPcs] /\ prev \in [Writers -> Nat]
    /\ lost \in Nat
    /\ checker \in {"asleep", "verified", "alarm"}
    /\ anchor \in Nat /\ purges \in 0 .. MaxPurges
    /\ \A w \in Writers : pc[w] \in {"insert", "release"} => auditLock[Proc(w)] = w

Init ==
    /\ chain = <<>> /\ minted = 0
    /\ dbLock = NoOne /\ auditLock = [p \in Procs |-> NoOne]
    /\ pc = [w \in Writers |-> "idle"] /\ prev = [w \in Writers |-> 0]
    /\ lost = 0
    /\ checker = "asleep" /\ anchor = 0 /\ purges = 0

Goto(w, from, to) == pc[w] = from /\ pc' = [pc EXCEPT ![w] = to]

\* get_chain_head, and the SELECT of insert_audit_event.
Head0(c) == IF c = <<>> THEN 0 ELSE c[Len(c)].hash

-----------------------------------------------------------------------------
(* Writers *)

\* (mutant) the head is read before the transaction has written anything
BeginTxLate(w) ==
    /\ w \notin Recorders
    /\ Goto(w, "idle", "head")
    /\ minted + Cardinality({v \in Writers : pc[v] # "idle"}) < MaxRows
    /\ UNCHANGED <<logVars, dbLock, auditLock, prev, lost, checkVars>>

\* A transaction's first write; it waits here for other writers.
BeginTx(w) ==
    /\ w \notin Recorders
    /\ Goto(w, "idle", "head")
    /\ minted + Cardinality({v \in Writers : pc[v] # "idle"}) < MaxRows
    /\ dbLock = NoOne /\ dbLock' = w
    /\ UNCHANGED <<logVars, auditLock, prev, lost, checkVars>>

BeginRecord(w) ==
    /\ w \in Recorders
    /\ Goto(w, "idle", "head")
    /\ minted + Cardinality({v \in Writers : pc[v] # "idle"}) < MaxRows
    /\ UNCHANGED <<logVars, dbLock, auditLock, prev, lost, checkVars>>

\* (mutant) the last hash is remembered in memory, committed or not
ReadLastMinted(w) ==
    /\ Goto(w, "head", "insert")
    /\ auditLock[Proc(w)] = NoOne
    /\ auditLock' = [auditLock EXCEPT ![Proc(w)] = w]
    /\ prev' = [prev EXCEPT ![w] = minted]
    /\ UNCHANGED <<logVars, dbLock, lost, checkVars>>

\* async with _AUDIT_LOCK, then the SELECT of the last hash: of the committed
\* rows, since the transaction has no audit row of its own yet.
ReadHead(w) ==
    /\ Goto(w, "head", "insert")
    /\ auditLock[Proc(w)] = NoOne
    /\ auditLock' = [auditLock EXCEPT ![Proc(w)] = w]
    /\ prev' = [prev EXCEPT ![w] = Head0(chain)]
    /\ UNCHANGED <<logVars, dbLock, lost, checkVars>>

\* INSERT with a NULL hash, then UPDATE with the hash over the new id.
Insert(w) ==
    /\ Goto(w, "insert", "release")
    /\ dbLock \in {NoOne, w} /\ dbLock' = w
    /\ UNCHANGED <<logVars, auditLock, prev, lost, checkVars>>

\* insert_audit_event returns; the caller has not committed yet.
ReleaseLock(w) ==
    /\ Goto(w, "release", "commit")
    /\ auditLock' = [auditLock EXCEPT ![Proc(w)] = NoOne]
    /\ UNCHANGED <<logVars, dbLock, prev, lost, checkVars>>

NewRow(w) == [hash |-> minted + 1, prev |-> prev[w],
              tx |-> w \notin Recorders, user |-> w \in UserWriters]

Commit(w) ==
    /\ Goto(w, "commit", "idle")
    /\ chain' = Append(chain, NewRow(w))
    /\ minted' = minted + 1
    /\ dbLock' = NoOne
    /\ UNCHANGED <<auditLock, prev, lost, checkVars>>

\* The transaction fails, or its process does, after the row was written.
Rollback(w) ==
    /\ Goto(w, "commit", "idle")
    /\ minted' = minted + 1
    /\ dbLock' = NoOne
    /\ UNCHANGED <<chain, auditLock, prev, lost, checkVars>>

\* The holder of the write lock waits for _AUDIT_LOCK, whose holder waits for
\* the write lock: neither can move.
Stuck ==
    /\ dbLock # NoOne /\ pc[dbLock] = "head"
    /\ auditLock[Proc(dbLock)] # NoOne
    /\ pc[auditLock[Proc(dbLock)]] = "insert"

\* (mutant) no busy_timeout: the INSERT waits for ever
NoTimeout(w) == FALSE /\ UNCHANGED vars

\* busy_timeout (5 s) passes and the INSERT raises "database is locked": for a
\* Recorder the row is all there was.
BusyTimeout(w) ==
    /\ Goto(w, "insert", "idle")
    /\ dbLock \notin {NoOne, w} /\ (SlowCommits \/ Stuck)
    /\ auditLock' = [auditLock EXCEPT ![Proc(w)] = NoOne]
    /\ lost' = lost + 1
    /\ minted' = minted + 1
    /\ UNCHANGED <<chain, dbLock, prev, checkVars>>

-----------------------------------------------------------------------------
(* Verification, anchoring, purge *)

\* verify_audit_chain: each row's prev_hash is the hash of the row before it,
\* the first row's is taken as it is.
Intact(c) == \A i \in 2 .. Len(c) : c[i].prev = c[i - 1].hash

\* verify_against_anchor
AnchorPresent == anchor = 0 \/ \E i \in DOMAIN chain : chain[i].hash = anchor

Verify ==
    /\ checker = "asleep"
    /\ checker' = IF Intact(chain) /\ AnchorPresent THEN "verified" ELSE "alarm"
    /\ UNCHANGED <<logVars, dbLock, auditLock, pc, prev, lost, anchor, purges>>

\* anchor_chain_head reads the head again, after the verification.
AnchorHead ==
    /\ checker = "verified" /\ checker' = "asleep"
    /\ anchor' = IF chain = <<>> THEN anchor ELSE Head0(chain)
    /\ UNCHANGED <<logVars, dbLock, auditLock, pc, prev, lost, purges>>

ClearAlarm ==
    /\ checker = "alarm" /\ checker' = "asleep"
    /\ UNCHANGED <<logVars, dbLock, auditLock, pc, prev, lost, anchor, purges>>

\* _purge_user, one transaction: DELETE FROM audit_log WHERE user_id = ?
Purge ==
    /\ purges < MaxPurges /\ purges' = purges + 1
    /\ dbLock = NoOne
    /\ chain' = Filter(chain, {r \in Row : ~r.user})
    /\ UNCHANGED <<minted, dbLock, auditLock, pc, prev, lost, checker, anchor>>

Writer(w) ==
    \/ BeginTx(w) \/ BeginRecord(w) \/ ReadHead(w) \/ Insert(w)
    \/ ReleaseLock(w) \/ Commit(w) \/ Rollback(w) \/ BusyTimeout(w)

Next ==
    \/ \E w \in Writers : Writer(w)
    \/ Verify \/ AnchorHead \/ ClearAlarm \/ Purge

Spec == Init /\ [][Next]_vars

\* Every connection's thread and every event loop keeps running, and the
\* waiters of an asyncio.Lock are served in turn.
FairSpec == Spec /\ \A w \in Writers :
    /\ SF_vars(ReadHead(w))
    /\ WF_vars(Insert(w) \/ BusyTimeout(w))
    /\ WF_vars(ReleaseLock(w)) /\ WF_vars(Commit(w) \/ Rollback(w))

-----------------------------------------------------------------------------
(* Properties *)

\* A row written inside a transaction that wrote before links to the row before
\* it, in whichever process: the write lock covers the reading of the head.
TxRowsLink ==
    [][Len(chain') > Len(chain) /\ chain'[Len(chain')].tx
         => chain'[Len(chain')].prev = Head0(chain)]_vars

\* No row is chained to a row that was rolled back: a link is to a row of the
\* log, or to one that was purged, or to the start.
NoDanglingLink ==
    purges = 0 => \A i \in DOMAIN chain :
        chain[i].prev = 0 \/ \E j \in 1 .. i - 1 : chain[j].hash = chain[i].prev

\* As long as every row was written by a writer that wrote before it read the
\* head, in whichever process, and nothing was purged, the chain is whole and the
\* anchored row in it: the hourly verification raises no alarm.
NoFalseAlarm ==
    purges = 0 /\ (\A i \in DOMAIN chain : chain[i].tx) => checker # "alarm"

\* Whoever starts to write an audit row ends, having written it or given up:
\* the two locks are taken in opposite orders, and busy_timeout resolves it.
EveryWriterEnds == \A w \in Writers : pc[w] # "idle" ~> pc[w] = "idle"

-----------------------------------------------------------------------------
(* What comments and docs say and the code does not keep to *)

\* gateway/audit.py:14 - "An asyncio.Lock serialises all insertions so two
\* concurrent coroutines can never read the same prev_hash."
NoSharedPrev ==
    \A i, j \in DOMAIN chain : chain[i].prev = chain[j].prev => i = j

\* docs/security/audit-chain-anchoring.md:37-38 - the loop "re-anchors only a head
\* it just verified intact".
AnchorsOnlyIntact == [][anchor' # anchor => Intact(chain)]_vars

\* README.md:943 - "every staged operation, approval, rejection, and execution
\* is recorded".
NoRowLost == lost = 0

=============================================================================
