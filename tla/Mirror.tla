-------------------------------- MODULE Mirror --------------------------------
(***************************************************************************)
(* The local mirror of one folder (messages rows of gateway/state_db.py)    *)
(* and what the agents' IMAP sessions are shown of it: the optimistic       *)
(* change when a STORE or MOVE is staged, the FETCH lines patched or        *)
(* suppressed while it is pending, its execution on the real mailbox, or    *)
(* the rollback from the snapshot and the reverts injected afterwards.      *)
(* Operations has the handlers and statuses; here a decision is one step    *)
(* and the data is what counts.                                             *)
(***************************************************************************)
EXTENDS UidSets, Sequences, SequencesExt, Filters

CONSTANTS
    MaxUid, Flags,
    Ops,             \* staged operations
    Commands(_),     \* the STORE or MOVE commands each may stand for:
                     \* sets of [type, set, add, remove]
    Sessions,        \* IMAP sessions with this folder selected
    MaxPending,      \* bound on the operations pending at a time
    Outside          \* what happens to the mailbox meanwhile: the owner's own
                     \* client changes "flags", new "mail" arrives

ASSUME MirrorAssumption ==
    MaxUid \in Nat \ {0} /\ MaxPending \in Nat /\ Outside \subseteq {"flags", "mail"}

ASSUME CommandsAssumption ==
    \A o \in Ops : Commands(o) \subseteq
        [type : {"store", "move"}, set : SUBSET ((0 .. MaxUid) \X (0 .. MaxUid)),
         add : SUBSET Flags, remove : SUBSET Flags]

VARIABLES
    mailbox,   \* the real flags, by UID: a function on the UIDs there are
    rows,      \* messages.flags, by UID: a function on the UIDs mirrored
    status,    \* of each operation
    cmd, by,   \* its command and the session that sent it
    snapshot,  \* the flags it recorded, by UID
    usable,    \* can the keys of its snapshot be read back as UIDs?
    known,     \* history: UIDs mirrored when it was staged
    meant,     \* history: UIDs its set denoted in the mailbox then
    uidnext,   \* the UID of the next message to arrive
    elsewhere, \* history: UIDs whose flags another client changed
    order,     \* operations in the order of their created_at
    reverts,   \* undelivered pending_reverts, by created_at: [op, uid, flags]
    inject,    \* of each session: reverts written out, not yet marked
    view       \* of each session: the flags it was last told, by UID

stagedVars == <<cmd, by, snapshot, usable, known, meant>>
vars == <<mailbox, uidnext, elsewhere, rows, status, stagedVars, order, reverts, inject, view>>
mailVars == <<mailbox, uidnext, elsewhere>>

Uids == 1 .. MaxUid
None == "none"

\* Functions on some of the UIDs.
Tables == UNION {[U -> SUBSET Flags] : U \in SUBSET Uids}
Set(f, S, val(_)) == [u \in DOMAIN f \cup S |-> IF u \in S THEN val(u) ELSE f[u]]
Drop(f, S) == [u \in DOMAIN f \ S |-> f[u]]

\* An operation is pending exactly while it is in the order of the queue.
TypeOK ==
    /\ mailbox \in Tables /\ rows \in Tables
    /\ status \in [Ops -> {"free", "snapped", "shown", "pending", "executed",
                           "failed", "rejected", "reverted", "stuck"}]
    /\ \A o \in Ops : snapshot[o] \in Tables
    /\ \A s \in Sessions : view[s] \in Tables /\ inject[s] \subseteq ToSet(reverts)
    /\ \A o \in Ops : status[o] = "pending" <=> o \in ToSet(order)

Init ==
    /\ mailbox \in [Uids \ {MaxUid} -> {{}, Flags}] /\ uidnext = MaxUid
    /\ elsewhere = {}
    /\ rows = <<>>
    /\ status = [o \in Ops |-> "free"]
    /\ cmd = [o \in Ops |-> None] /\ by = [o \in Ops |-> None]
    /\ snapshot = [o \in Ops |-> <<>>] /\ usable = [o \in Ops |-> TRUE]
    /\ known = [o \in Ops |-> {}] /\ meant = [o \in Ops |-> {}]
    /\ order = <<>> /\ reverts = <<>> /\ inject = [s \in Sessions |-> {}]
    /\ view = [s \in Sessions |-> <<>>]

Pending == ToSet(order)
Changed(flags, c) == (flags \cup c.add) \ c.remove

-----------------------------------------------------------------------------
(* FETCH *)

MovedAway == UNION {PendingUids(cmd[o].set) : o \in {p \in Pending : cmd[p].type = "move"}}

Touching(u) == {o \in Pending : cmd[o].type = "store" /\ UidInSet(u, cmd[o].set)}

\* What get_pending_flag_changes_for_uid makes of the line: first everything
\* that is added, then everything that is removed.
Patched(u) ==
    (mailbox[u] \cup UNION {cmd[o].add : o \in Touching(u)})
        \ UNION {cmd[o].remove : o \in Touching(u)}

\* (mutant) the line is synced as the server sent it, before it is patched
FetchSyncsOriginal(s, u) ==
    /\ u \in DOMAIN mailbox
    /\ rows' = Set(rows, {u}, LAMBDA x : mailbox[x])
    /\ view' = IF u \in MovedAway THEN view
                ELSE [view EXCEPT ![s] = Set(@, {u}, LAMBDA x : Patched(x))]
    /\ UNCHANGED <<mailVars, status, stagedVars, order, reverts, inject>>

\* The line of a UID pending MOVE is not forwarded, but it is synced.
Fetch(s, u) ==
    /\ u \in DOMAIN mailbox
    /\ IF u \in MovedAway
         THEN /\ rows' = Set(rows, {u}, LAMBDA x : mailbox[x])
              /\ UNCHANGED view
         ELSE /\ rows' = Set(rows, {u}, LAMBDA x : Patched(x))
              /\ view' = [view EXCEPT ![s] = Set(@, {u}, LAMBDA x : Patched(x))]
    /\ UNCHANGED <<mailVars, status, stagedVars, order, reverts, inject>>

-----------------------------------------------------------------------------
(* Staging: three database accesses of one session *)

\* A flag change of messages nobody has fetched gets a made-up snapshot, keyed
\* by the UID set itself.
Snapshot(s, o) ==
    /\ status[o] = "free"
    /\ Cardinality({p \in Ops : status[p] \in {"snapped", "shown", "pending"}}) < MaxPending
    /\ \E c \in Commands(o) :
         LET found == Expand(c.set, DOMAIN rows)
             madeUp == c.type = "store" /\ found = {}
             number == {u \in Uids : c.set = Single(u)}
         IN  /\ cmd' = [cmd EXCEPT ![o] = c]
             /\ snapshot' = [snapshot EXCEPT ![o] =
                    IF madeUp THEN [u \in number |-> {}] ELSE [u \in found |-> rows[u]]]
             /\ usable' = [usable EXCEPT ![o] = madeUp => number # {}]
             /\ known' = [known EXCEPT ![o] = found]
             /\ meant' = [meant EXCEPT ![o] = Meaning(c.set, DOMAIN mailbox)]
    /\ status' = [status EXCEPT ![o] = "snapped"]
    /\ by' = [by EXCEPT ![o] = s]
    /\ UNCHANGED <<mailVars, rows, order, reverts, inject, view>>

\* apply_optimistic_flag_update, remove_messages_from_folder.  The agent, told
\* OK, believes in its change.
ShowOptimistic(o) ==
    /\ status[o] = "snapped"
    /\ LET c == cmd[o]
           hit == Expand(c.set, DOMAIN rows)
           seen == Meaning(c.set, DOMAIN mailbox) \cap DOMAIN view[by[o]]
       IN  IF c.type = "store"
             THEN /\ rows' = Set(rows, hit, LAMBDA u : Changed(rows[u], c))
                  /\ view' = [view EXCEPT ![by[o]] = Set(@, seen, LAMBDA u : Changed(@[u], c))]
             ELSE /\ rows' = Drop(rows, hit)
                  /\ view' = [view EXCEPT ![by[o]] = Drop(@, seen)]
    /\ status' = [status EXCEPT ![o] = "shown"]
    /\ UNCHANGED <<mailVars, stagedVars, order, reverts, inject>>

CreateOperation(o) ==
    /\ status[o] = "shown"
    /\ status' = [status EXCEPT ![o] = "pending"]
    /\ order' = Append(order, o)
    /\ UNCHANGED <<mailVars, rows, stagedVars, reverts, inject, view>>

-----------------------------------------------------------------------------
(* Decisions *)

\* (mutant) decided operations are still selected as pending
DecideStillListed(o, s) ==
    /\ status[o] = "pending"
    /\ status' = [status EXCEPT ![o] = s]
    /\ UNCHANGED order

Decide(o, s) ==
    /\ status[o] = "pending"
    /\ status' = [status EXCEPT ![o] = s]
    /\ order' = Filter(order, Ops \ {o})

\* The upstream reads the UID set when the operation is executed.
Execute(o) ==
    /\ Decide(o, "executed")
    /\ LET hit == Meaning(cmd[o].set, DOMAIN mailbox)
       IN  mailbox' = IF cmd[o].type = "store"
                        THEN Set(mailbox, hit, LAMBDA u : Changed(mailbox[u], cmd[o]))
                        ELSE Drop(mailbox, hit)
    /\ UNCHANGED <<uidnext, elsewhere, rows, stagedVars, reverts, inject, view>>

\* A failed execution leaves the mirror and the agent as they are.
Fail(o) ==
    /\ Decide(o, "failed")
    /\ UNCHANGED <<mailVars, rows, stagedVars, reverts, inject, view>>

Reject(o) ==
    /\ Decide(o, "rejected")
    /\ UNCHANGED <<mailVars, rows, stagedVars, reverts, inject, view>>

\* One pending_reverts row for each UID of the snapshot.
Told(o, table) ==
    SetToSeq({[op |-> o, uid |-> u, flags |-> table[u]] : u \in DOMAIN snapshot[o] \cap DOMAIN table})

\* (mutant) the row a MOVE took away is not put back
RestoreFlagsOnly(o) ==
    /\ status[o] = "rejected" /\ usable[o]
    /\ status' = [status EXCEPT ![o] = "reverted"]
    /\ rows' = [u \in DOMAIN rows |-> IF u \in DOMAIN snapshot[o] THEN snapshot[o][u] ELSE rows[u]]
    /\ reverts' = reverts \o Told(o, snapshot[o])
    /\ UNCHANGED <<mailVars, stagedVars, order, inject, view>>

\* (mutant) the reverts are queued with the flags the mirror shows
RestoreTellsOld(o) ==
    /\ status[o] = "rejected" /\ usable[o]
    /\ status' = [status EXCEPT ![o] = "reverted"]
    /\ rows' = Set(rows, DOMAIN snapshot[o], LAMBDA u : snapshot[o][u])
    /\ reverts' = reverts \o Told(o, rows)
    /\ UNCHANGED <<mailVars, stagedVars, order, inject, view>>

\* restore_from_snapshot and insert_pending_reverts: flags put back, rows put
\* back.  int("1:5") raises and the operation stays rejected without rollback.
Restore(o) ==
    /\ status[o] = "rejected" /\ usable[o]
    /\ status' = [status EXCEPT ![o] = "reverted"]
    /\ rows' = Set(rows, DOMAIN snapshot[o], LAMBDA u : snapshot[o][u])
    /\ reverts' = reverts \o Told(o, snapshot[o])
    /\ UNCHANGED <<mailVars, stagedVars, order, inject, view>>

RestoreRaises(o) ==
    /\ status[o] = "rejected" /\ ~usable[o]
    /\ status' = [status EXCEPT ![o] = "stuck"]
    /\ UNCHANGED <<mailVars, rows, stagedVars, order, reverts, inject, view>>

-----------------------------------------------------------------------------
(* _inject_pending_reverts *)

\* The client takes the lines in their order; of two for a UID the later holds.
Inject(s) ==
    /\ inject[s] = {} /\ reverts # <<>>
    /\ inject' = [inject EXCEPT ![s] = ToSet(reverts)]
    /\ view' = [view EXCEPT ![s] =
           Set(@, {r.uid : r \in ToSet(reverts)},
               LAMBDA u : Last(Filter(reverts, {r \in ToSet(reverts) : r.uid = u})).flags)]
    /\ UNCHANGED <<mailVars, rows, status, stagedVars, order, reverts>>

MarkDelivered(s) ==
    /\ inject[s] # {}
    /\ reverts' = Filter(reverts, ToSet(reverts) \ inject[s])
    /\ inject' = [t \in Sessions |-> IF t = s THEN {} ELSE inject[t] \ inject[s]]
    /\ UNCHANGED <<mailVars, rows, status, stagedVars, order, view>>

-----------------------------------------------------------------------------
(* The owner's own client and new mail *)

FlagElsewhere(u, f) ==
    /\ "flags" \in Outside /\ u \in DOMAIN mailbox
    /\ f \notin mailbox[u]
    /\ mailbox' = [mailbox EXCEPT ![u] = @ \cup {f}]
    /\ elsewhere' = elsewhere \cup {u}
    /\ UNCHANGED <<uidnext, rows, status, stagedVars, order, reverts, inject, view>>

Arrive ==
    /\ "mail" \in Outside /\ uidnext <= MaxUid
    /\ uidnext' = uidnext + 1
    /\ mailbox' = Set(mailbox, {uidnext}, LAMBDA u : {})
    /\ UNCHANGED <<elsewhere, rows, status, stagedVars, order, reverts, inject, view>>

Next ==
    \/ \E s \in Sessions : Inject(s) \/ MarkDelivered(s)
    \/ \E s \in Sessions, u \in Uids : Fetch(s, u)
    \/ \E s \in Sessions, o \in Ops : Snapshot(s, o)
    \/ \E o \in Ops :
          \/ ShowOptimistic(o) \/ CreateOperation(o)
          \/ Execute(o) \/ Fail(o) \/ Reject(o) \/ Restore(o) \/ RestoreRaises(o)
    \/ \E u \in Uids, f \in Flags : FlagElsewhere(u, f)
    \/ Arrive

Spec == Init /\ [][Next]_vars

-----------------------------------------------------------------------------
(* The operations that the properties below are asked of *)

\* The UIDs that a command may ever reach.
Reach(c) == {u \in Uids : \E U \in SUBSET Uids : u \in Meaning(c.set, U)}

\* No two operations name a message in common.
Apart ==
    \A o, p \in Ops : o # p =>
        \A c \in Commands(o), d \in Commands(p) : Reach(c) \cap Reach(d) = {}

\* None of them names messages by "*".
Starless == \A o \in Ops : \A c \in Commands(o) : \A ends \in c.set : Star \notin {ends[1], ends[2]}

\* The agents share one session.
OneSession == \A s, t \in Sessions : s = t

-----------------------------------------------------------------------------
(* Properties *)

\* Rolling back is exact: for the messages the mirror knew when the operation
\* was staged, the mirror and the reverts show the real flags again, whatever
\* was fetched, staged and decided in between.  Flags that another client has
\* changed are not the proxy's to restore: it learns of them by the next FETCH.
\* gateway/state_db.py:1298 - "so the AI re-syncs to true state".
RollbackIsTrue ==
    [][\A o \in Ops : status[o] = "rejected" /\ status'[o] = "reverted" =>
          \A u \in (known[o] \cap DOMAIN mailbox) \ elsewhere :
              /\ u \in DOMAIN rows' /\ rows'[u] = mailbox[u]
              /\ [op |-> o, uid |-> u, flags |-> mailbox[u]] \in ToSet(reverts')]_vars

\* UIDs of made-up snapshots.
MadeUp == UNION {DOMAIN snapshot[o] \ known[o] : o \in Ops}

\* The agent and the mirror agree, with the reverts that still wait to be
\* injected set against it: what is staged next is computed from flags the
\* agent has been shown, unless another client changes them meanwhile.
\* gateway/proxy.py:1008 - the optimistic update is made "so the AI sees the
\* proposed state immediately".
AgentSeesMirror ==
    \A s \in Sessions : reverts = <<>> /\ (\A o \in Ops : status[o] # "snapped") =>
        \A u \in (DOMAIN view[s] \cap DOMAIN rows) \ (MovedAway \cup MadeUp \cup elsewhere) : view[s][u] = rows[u]

\* A refused change does not stay in the view of the agent that made it.
\* gateway/state_db.py:1297 - reverts are "picked up by the proxy on the AI's
\* next SELECT/NOOP/FETCH".
RefusalReachesAgent ==
    \A o \in Ops :
        /\ status[o] = "reverted" /\ cmd[o].type = "store"
        /\ \A r \in ToSet(reverts) : r.op # o
        => \A u \in (known[o] \cap DOMAIN view[by[o]] \cap DOMAIN mailbox) \ elsewhere :
               Touching(u) = {} => view[by[o]][u] = mailbox[u]

\* A message is kept from the agent only while a MOVE that is still undecided
\* would take it, mail that arrives in between included.
HiddenWillMove ==
    \A u \in MovedAway \cap DOMAIN mailbox :
        \E o \in Ops :
            /\ status[o] = "pending" /\ cmd[o].type = "move"
            /\ u \in Meaning(cmd[o].set, DOMAIN mailbox)

\* Every rejected operation is rolled back, also one of messages not fetched yet.
\* gateway/proxy.py:1038 - the made-up snapshot "ensures revert can still fire".
RollbackCanRun == \A o \in Ops : status[o] # "stuck"

\* The agent sees the flags its pending operations will leave when they are
\* approved in the order in which it sent them.
\* gateway/proxy.py:1453 - FLAGS is rewritten "so the agent sees its own staged
\* change immediately".
PatchedInOrder ==
    \A u \in DOMAIN mailbox :
        Patched(u) = FoldLeft(LAMBDA flags, o : IF o \in Touching(u) THEN Changed(flags, cmd[o]) ELSE flags,
                              mailbox[u], order)

\* An operation acts on the messages it named when it was staged, however long
\* it waits.
\* gateway/proxy.py:959 - "UID addressing is stable across sessions and mailbox
\* changes."
ExecutesWhatWasStaged ==
    [][\A o \in Ops : status[o] = "pending" /\ status'[o] = "executed" =>
          \A u \in DOMAIN mailbox : u \in Meaning(cmd[o].set, DOMAIN mailbox) => u \in meant[o]]_vars

\* What an agent moved is hidden from it until the decision.
\* gateway/state_db.py:1006 - "Return UIDs that are pending MOVE out of the
\* given folder".
PendingMoveIsHidden ==
    \A o \in Pending : cmd[o].type = "move" => meant[o] \cap DOMAIN mailbox \subseteq MovedAway

\* "* N EXISTS" counts the messages the agent can see.
\* gateway/proxy.py:1287 - "subtract pending-move messages so the agent sees the
\* mailbox size consistent with its staged operations".
ExistsIsConsistent ==
    LET n == Cardinality(DOMAIN mailbox)
        m == Cardinality(MovedAway)
    IN  (IF m > n THEN 0 ELSE n - m) = Cardinality(DOMAIN mailbox \ MovedAway)

=============================================================================
