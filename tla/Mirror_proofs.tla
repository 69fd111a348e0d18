---------------------------- MODULE Mirror_proofs ----------------------------
(***************************************************************************)
(* What the agents are shown of a mailbox with pending operations, for any  *)
(* number of messages, operations and sessions: what is hidden, what a      *)
(* rollback restores, and that the agent is told of it (Mirror); and that   *)
(* an undo takes back what was done and nothing else (MailActions).         *)
(***************************************************************************)
EXTENDS MCMirror, Filters_proofs, FiniteSetTheorems, SequenceTheorems, TLAPS

(* What is shown to hold *)

Statuses == {"free", "snapped", "shown", "pending", "executed", "failed", "rejected", "reverted", "stuck"}

\* Operations are commands of a session, each in the queue exactly while it is pending.
QueueInv ==
    /\ order \in Seq(Ops) /\ status \in [Ops -> Statuses]
    /\ DOMAIN cmd = Ops /\ DOMAIN by = Ops
    /\ \A o \in Ops : status[o] = "pending" <=> o \in ToSet(order)
    /\ \A o \in Ops : status[o] # "free" => cmd[o] \in Commands(o) /\ by[o] \in Sessions

\* What is mirrored or was told has been in the mailbox.
BoundsInv ==
    /\ uidnext \in Nat \ {0} /\ DOMAIN mailbox \subseteq 1 .. uidnext - 1 /\ DOMAIN mailbox \subseteq Uids
    /\ DOMAIN rows \subseteq Uids /\ DOMAIN view = Sessions
    /\ \A s \in Sessions : DOMAIN view[s] \subseteq Uids
    /\ DOMAIN snapshot = Ops /\ DOMAIN known = Ops /\ DOMAIN inject = Sessions

\* A snapshot is of messages that the command reaches, and is made up for a store that
\* found none.
SnapshotInv ==
    \A o \in Ops :
        /\ status[o] = "free" => DOMAIN snapshot[o] = {}
        /\ status[o] # "free" =>
               /\ DOMAIN snapshot[o] \subseteq Reach(cmd[o])
               /\ known[o] \subseteq DOMAIN snapshot[o] /\ known[o] \subseteq 1 .. uidnext - 1
               /\ cmd[o].type # "store" => known[o] = DOMAIN snapshot[o]

Reaches(u) == {o \in Ops : status[o] # "free" /\ u \in Reach(cmd[o])}
Shown(u) == u \in DOMAIN rows \/ \E s \in Sessions : u \in DOMAIN view[s]

\* What is shown has been in the mailbox, or is made up; and it is there as long as
\* only operations reach it that have not begun to change anything.
PresentInv ==
    \A u \in Uids : Shown(u) =>
        /\ u < uidnext \/ u \in MadeUp
        /\ (\A o \in Reaches(u) : status[o] = "snapped") => u \in DOMAIN mailbox

\* Where no store has shown its change, the real flags are shown.
ExactInv ==
    \A u \in DOMAIN mailbox \ elsewhere :
        (\A o \in Reaches(u) : status[o] = "snapped" \/ cmd[o].type # "store") =>
            /\ u \in DOMAIN rows => rows[u] = mailbox[u]
            /\ \A s \in Sessions : u \in DOMAIN view[s] => view[s][u] = mailbox[u]

\* Until an operation is executed its snapshot holds the real flags.
KeptInv ==
    \A o \in Ops : status[o] \notin {"free", "executed"} =>
        \A u \in (known[o] \cap DOMAIN mailbox) \ elsewhere : snapshot[o][u] = mailbox[u]

\* A sequence of whatever it holds.
IsQueue(s) == s \in Seq(ToSet(s))

\* The reverts are of the snapshots that were rolled back.
RevertsInv ==
    /\ IsQueue(reverts)
    /\ \A r \in ToSet(reverts) :
           /\ r.op \in Ops /\ status[r.op] = "reverted"
           /\ r.uid \in DOMAIN snapshot[r.op] /\ r.flags = snapshot[r.op][r.uid]
    /\ \A s \in Sessions : inject[s] \subseteq ToSet(reverts)

\* What was rolled back stays so in the mirror.
BackInv ==
    \A o \in Ops : status[o] = "reverted" =>
        \A u \in (known[o] \cap DOMAIN rows) \ elsewhere : rows[u] = snapshot[o][u]

ToTell(s, u) == \E r \in ToSet(reverts) \ inject[s] : r.uid = u

\* Where the view differs from the mirror the agent is going to be told.
AgreeInv ==
    \A s \in Sessions :
        \A u \in (DOMAIN view[s] \cap DOMAIN rows) \ (MadeUp \cup elsewhere) :
            view[s][u] = rows[u] \/ ToTell(s, u)

\* And of a refusal.
RefusalInv ==
    \A o \in Ops, s \in Sessions : status[o] = "reverted" /\ by[o] = s =>
        \A u \in (known[o] \cap DOMAIN view[s] \cap DOMAIN mailbox) \ elsewhere :
            view[s][u] = mailbox[u] \/ ToTell(s, u)

\* All of these, of which each step needs what the others say.
MirrorInv ==
    /\ QueueInv /\ BoundsInv /\ SnapshotInv /\ PresentInv
    /\ ExactInv /\ KeptInv /\ RevertsInv /\ BackInv

-----------------------------------------------------------------------------
(* UID sets *)

\* What a set denotes in a mailbox is among what it may reach.
LEMMA MeaningIsReached ==
    ASSUME NEW c, NEW U \in SUBSET Uids
    PROVE  Meaning(c.set, U) \subseteq U \cap Reach(c)
  BY DEF Meaning, Reach

\* What the mirror reads of a set, too.
LEMMA ExpandIsMeaning ==
    ASSUME NEW set, NEW U
    PROVE  Expand(set, U) \subseteq Meaning(set, U)
  <1> SUFFICES ASSUME NEW u \in Expand(set, U) PROVE u \in Meaning(set, U)
    OBVIOUS
  <1>1. PICK part \in set : u \in ExpandPart(part, U)
    BY DEF Expand
  <1> DEFINE low == IF part[1] = Star THEN Max(U) ELSE part[1]
             high == IF part[2] = Star THEN Max(U) ELSE part[2]
  <1>2. u \in U /\ (u \in low .. high \/ u \in high .. low)
    BY <1>1 DEF ExpandPart
  <1>3. low = Denoted(part[1], U) /\ high = Denoted(part[2], U)
    BY DEF Denoted
  <1>4. MeansBy(part, u, U)
    BY <1>2, <1>3 DEF MeansBy
  <1> QED BY <1>2, <1>4 DEF Meaning

\* Nor does what the readers of stored sets make of it.
LEMMA ExpandIsReached ==
    ASSUME NEW c, NEW U \in SUBSET Uids
    PROVE  Expand(c.set, U) \subseteq U \cap Reach(c)
  BY MeaningIsReached, ExpandIsMeaning

\* The parsers of what is hidden and patched read numbers and ranges without "*".
LEMMA UnderstoodMeans ==
    ASSUME NEW set, NEW part \in set, Understood(set), NEW U, NEW u \in U, u \in part[1] .. part[2]
    PROVE  u \in Meaning(set, U)
  <1>1. Denoted(part[1], U) = part[1] /\ Denoted(part[2], U) = part[2]
    BY DEF Understood, Denoted
  <1> QED BY <1>1 DEF Meaning, MeansBy

\* So what is hidden is what is meant,
LEMMA HiddenMeans ==
    ASSUME NEW set, NEW U, NEW u \in U \cap PendingUids(set)
    PROVE  u \in Meaning(set, U)
  <1>1. PICK part \in set : Understood(set) /\ u \in part[1] .. part[2]
    BY DEF PendingUids
  <1> QED BY <1>1, UnderstoodMeans

\* and what is patched is reached.
LEMMA PatchedMeans ==
    ASSUME NEW o \in Ops, NEW c \in Commands(o), NEW u \in Uids, UidInSet(u, c.set)
    PROVE  u \in Reach(c)
  <1>1. PICK part \in c.set : Understood(c.set) /\ part[1] <= u /\ u <= part[2]
    BY DEF UidInSet
  <1>2. part \in (0 .. MaxUid) \X (0 .. MaxUid)
    BY CommandsAssumption
  <1>3. part[1] \in Int /\ part[2] \in Int
    BY <1>2
  <1>4. u \in part[1] .. part[2]
    BY <1>1, <1>3 DEF Uids
  <1>5. u \in Meaning(c.set, Uids)
    BY <1>1, <1>4, UnderstoodMeans
  <1> QED BY <1>5 DEF Reach

\* The one message of a made-up snapshot.
LEMMA SingleMeans ==
    ASSUME NEW c, NEW u \in Uids, c.set = Single(u)
    PROVE  u \in Reach(c)
  <1>1. <<u, u>> \in c.set /\ u # 0
    BY DEF Single, Uids
  <1>2. MeansBy(<<u, u>>, u, Uids)
    BY <1>1 DEF MeansBy, Denoted, Star, Uids
  <1> QED BY <1>1, <1>2 DEF Reach, Meaning

\* Without "*" a set denotes the same messages whatever mailbox it is read in.
LEMMA StarlessMeans ==
    ASSUME Starless, NEW o \in Ops, NEW c \in Commands(o), NEW U, NEW V, NEW u \in U \cap V
    PROVE  /\ u \in Meaning(c.set, U) <=> u \in Meaning(c.set, V)
           /\ u \in Expand(c.set, U) <=> u \in Meaning(c.set, U)
  <1>1. \A W : \A part \in c.set : Denoted(part[1], W) = part[1] /\ Denoted(part[2], W) = part[2]
    BY DEF Starless, Denoted
  <1>2. u \in Meaning(c.set, U) <=> u \in Meaning(c.set, V)
    BY <1>1 DEF Meaning, MeansBy
  <1>3. ASSUME u \in Meaning(c.set, U) PROVE u \in Expand(c.set, U)
    <2>1. PICK part \in c.set : u \in part[1] .. part[2] \cup part[2] .. part[1]
      BY <1>1, <1>3 DEF Meaning, MeansBy
    <2>2. part \in (0 .. MaxUid) \X (0 .. MaxUid)
      BY CommandsAssumption
    <2>3. part[1] \in Int /\ part[2] \in Int
      BY <2>2
    <2>4. part[1] # Star /\ part[2] # Star
      BY DEF Starless
    <2>5. u \in ExpandPart(part, U)
      <3>1. u \in IF part[1] > part[2] THEN part[2] .. part[1] ELSE part[1] .. part[2]
        BY <2>1, <2>3
      <3> QED BY <3>1, <2>4 DEF ExpandPart
    <2> QED BY <2>5 DEF Expand
  <1> QED BY <1>2, <1>3, ExpandIsMeaning

-----------------------------------------------------------------------------
(* Queues *)

\* One element more.
LEMMA QueueOfAppend ==
    ASSUME NEW S, NEW s \in Seq(S), NEW e \in S
    PROVE  Append(s, e) \in Seq(S) /\ ToSet(Append(s, e)) = ToSet(s) \cup {e}
  <1> DEFINE t == Append(s, e)
  <1>1. t \in Seq(S) /\ DOMAIN s = 1 .. Len(s) /\ DOMAIN t = 1 .. Len(s) + 1 /\ Len(s) \in Nat
    BY AppendProperties
  <1>2. (\A i \in DOMAIN s : t[i] = s[i]) /\ t[Len(s) + 1] = e
    BY AppendProperties
  <1> HIDE DEF t
  <1>3. \A i \in DOMAIN t : i \in DOMAIN s \/ i = Len(s) + 1
    BY <1>1
  <1>4. \A i \in DOMAIN s : i \in DOMAIN t
    BY <1>1
  <1>5. Len(s) + 1 \in DOMAIN t
    BY <1>1
  <1>6. ToSet(t) = ToSet(s) \cup {e}
    BY <1>2, <1>3, <1>4, <1>5 DEF ToSet
  <1> QED BY <1>1, <1>6 DEF t

\* Any sequence is one of what it holds,
LEMMA QueueOfAny ==
    ASSUME NEW S, NEW s \in Seq(S)
    PROVE  IsQueue(s)
  <1>1. Len(s) \in Nat /\ s \in [1 .. Len(s) -> S]
    OBVIOUS
  <1>2. s \in [1 .. Len(s) -> ToSet(s)]
    BY <1>1 DEF ToSet
  <1> QED BY <1>1, <1>2, SeqDef DEF IsQueue

\* two after one another hold what both hold,
LEMMA QueueOfConcat ==
    ASSUME NEW S, NEW s \in Seq(S), NEW t \in Seq(S)
    PROVE  s \o t \in Seq(S) /\ ToSet(s \o t) = ToSet(s) \cup ToSet(t)
  <1>1. ASSUME NEW x \in ToSet(s \o t) PROVE x \in ToSet(s) \cup ToSet(t)
    <2>1. PICK i \in 1 .. Len(s) + Len(t) : x = (s \o t)[i]
      BY <1>1 DEF ToSet
    <2>2. CASE i <= Len(s)
      BY <2>1, <2>2 DEF ToSet
    <2>3. CASE i > Len(s)
      <3>1. x = t[i - Len(s)] /\ i - Len(s) \in DOMAIN t
        BY <2>1, <2>3
      <3> QED BY <3>1 DEF ToSet
    <2> QED BY <2>1, <2>2, <2>3
  <1>2. ASSUME NEW i \in DOMAIN s PROVE s[i] \in ToSet(s \o t)
    BY DEF ToSet
  <1>3. ASSUME NEW i \in DOMAIN t PROVE t[i] \in ToSet(s \o t)
    <2>1. t[i] = (s \o t)[Len(s) + i] /\ Len(s) + i \in DOMAIN (s \o t)
      OBVIOUS
    <2> QED BY <2>1 DEF ToSet
  <1>4. ToSet(s) \subseteq ToSet(s \o t) /\ ToSet(t) \subseteq ToSet(s \o t)
    BY <1>2, <1>3 DEF ToSet
  <1> QED BY <1>1, <1>4

\* also where each is known by its own elements only,
LEMMA QueuesJoined ==
    ASSUME NEW s, NEW t, IsQueue(s), IsQueue(t)
    PROVE  IsQueue(s \o t) /\ ToSet(s \o t) = ToSet(s) \cup ToSet(t)
  <1> DEFINE S == ToSet(s) \cup ToSet(t)
  <1>1. s \in Seq(S) /\ t \in Seq(S)
    BY SeqMonotonic DEF IsQueue
  <1> HIDE DEF S
  <1>2. s \o t \in Seq(S) /\ ToSet(s \o t) = ToSet(s) \cup ToSet(t)
    BY <1>1, QueueOfConcat
  <1> QED BY <1>2, QueueOfAny

\* and what a filter leaves is a sequence of what it is asked for.
LEMMA QueueOfFilter ==
    ASSUME NEW S, NEW s \in Seq(S), NEW T
    PROVE  /\ Filter(s, T) \in Seq(S) /\ IsQueue(Filter(s, T))
           /\ ToSet(Filter(s, T)) = ToSet(s) \cap T
  <1>1. Filter(s, T) \in Seq(S)
    BY FilterKeepsType
  <1>2. \A x : x \in ToSet(Filter(s, T)) <=> x \in T /\ x \in ToSet(s)
    BY FilterKeepsElements DEF ToSet
  <1> QED BY <1>1, <1>2, QueueOfAny

\* The last element is one of them.
LEMMA LastIsIn ==
    ASSUME NEW S, NEW s \in Seq(S), ToSet(s) # {}
    PROVE  Last(s) \in ToSet(s)
  <1>1. Len(s) \in DOMAIN s
    BY DEF ToSet
  <1> QED BY <1>1 DEF Last, ToSet

\* Every finite set is what some sequence of its elements holds: SetToSeq chooses one.
LEMMA QueueOfSet ==
    ASSUME NEW S, IsFiniteSet(S)
    PROVE  SetToSeq(S) \in Seq(S) /\ ToSet(SetToSeq(S)) = S
  <1> DEFINE n == Cardinality(S)
             f == SetToSeq(S)
  <1>1. n \in Nat /\ ExistsBijection(1 .. n, S)
    BY FS_CardinalityType
  <1>2. PICK g \in [1 .. n -> S] : IsInjective(g)
    BY <1>1 DEF ExistsBijection, Bijection, Injection
  <1>3. f \in [1 .. n -> S] /\ IsInjective(f)
    BY <1>2 DEF SetToSeq
  <1>4. IsFiniteSet(1 .. n) /\ Cardinality(1 .. n) = n
    BY <1>1, FS_Interval
  <1>5. f \in Surjection(1 .. n, S)
    <2>1. f \in Injection(1 .. n, S)
      BY <1>3 DEF Injection
    <2> HIDE DEF f
    <2> QED BY <2>1, <1>4, FS_Injection
  <1>6. f \in Seq(S) /\ DOMAIN f = 1 .. n
    BY <1>1, <1>3, SeqDef
  <1>7. ToSet(f) = S
    BY <1>3, <1>5, <1>6 DEF ToSet, Surjection
  <1> QED BY <1>6, <1>7

\* A rollback queues one line for each message of its snapshot.
LEMMA ToldIsSnapshot ==
    ASSUME NEW o \in Ops, DOMAIN snapshot[o] \subseteq Uids
    PROVE  /\ IsQueue(Told(o, snapshot[o]))
           /\ ToSet(Told(o, snapshot[o])) =
                  {[op |-> o, uid |-> u, flags |-> snapshot[o][u]] : u \in DOMAIN snapshot[o]}
  <1> DEFINE D == DOMAIN snapshot[o]
             Line(u) == [op |-> o, uid |-> u, flags |-> snapshot[o][u]]
             T == {Line(u) : u \in D}
             g == [u \in D |-> Line(u)]
  <1>1. IsFiniteSet(D)
    <2>1. IsFiniteSet(Uids)
      BY MirrorAssumption, FS_Interval DEF Uids
    <2> QED BY <2>1, FS_Subset
  <1>2. g \in Bijection(D, T)
    <2>1. g \in [D -> T]
      OBVIOUS
    <2>2. ASSUME NEW u \in D, NEW v \in D, g[u] = g[v] PROVE u = v
      <3>1. Line(u).uid = Line(v).uid
        BY <2>2
      <3> QED BY <3>1
    <2>3. \A t \in T : \E u \in D : g[u] = t
      OBVIOUS
    <2> HIDE DEF g, T
    <2>4. DOMAIN g = D
      BY <2>1
    <2> QED BY <2>1, <2>2, <2>3, <2>4 DEF Bijection, Injection, Surjection, IsInjective
  <1>3. IsFiniteSet(T)
    <2> HIDE DEF g, T, D
    <2> QED BY <1>1, <1>2, FS_Bijection DEF ExistsBijection
  <1>4. Told(o, snapshot[o]) = SetToSeq(T)
    <2>1. T = {[op |-> o, uid |-> u, flags |-> snapshot[o][u]] : u \in DOMAIN snapshot[o] \cap DOMAIN snapshot[o]}
      OBVIOUS
    <2> HIDE DEF T
    <2> QED BY <2>1 DEF Told
  <1>5. SetToSeq(T) \in Seq(T) /\ ToSet(SetToSeq(T)) = T
    <2> HIDE DEF T
    <2> QED BY <1>3, QueueOfSet
  <1> HIDE DEF T
  <1>6. T = {[op |-> o, uid |-> u, flags |-> snapshot[o][u]] : u \in DOMAIN snapshot[o]}
    BY DEF T
  <1> QED BY <1>4, <1>5, <1>6 DEF IsQueue

-----------------------------------------------------------------------------
(* What is hidden *)

\* A decision takes its operation out of the queue.
LEMMA DecideInQueue ==
    ASSUME QueueInv, NEW o \in Ops, NEW s \in Statuses \ {"free", "pending"}, Decide(o, s),
           UNCHANGED <<cmd, by>>
    PROVE  QueueInv'
  <1>1. /\ order' \in Seq(Ops) /\ ToSet(order') = ToSet(order) \cap (Ops \ {o})
    BY QueueOfFilter DEF QueueInv, Decide
  <1>2. status' = [status EXCEPT ![o] = s] /\ status[o] = "pending"
    BY DEF Decide
  <1>3. status' \in [Ops -> Statuses] /\ \A p \in Ops : status'[p] = IF p = o THEN s ELSE status[p]
    BY <1>2 DEF QueueInv
  <1>4. \A p \in Ops : status'[p] = "pending" <=> p \in ToSet(order')
    BY <1>1, <1>3 DEF QueueInv
  <1>5. \A p \in Ops : status'[p] # "free" => cmd'[p] \in Commands(p) /\ by'[p] \in Sessions
    BY <1>2, <1>3 DEF QueueInv
  <1> QED BY <1>1, <1>3, <1>4, <1>5 DEF QueueInv

\* A change of status that neither begins nor ends an operation.
LEMMA StatusInQueue ==
    ASSUME QueueInv, NEW o \in Ops, status[o] # "free", status[o] # "pending",
           NEW s \in Statuses \ {"free", "pending"}, status' = [status EXCEPT ![o] = s],
           UNCHANGED <<cmd, by, order>>
    PROVE  QueueInv'
  <1>1. status' \in [Ops -> Statuses] /\ \A p \in Ops : status'[p] = IF p = o THEN s ELSE status[p]
    BY DEF QueueInv
  <1> QED BY <1>1 DEF QueueInv

\* No step loses or doubles an operation: it is queued when its row is inserted and taken
\* out by the step that decides it.
LEMMA QueueKept ==
    ASSUME QueueInv, [Next]_vars
    PROVE  QueueInv'
  <1> USE DEF stagedVars
  <1>1. ASSUME NEW s \in Sessions, Inject(s) \/ MarkDelivered(s) PROVE QueueInv'
    BY <1>1 DEF Inject, MarkDelivered, QueueInv
  <1>2. ASSUME NEW s \in Sessions, NEW u \in Uids, Fetch(s, u) PROVE QueueInv'
    BY <1>2 DEF Fetch, QueueInv
  <1>3. ASSUME NEW s \in Sessions, NEW o \in Ops, Snapshot(s, o) PROVE QueueInv'
    <2>1. PICK c \in Commands(o) : cmd' = [cmd EXCEPT ![o] = c]
      BY <1>3 DEF Snapshot
    <2>2. /\ status[o] = "free" /\ status' = [status EXCEPT ![o] = "snapped"]
          /\ by' = [by EXCEPT ![o] = s] /\ order' = order
      BY <1>3 DEF Snapshot
    <2>3. status' \in [Ops -> Statuses] /\ DOMAIN cmd' = Ops /\ DOMAIN by' = Ops
      BY <2>1, <2>2 DEF QueueInv, Statuses
    <2>4. \A p \in Ops : IF p = o THEN status'[p] = "snapped" /\ cmd'[p] = c /\ by'[p] = s
                         ELSE status'[p] = status[p] /\ cmd'[p] = cmd[p] /\ by'[p] = by[p]
      BY <2>1, <2>2 DEF QueueInv
    <2> QED BY <2>2, <2>3, <2>4 DEF QueueInv
  <1>4. ASSUME NEW o \in Ops, ShowOptimistic(o) PROVE QueueInv'
    <2>1. /\ status[o] = "snapped" /\ status' = [status EXCEPT ![o] = "shown"]
          /\ UNCHANGED <<cmd, by, order>>
      BY <1>4 DEF ShowOptimistic
    <2> QED BY <2>1, StatusInQueue DEF Statuses
  <1>5. ASSUME NEW o \in Ops, CreateOperation(o) PROVE QueueInv'
    <2>1. /\ status[o] = "shown" /\ status' = [status EXCEPT ![o] = "pending"]
          /\ UNCHANGED <<cmd, by>>
      BY <1>5 DEF CreateOperation
    <2>2. order' \in Seq(Ops) /\ ToSet(order') = ToSet(order) \cup {o}
      BY <1>5, QueueOfAppend DEF CreateOperation, QueueInv
    <2>3. status' \in [Ops -> Statuses] /\ \A p \in Ops : status'[p] = IF p = o THEN "pending" ELSE status[p]
      BY <2>1 DEF QueueInv, Statuses
    <2> QED BY <2>1, <2>2, <2>3 DEF QueueInv
  <1>6. ASSUME NEW o \in Ops, Execute(o) \/ Fail(o) \/ Reject(o) PROVE QueueInv'
    <2>1. \E s \in {"executed", "failed", "rejected"} : Decide(o, s)
      BY <1>6 DEF Execute, Fail, Reject
    <2>2. UNCHANGED <<cmd, by>>
      BY <1>6 DEF Execute, Fail, Reject
    <2> QED BY <2>1, <2>2, DecideInQueue DEF Statuses
  <1>7. ASSUME NEW o \in Ops, Restore(o) \/ RestoreRaises(o) PROVE QueueInv'
    <2>1. \E s \in {"reverted", "stuck"} : status' = [status EXCEPT ![o] = s]
      BY <1>7 DEF Restore, RestoreRaises
    <2>2. status[o] = "rejected" /\ UNCHANGED <<cmd, by, order>>
      BY <1>7 DEF Restore, RestoreRaises
    <2> QED BY <2>1, <2>2, StatusInQueue DEF Statuses
  <1>8. ASSUME NEW u \in Uids, NEW f \in Flags, FlagElsewhere(u, f) PROVE QueueInv'
    BY <1>8 DEF FlagElsewhere, QueueInv
  <1>9. CASE Arrive
    BY <1>9 DEF Arrive, QueueInv
  <1>10. CASE UNCHANGED vars
    BY <1>10 DEF vars, QueueInv
  <1> QED BY <1>1, <1>2, <1>3, <1>4, <1>5, <1>6, <1>7, <1>8, <1>9, <1>10 DEF Next

\* At the start nothing is staged.
LEMMA QueueInit ==
    ASSUME Init
    PROVE  QueueInv
  BY DEF Init, QueueInv, Statuses, ToSet

\* An operation is in the queue of what is pending exactly while it is pending, for any
\* number of operations and sessions.  (create_operation, update_operation_status)
THEOREM QueueAlways == Spec => []QueueInv
  <1>1. QueueInv /\ [Next]_vars => QueueInv'
    BY QueueKept
  <1> QED BY <1>1, QueueInit, PTL DEF Spec

\* A message is kept from the agent only while a MOVE that is still undecided would
\* take it, whatever mail arrives and however operations are decided in between.
\* (get_pending_move_uids_for_folder)
THEOREM HiddenAlwaysMoves == Spec => []HiddenWillMove
  <1>1. ASSUME QueueInv PROVE HiddenWillMove
    <2> SUFFICES ASSUME NEW u \in MovedAway \cap DOMAIN mailbox
                 PROVE  \E o \in Ops :
                            /\ status[o] = "pending" /\ cmd[o].type = "move"
                            /\ u \in Meaning(cmd[o].set, DOMAIN mailbox)
      BY DEF HiddenWillMove
    <2>1. PICK o \in Pending : cmd[o].type = "move" /\ u \in PendingUids(cmd[o].set)
      BY DEF MovedAway
    <2>2. o \in Ops /\ status[o] = "pending"
      BY <1>1, <2>1 DEF QueueInv, Pending, ToSet
    <2>3. u \in Meaning(cmd[o].set, DOMAIN mailbox)
      BY <2>1, HiddenMeans
    <2> QED BY <2>1, <2>2, <2>3
  <1> QED BY <1>1, QueueAlways, PTL

-----------------------------------------------------------------------------
(* What each step shows *)

\* At most one operation under way reaches a message.
LEMMA OnlyOne ==
    ASSUME Apart, QueueInv, NEW o \in Ops, NEW p \in Ops, status[o] # "free", status[p] # "free",
           NEW u \in Reach(cmd[o]) \cap Reach(cmd[p])
    PROVE  o = p
  BY DEF Apart, QueueInv

\* What is hidden is reached by a MOVE that is pending.
LEMMA HiddenIsReached ==
    ASSUME QueueInv, NEW u \in Uids \cap MovedAway
    PROVE  \E o \in Reaches(u) : status[o] = "pending" /\ cmd[o].type = "move"
  <1>1. PICK o \in Pending : cmd[o].type = "move" /\ u \in PendingUids(cmd[o].set)
    BY DEF MovedAway
  <1>2. o \in Ops /\ status[o] = "pending"
    BY <1>1 DEF QueueInv, Pending, ToSet
  <1>3. u \in Reach(cmd[o])
    BY <1>1, HiddenMeans DEF Reach
  <1> QED BY <1>1, <1>2, <1>3 DEF Reaches

\* A line is patched only for a pending store that reaches its message.
LEMMA PatchedPlain ==
    ASSUME QueueInv, NEW u \in Uids,
           \A o \in Reaches(u) : status[o] # "pending" \/ cmd[o].type # "store"
    PROVE  Touching(u) = {} /\ Patched(u) = mailbox[u]
  <1>1. Touching(u) = {}
    <2> SUFFICES ASSUME NEW o \in Touching(u) PROVE FALSE
      OBVIOUS
    <2>1. o \in Ops /\ status[o] = "pending" /\ cmd[o].type = "store" /\ UidInSet(u, cmd[o].set)
      BY DEF Touching, QueueInv, Pending, ToSet
    <2>2. u \in Reach(cmd[o])
      BY <2>1, PatchedMeans DEF QueueInv
    <2> QED BY <2>1, <2>2 DEF Reaches
  <1> QED BY <1>1 DEF Patched

\* A FETCH stores the server's flags, and shows them where no pending store is patched in.
LEMMA FetchShows ==
    ASSUME QueueInv, BoundsInv, NEW s \in Sessions, NEW u \in Uids, Fetch(s, u)
    PROVE  /\ u \in DOMAIN mailbox
           /\ DOMAIN rows' = DOMAIN rows \cup {u}
           /\ \A v \in DOMAIN rows : v # u => rows'[v] = rows[v]
           /\ (\A o \in Reaches(u) : status[o] # "pending" \/ cmd[o].type # "store") => rows'[u] = mailbox[u]
           /\ DOMAIN view' = Sessions
           /\ \A t \in Sessions :
                  /\ DOMAIN view'[t] \in {DOMAIN view[t], DOMAIN view[t] \cup {u}}
                  /\ \A v \in DOMAIN view'[t] :
                         \/ v \in DOMAIN view[t] /\ view'[t][v] = view[t][v] /\ (t = s /\ v = u => u \in MovedAway)
                         \/ v = u /\ t = s /\ rows'[u] = view'[t][u]
           /\ UNCHANGED <<mailbox, uidnext, elsewhere, status, cmd, by, snapshot, known, order, reverts, inject>>
  <1> DEFINE new == IF u \in MovedAway THEN mailbox[u] ELSE Patched(u)
  <1>1. u \in DOMAIN mailbox /\ UNCHANGED <<mailbox, uidnext, elsewhere, status, cmd, by, snapshot, known, order, reverts, inject>>
    BY DEF Fetch, mailVars, stagedVars
  <1>2. rows' = [v \in DOMAIN rows \cup {u} |-> IF v \in {u} THEN new ELSE rows[v]]
    BY DEF Fetch, Set
  <1>3. (\A o \in Reaches(u) : status[o] # "pending" \/ cmd[o].type # "store") => new = mailbox[u]
    BY PatchedPlain
  <1>4. CASE u \in MovedAway
    <2>1. view' = view
      BY <1>4 DEF Fetch
    <2> QED BY <1>1, <1>2, <1>3, <1>4, <2>1 DEF BoundsInv
  <1>5. CASE u \notin MovedAway
    <2>1. view' = [view EXCEPT ![s] = [v \in DOMAIN view[s] \cup {u} |-> IF v \in {u} THEN Patched(u) ELSE view[s][v]]]
      BY <1>5 DEF Fetch, Set
    <2> HIDE DEF new
    <2>2. new = Patched(u)
      BY <1>5 DEF new
    <2> QED BY <1>1, <1>2, <1>3, <1>5, <2>1, <2>2 DEF BoundsInv
  <1> QED BY <1>4, <1>5

\* A FETCH shows one message, as the mirror has it or with its pending stores.
LEMMA FetchTells ==
    ASSUME QueueInv, BoundsInv, NEW s \in Sessions, NEW u \in Uids, Fetch(s, u), NEW v \in DOMAIN view'[s]
    PROVE  \/ v \in DOMAIN view[s] /\ view'[s][v] = view[s][v]
           \/ v = u /\ rows'[u] = view'[s][u]
  <1>1. /\ u \in DOMAIN mailbox
        /\ DOMAIN view' = Sessions
        /\ \A t \in Sessions :
               /\ DOMAIN view'[t] \in {DOMAIN view[t], DOMAIN view[t] \cup {u}}
               /\ \A w \in DOMAIN view'[t] :
                      \/ w \in DOMAIN view[t] /\ view'[t][w] = view[t][w] /\ (t = s /\ w = u => u \in MovedAway)
                      \/ w = u /\ t = s /\ rows'[u] = view'[t][u]
    BY FetchShows
  <1> QED BY <1>1

\* A snapshot copies the mirror's rows of what the command reaches, or makes them up.
LEMMA SnapshotShows ==
    ASSUME QueueInv, BoundsInv, NEW s \in Sessions, NEW o \in Ops, Snapshot(s, o)
    PROVE  \E c \in Commands(o) :
               /\ status[o] = "free"
               /\ \A p \in Ops \ {o} : /\ status'[p] = status[p] /\ cmd'[p] = cmd[p] /\ by'[p] = by[p]
                                       /\ snapshot'[p] = snapshot[p] /\ known'[p] = known[p]
               /\ status'[o] = "snapped" /\ cmd'[o] = c
               /\ DOMAIN snapshot'[o] \subseteq Reach(c)
               /\ known'[o] \subseteq DOMAIN snapshot'[o] /\ known'[o] \subseteq DOMAIN rows
               /\ \A u \in known'[o] : snapshot'[o][u] = rows[u]
               /\ c.type # "store" => known'[o] = DOMAIN snapshot'[o]
               /\ DOMAIN snapshot' = Ops /\ DOMAIN known' = Ops
               /\ UNCHANGED <<mailbox, uidnext, elsewhere, rows, order, reverts, inject, view>>
  <1>1. PICK c \in Commands(o) :
           LET hits == Expand(c.set, DOMAIN rows)
               madeUp == c.type = "store" /\ hits = {}
               number == {u \in Uids : c.set = Single(u)}
           IN  /\ cmd' = [cmd EXCEPT ![o] = c]
               /\ snapshot' = [snapshot EXCEPT ![o] =
                      IF madeUp THEN [u \in number |-> {}] ELSE [u \in hits |-> rows[u]]]
               /\ known' = [known EXCEPT ![o] = hits]
    BY DEF Snapshot
  <1> DEFINE hits == Expand(c.set, DOMAIN rows)
             number == {u \in Uids : c.set = Single(u)}
             madeUp == c.type = "store" /\ hits = {}
             new == IF madeUp THEN [u \in number |-> {}] ELSE [u \in hits |-> rows[u]]
  <1>2. /\ status[o] = "free" /\ status' = [status EXCEPT ![o] = "snapped"]
        /\ by' = [by EXCEPT ![o] = s]
        /\ UNCHANGED <<mailbox, uidnext, elsewhere, rows, order, reverts, inject, view>>
    BY DEF Snapshot, mailVars
  <1>3. hits \subseteq DOMAIN rows \cap Reach(c)
    BY ExpandIsReached DEF BoundsInv
  <1>4. number \subseteq Reach(c)
    BY SingleMeans
  <1>5. /\ DOMAIN new \subseteq Reach(c) /\ hits \subseteq DOMAIN new
        /\ \A u \in hits : new[u] = rows[u]
        /\ c.type # "store" => hits = DOMAIN new
    <2> HIDE DEF hits, number
    <2> QED BY <1>3, <1>4
  <1>6. cmd' = [cmd EXCEPT ![o] = c] /\ snapshot' = [snapshot EXCEPT ![o] = new] /\ known' = [known EXCEPT ![o] = hits]
    BY <1>1
  <1> HIDE DEF hits, new
  <1>7. /\ DOMAIN snapshot = Ops /\ DOMAIN known = Ops /\ DOMAIN cmd = Ops /\ DOMAIN by = Ops /\ DOMAIN status = Ops
    BY DEF BoundsInv, QueueInv
  <1>8. \A p \in Ops \ {o} : /\ status'[p] = status[p] /\ cmd'[p] = cmd[p] /\ by'[p] = by[p]
                             /\ snapshot'[p] = snapshot[p] /\ known'[p] = known[p]
    BY <1>2, <1>6, <1>7
  <1>9. snapshot'[o] = new /\ known'[o] = hits /\ cmd'[o] = c /\ status'[o] = "snapped" /\ DOMAIN snapshot' = Ops /\ DOMAIN known' = Ops
    BY <1>2, <1>6, <1>7
  <1> QED BY <1>2, <1>3, <1>5, <1>8, <1>9

\* An optimistic change touches rows and views of what its command reaches, and those of a
\* store only by its flags.
LEMMA OptimisticShows ==
    ASSUME QueueInv, BoundsInv, NEW o \in Ops, ShowOptimistic(o)
    PROVE  /\ status[o] = "snapped" /\ status' = [status EXCEPT ![o] = "shown"]
           /\ DOMAIN rows' \subseteq DOMAIN rows
           /\ \A v \in DOMAIN rows' :
                  v \notin Reach(cmd[o]) \/ cmd[o].type # "store" => rows'[v] = rows[v]
           /\ DOMAIN view' = Sessions
           /\ \A t \in Sessions :
                  /\ DOMAIN view'[t] \subseteq DOMAIN view[t]
                  /\ \A v \in DOMAIN view'[t] :
                         v \notin Reach(cmd[o]) \/ cmd[o].type # "store" => view'[t][v] = view[t][v]
           /\ UNCHANGED <<mailbox, uidnext, elsewhere, cmd, by, snapshot, known, order, reverts, inject>>
  <1> DEFINE c == cmd[o]
             b == by[o]
             hit == Expand(c.set, DOMAIN rows)
             seen == Meaning(c.set, DOMAIN mailbox) \cap DOMAIN view[b]
  <1>1. hit \subseteq DOMAIN rows \cap Reach(c) /\ seen \subseteq DOMAIN view[b] \cap Reach(c)
    BY ExpandIsReached, MeaningIsReached DEF BoundsInv
  <1>2. /\ status[o] = "snapped" /\ status' = [status EXCEPT ![o] = "shown"]
        /\ UNCHANGED <<mailbox, uidnext, elsewhere, cmd, by, snapshot, known, order, reverts, inject>>
    BY DEF ShowOptimistic, mailVars, stagedVars
  <1>3. DOMAIN view = Sessions /\ b \in Sessions
    BY <1>2 DEF BoundsInv, QueueInv
  <1>4. CASE c.type = "store"
    <2>1. /\ rows' = [u \in DOMAIN rows \cup hit |-> IF u \in hit THEN Changed(rows[u], c) ELSE rows[u]]
          /\ view' = [view EXCEPT ![b] = [u \in DOMAIN view[b] \cup seen |->
                                             IF u \in seen THEN Changed(view[b][u], c) ELSE view[b][u]]]
      BY <1>4 DEF ShowOptimistic, Set
    <2> HIDE DEF hit, seen, c, b
    <2>2. DOMAIN rows' = DOMAIN rows /\ \A v \in DOMAIN rows' : v \notin Reach(c) => rows'[v] = rows[v]
      BY <1>1, <2>1
    <2>3. DOMAIN view' = Sessions /\ \A t \in Sessions : t # b => view'[t] = view[t]
      BY <1>3, <2>1
    <2>4. DOMAIN view'[b] = DOMAIN view[b] /\ \A v \in DOMAIN view'[b] : v \notin Reach(c) => view'[b][v] = view[b][v]
      BY <1>1, <1>3, <2>1
    <2>5. \A t \in Sessions : /\ DOMAIN view'[t] = DOMAIN view[t]
                              /\ \A v \in DOMAIN view'[t] : v \notin Reach(c) => view'[t][v] = view[t][v]
      BY <2>3, <2>4
    <2> QED BY <1>2, <1>4, <2>2, <2>3, <2>5 DEF c
  <1>5. CASE c.type # "store"
    <2>1. /\ rows' = [u \in DOMAIN rows \ hit |-> rows[u]]
          /\ view' = [view EXCEPT ![b] = [u \in DOMAIN view[b] \ seen |-> view[b][u]]]
      BY <1>5 DEF ShowOptimistic, Drop
    <2> HIDE DEF hit, seen, c, b
    <2>2. DOMAIN rows' \subseteq DOMAIN rows /\ \A v \in DOMAIN rows' : rows'[v] = rows[v]
      BY <2>1
    <2>3. DOMAIN view' = Sessions /\ \A t \in Sessions : t # b => view'[t] = view[t]
      BY <1>3, <2>1
    <2>4. DOMAIN view'[b] \subseteq DOMAIN view[b] /\ \A v \in DOMAIN view'[b] : view'[b][v] = view[b][v]
      BY <1>3, <2>1
    <2>5. \A t \in Sessions : /\ DOMAIN view'[t] \subseteq DOMAIN view[t]
                              /\ \A v \in DOMAIN view'[t] : view'[t][v] = view[t][v]
      BY <2>3, <2>4
    <2> QED BY <1>2, <2>2, <2>3, <2>5
  <1> QED BY <1>4, <1>5

\* An execution changes messages that its command reaches and no other.
LEMMA ExecuteShows ==
    ASSUME QueueInv, BoundsInv, NEW o \in Ops, Execute(o)
    PROVE  /\ status[o] = "pending" /\ status' = [status EXCEPT ![o] = "executed"]
           /\ DOMAIN mailbox' \subseteq DOMAIN mailbox
           /\ \A v \in DOMAIN mailbox \ Reach(cmd[o]) : v \in DOMAIN mailbox' /\ mailbox'[v] = mailbox[v]
           /\ cmd[o].type # "store" => \A v \in DOMAIN mailbox' : mailbox'[v] = mailbox[v]
           /\ UNCHANGED <<uidnext, elsewhere, rows, cmd, by, snapshot, known, reverts, inject, view>>
  <1> DEFINE c == cmd[o]
             hit == Meaning(c.set, DOMAIN mailbox)
  <1>1. hit \subseteq DOMAIN mailbox \cap Reach(c)
    BY MeaningIsReached DEF BoundsInv
  <1>2. /\ status[o] = "pending" /\ status' = [status EXCEPT ![o] = "executed"]
        /\ UNCHANGED <<uidnext, elsewhere, rows, cmd, by, snapshot, known, reverts, inject, view>>
    BY DEF Execute, Decide, stagedVars
  <1>3. mailbox' = IF c.type = "store"
                     THEN [u \in DOMAIN mailbox \cup hit |-> IF u \in hit THEN Changed(mailbox[u], c) ELSE mailbox[u]]
                     ELSE [u \in DOMAIN mailbox \ hit |-> mailbox[u]]
    BY DEF Execute, Set, Drop
  <1> HIDE DEF hit
  <1> QED BY <1>1, <1>2, <1>3

\* A rollback puts the snapshot into the mirror and queues it for the agent.
LEMMA RestoreShows ==
    ASSUME QueueInv, SnapshotInv, RevertsInv, NEW o \in Ops, Restore(o)
    PROVE  /\ status[o] = "rejected" /\ status' = [status EXCEPT ![o] = "reverted"]
           /\ DOMAIN rows' = DOMAIN rows \cup DOMAIN snapshot[o]
           /\ \A v \in DOMAIN snapshot[o] : rows'[v] = snapshot[o][v]
           /\ \A v \in DOMAIN rows \ DOMAIN snapshot[o] : rows'[v] = rows[v]
           /\ IsQueue(reverts')
           /\ ToSet(reverts') = ToSet(reverts) \cup
                  {[op |-> o, uid |-> u, flags |-> snapshot[o][u]] : u \in DOMAIN snapshot[o]}
           /\ UNCHANGED <<mailbox, uidnext, elsewhere, cmd, by, snapshot, known, order, inject, view>>
  <1>1. /\ status[o] = "rejected" /\ status' = [status EXCEPT ![o] = "reverted"]
        /\ UNCHANGED <<mailbox, uidnext, elsewhere, cmd, by, snapshot, known, order, inject, view>>
        /\ reverts' = reverts \o Told(o, snapshot[o])
    BY DEF Restore, mailVars, stagedVars
  <1>2. DOMAIN snapshot[o] \subseteq Uids
    BY <1>1 DEF SnapshotInv, Reach
  <1>3. rows' = [v \in DOMAIN rows \cup DOMAIN snapshot[o] |->
                    IF v \in DOMAIN snapshot[o] THEN snapshot[o][v] ELSE rows[v]]
    BY DEF Restore, Set
  <1>4. /\ IsQueue(reverts')
        /\ ToSet(reverts') = ToSet(reverts) \cup ToSet(Told(o, snapshot[o]))
    BY <1>1, <1>2, ToldIsSnapshot, QueuesJoined DEF RevertsInv
  <1> QED BY <1>1, <1>2, <1>3, <1>4, ToldIsSnapshot

\* Of several lines for a message the last one stays.
LEMMA InjectShows ==
    ASSUME BoundsInv, RevertsInv, NEW s \in Sessions, Inject(s)
    PROVE  /\ inject' = [inject EXCEPT ![s] = ToSet(reverts)]
           /\ DOMAIN view' = Sessions
           /\ \A t \in Sessions : DOMAIN view[t] \subseteq DOMAIN view'[t]
           /\ \A t \in Sessions : \A v \in DOMAIN view'[t] :
                  \/ /\ v \in DOMAIN view[t] /\ view'[t][v] = view[t][v]
                     /\ t = s => \A r \in ToSet(reverts) : r.uid # v
                  \/ t = s /\ \E r \in ToSet(reverts) : r.uid = v /\ view'[t][v] = r.flags
           /\ UNCHANGED <<mailbox, uidnext, elsewhere, rows, status, cmd, by, snapshot, known, order, reverts>>
  <1> DEFINE said == {r.uid : r \in ToSet(reverts)}
             lines(u) == {r \in ToSet(reverts) : r.uid = u}
             told(u) == Last(Filter(reverts, lines(u)))
  <1>1. /\ inject' = [inject EXCEPT ![s] = ToSet(reverts)]
        /\ UNCHANGED <<mailbox, uidnext, elsewhere, rows, status, cmd, by, snapshot, known, order, reverts>>
    BY DEF Inject, mailVars, stagedVars
  <1>2. view' = [view EXCEPT ![s] = [u \in DOMAIN view[s] \cup said |->
                                        IF u \in said THEN told(u).flags ELSE view[s][u]]]
    BY DEF Inject, Set
  <1>3. ASSUME NEW u \in said PROVE told(u) \in ToSet(reverts) /\ told(u).uid = u
    <2>1. /\ Filter(reverts, lines(u)) \in Seq(ToSet(reverts))
          /\ ToSet(Filter(reverts, lines(u))) = ToSet(reverts) \cap lines(u)
      BY QueueOfFilter DEF RevertsInv, IsQueue
    <2>2. ToSet(reverts) \cap lines(u) # {}
      OBVIOUS
    <2>3. told(u) \in ToSet(reverts) \cap lines(u)
      <3> HIDE DEF lines
      <3> QED BY <2>1, <2>2, LastIsIn
    <2> QED BY <2>3
  <1>4. \A u : u \notin said => \A r \in ToSet(reverts) : r.uid # u
    OBVIOUS
  <1> HIDE DEF said, told
  <1>5. DOMAIN view' = Sessions /\ \A t \in Sessions : t # s => view'[t] = view[t]
    BY <1>2 DEF BoundsInv
  <1>6. /\ DOMAIN view'[s] = DOMAIN view[s] \cup said
        /\ \A v \in said : view'[s][v] = told(v).flags
        /\ \A v \in DOMAIN view[s] \ said : view'[s][v] = view[s][v]
    BY <1>2 DEF BoundsInv
  <1>7. ASSUME NEW v \in DOMAIN view'[s]
        PROVE  \/ /\ v \in DOMAIN view[s] /\ view'[s][v] = view[s][v]
                  /\ \A r \in ToSet(reverts) : r.uid # v
               \/ \E r \in ToSet(reverts) : r.uid = v /\ view'[s][v] = r.flags
    BY <1>3, <1>4, <1>6
  <1> QED BY <1>1, <1>5, <1>6, <1>7

\* What a session has injected leaves the queue of every session.
LEMMA MarkShows ==
    ASSUME BoundsInv, RevertsInv, NEW s \in Sessions, MarkDelivered(s)
    PROVE  /\ IsQueue(reverts') /\ ToSet(reverts') = ToSet(reverts) \ inject[s]
           /\ DOMAIN inject' = Sessions
           /\ \A t \in Sessions : inject'[t] = IF t = s THEN {} ELSE inject[t] \ inject[s]
           /\ UNCHANGED <<mailbox, uidnext, elsewhere, rows, status, cmd, by, snapshot, known, order, view>>
  <1>1. /\ reverts' = Filter(reverts, ToSet(reverts) \ inject[s])
        /\ inject' = [t \in Sessions |-> IF t = s THEN {} ELSE inject[t] \ inject[s]]
        /\ UNCHANGED <<mailbox, uidnext, elsewhere, rows, status, cmd, by, snapshot, known, order, view>>
    BY DEF MarkDelivered, mailVars, stagedVars
  <1>2. IsQueue(reverts') /\ ToSet(reverts') = ToSet(reverts) \cap (ToSet(reverts) \ inject[s])
    BY <1>1, QueueOfFilter DEF RevertsInv, IsQueue
  <1> QED BY <1>1, <1>2

-----------------------------------------------------------------------------
(* Each step keeps the invariant *)

\* What a step that leaves the commands alone does not change.
LEMMA SameReach ==
    ASSUME UNCHANGED <<cmd, snapshot, known>>, \A o \in Ops : status'[o] = "free" <=> status[o] = "free"
    PROVE  MadeUp' = MadeUp /\ \A u : Reaches(u)' = Reaches(u)
  BY DEF MadeUp, Reaches

\* A step that changes the status of one operation under way.
LEMMA StatusMoves ==
    ASSUME QueueInv, NEW o \in Ops, status[o] # "free", NEW x \in Statuses \ {"free"},
           status' = [status EXCEPT ![o] = x]
    PROVE  /\ \A p \in Ops : status'[p] = IF p = o THEN x ELSE status[p]
           /\ \A p \in Ops : status'[p] = "free" <=> status[p] = "free"
  BY DEF QueueInv

\* What an operation has recorded is a message it reaches.
LEMMA RecordedIsReached ==
    ASSUME SnapshotInv, NEW o \in Ops, NEW u \in DOMAIN snapshot[o]
    PROVE  /\ status[o] # "free" /\ u \in Uids /\ u \in Reach(cmd[o]) /\ o \in Reaches(u)
           /\ u \in MadeUp \/ u \in known[o]
           /\ cmd[o].type # "store" => u \in known[o]
  BY DEF SnapshotInv, Reaches, Reach, MadeUp

\* A FETCH of a message that nothing has changed yet shows what is there.
LEMMA FetchKeeps ==
    ASSUME Apart, MirrorInv, QueueInv', NEW s \in Sessions, NEW u \in Uids, Fetch(s, u)
    PROVE  MirrorInv'
  <1> USE DEF MirrorInv
  <1>1. /\ u \in DOMAIN mailbox
        /\ DOMAIN rows' = DOMAIN rows \cup {u}
        /\ \A v \in DOMAIN rows : v # u => rows'[v] = rows[v]
        /\ (\A o \in Reaches(u) : status[o] # "pending" \/ cmd[o].type # "store") => rows'[u] = mailbox[u]
        /\ DOMAIN view' = Sessions
        /\ \A t \in Sessions :
               /\ DOMAIN view'[t] \in {DOMAIN view[t], DOMAIN view[t] \cup {u}}
               /\ \A v \in DOMAIN view'[t] :
                      \/ v \in DOMAIN view[t] /\ view'[t][v] = view[t][v] /\ (t = s /\ v = u => u \in MovedAway)
                      \/ v = u /\ t = s /\ rows'[u] = view'[t][u]
        /\ UNCHANGED <<mailbox, uidnext, elsewhere, status, cmd, by, snapshot, known, order, reverts, inject>>
    BY FetchShows
  <1>2. \A t \in Sessions : \A v \in DOMAIN view'[t] :
            \/ v = u /\ view'[t][v] = rows'[u]
            \/ v \in DOMAIN view[t] /\ view'[t][v] = view[t][v]
    BY <1>1
  <1>3. MadeUp' = MadeUp /\ \A v : Reaches(v)' = Reaches(v)
    BY <1>1, SameReach
  <1>4. BoundsInv'
    <2>1. \A t \in Sessions : DOMAIN view'[t] \subseteq Uids
      BY <1>1 DEF BoundsInv
    <2> QED BY <1>1, <2>1 DEF BoundsInv
  <1>5. SnapshotInv' /\ KeptInv' /\ RevertsInv'
    BY <1>1 DEF SnapshotInv, KeptInv, RevertsInv
  <1>6. u < uidnext
    BY <1>1 DEF BoundsInv
  <1>7. PresentInv'
    <2> SUFFICES ASSUME NEW v \in Uids, Shown(v)'
                 PROVE  /\ v < uidnext \/ v \in MadeUp
                        /\ (\A o \in Reaches(v) : status[o] = "snapped") => v \in DOMAIN mailbox
      BY <1>1, <1>3 DEF PresentInv
    <2>1. v = u \/ Shown(v)
      BY <1>1, <1>2 DEF Shown
    <2> QED BY <1>1, <1>6, <2>1 DEF PresentInv
  <1>8. ExactInv'
    <2> SUFFICES ASSUME NEW v \in DOMAIN mailbox \ elsewhere,
                        \A o \in Reaches(v) : status[o] = "snapped" \/ cmd[o].type # "store"
                 PROVE  /\ v \in DOMAIN rows' => rows'[v] = mailbox[v]
                        /\ \A t \in Sessions : v \in DOMAIN view'[t] => view'[t][v] = mailbox[v]
      BY <1>1, <1>3 DEF ExactInv
    <2>1. v \in DOMAIN rows' => rows'[v] = mailbox[v]
      BY <1>1 DEF ExactInv
    <2>2. ASSUME NEW t \in Sessions, v \in DOMAIN view'[t] PROVE view'[t][v] = mailbox[v]
      BY <1>1, <1>2, <2>1, <2>2 DEF ExactInv
    <2> QED BY <2>1, <2>2
  <1>9. BackInv'
    <2> SUFFICES ASSUME NEW o \in Ops, status[o] = "reverted",
                        NEW v \in (known[o] \cap DOMAIN rows') \ elsewhere
                 PROVE  rows'[v] = snapshot[o][v]
      BY <1>1 DEF BackInv
    <2>1. CASE v # u
      BY <1>1, <2>1 DEF BackInv
    <2>2. CASE v = u
      <3>1. v \in Reach(cmd[o])
        BY RecordedIsReached DEF SnapshotInv
      <3>2. \A p \in Reaches(v) : p = o
        BY <3>1, OnlyOne DEF Reaches
      <3>3. rows'[v] = mailbox[v]
        BY <1>1, <2>2, <3>2
      <3> QED BY <1>1, <2>2, <3>3 DEF KeptInv
    <2> QED BY <2>1, <2>2
  <1> QED BY <1>4, <1>5, <1>7, <1>8, <1>9

\* What a new snapshot holds is real, since no other operation reaches its messages.
LEMMA SnapshotKeeps ==
    ASSUME Apart, MirrorInv, QueueInv', NEW s \in Sessions, NEW o \in Ops, Snapshot(s, o)
    PROVE  MirrorInv'
  <1> USE DEF MirrorInv
  <1>1. PICK c \in Commands(o) :
            /\ status[o] = "free"
            /\ \A p \in Ops \ {o} : /\ status'[p] = status[p] /\ cmd'[p] = cmd[p]
                                    /\ snapshot'[p] = snapshot[p] /\ known'[p] = known[p]
            /\ status'[o] = "snapped" /\ cmd'[o] = c
            /\ DOMAIN snapshot'[o] \subseteq Reach(c)
            /\ known'[o] \subseteq DOMAIN snapshot'[o] /\ known'[o] \subseteq DOMAIN rows
            /\ \A u \in known'[o] : snapshot'[o][u] = rows[u]
            /\ c.type # "store" => known'[o] = DOMAIN snapshot'[o]
            /\ DOMAIN snapshot' = Ops /\ DOMAIN known' = Ops
            /\ UNCHANGED <<mailbox, uidnext, elsewhere, rows, order, reverts, inject, view>>
    BY SnapshotShows
  \* nobody else reaches its messages
  <1>2. ASSUME NEW u \in Reach(c) PROVE Reaches(u) = {}
    <2>1. \A p \in Ops \ {o} : status[p] # "free" => u \notin Reach(cmd[p])
      BY <1>2 DEF Apart, QueueInv
    <2> QED BY <1>1, <2>1 DEF Reaches
  <1>3. \A u : Reaches(u)' = IF u \in Reach(c) THEN Reaches(u) \cup {o} ELSE Reaches(u)
    BY <1>1 DEF Reaches
  <1>4. MadeUp \subseteq MadeUp'
    <2> SUFFICES ASSUME NEW p \in Ops, NEW u \in DOMAIN snapshot[p] \ known[p] PROVE u \in MadeUp'
      BY DEF MadeUp
    <2>1. p # o
      BY <1>1 DEF SnapshotInv
    <2> QED BY <1>1, <2>1 DEF MadeUp
  <1>5. BoundsInv' /\ RevertsInv'
    <2>1. BoundsInv'
      BY <1>1 DEF BoundsInv
    <2>2. ASSUME NEW r \in ToSet(reverts) PROVE r.op # o
      BY <1>1 DEF RevertsInv
    <2> QED BY <1>1, <2>1, <2>2 DEF RevertsInv
  <1>6. SnapshotInv'
    <2>1. ASSUME NEW u \in known'[o] PROVE u \in 1 .. uidnext - 1
      <3>1. u \in Uids /\ u \in DOMAIN rows /\ u \in Reach(c)
        BY <1>1, <2>1 DEF Reach
      <3>2. u < uidnext \/ u \in MadeUp
        BY <3>1 DEF PresentInv, Shown
      <3>3. u \notin MadeUp
        <4>1. \A p \in Ops : u \in DOMAIN snapshot[p] => p \in Reaches(u)
          BY RecordedIsReached
        <4> QED BY <1>2, <3>1, <4>1 DEF MadeUp
      <3> QED BY <3>1, <3>2, <3>3 DEF BoundsInv, Uids
    <2>2. \A p \in Ops \ {o} :
              /\ status'[p] = "free" => DOMAIN snapshot'[p] = {}
              /\ status'[p] # "free" =>
                     /\ DOMAIN snapshot'[p] \subseteq Reach(cmd'[p])
                     /\ known'[p] \subseteq DOMAIN snapshot'[p] /\ known'[p] \subseteq 1 .. uidnext - 1
                     /\ cmd'[p].type # "store" => known'[p] = DOMAIN snapshot'[p]
      BY <1>1 DEF SnapshotInv
    <2>3. /\ status'[o] # "free" /\ DOMAIN snapshot'[o] \subseteq Reach(cmd'[o])
          /\ known'[o] \subseteq DOMAIN snapshot'[o] /\ known'[o] \subseteq 1 .. uidnext - 1
          /\ cmd'[o].type # "store" => known'[o] = DOMAIN snapshot'[o]
      BY <1>1, <2>1
    <2>4. uidnext' = uidnext
      BY <1>1
    <2> QED BY <2>2, <2>3, <2>4 DEF SnapshotInv
  <1>7. PresentInv'
    <2> SUFFICES ASSUME NEW u \in Uids, Shown(u)
                 PROVE  /\ u < uidnext \/ u \in MadeUp'
                        /\ (\A p \in Reaches(u)' : status'[p] = "snapped") => u \in DOMAIN mailbox
      BY <1>1 DEF PresentInv, Shown
    <2>1. u < uidnext \/ u \in MadeUp'
      BY <1>4 DEF PresentInv
    <2>2. ASSUME \A p \in Reaches(u)' : status'[p] = "snapped" PROVE u \in DOMAIN mailbox
      <3>1. \A p \in Reaches(u) : p \in Reaches(u)' /\ p # o /\ p \in Ops
        BY <1>1, <1>3 DEF Reaches
      <3>2. \A p \in Reaches(u) : status[p] = "snapped"
        BY <1>1, <2>2, <3>1
      <3> QED BY <3>2 DEF PresentInv
    <2> QED BY <2>1, <2>2
  <1>8. ExactInv'
    <2> SUFFICES ASSUME NEW u \in DOMAIN mailbox \ elsewhere,
                        \A p \in Reaches(u)' : status'[p] = "snapped" \/ cmd'[p].type # "store"
                 PROVE  /\ u \in DOMAIN rows => rows[u] = mailbox[u]
                        /\ \A t \in Sessions : u \in DOMAIN view[t] => view[t][u] = mailbox[u]
      BY <1>1 DEF ExactInv
    <2>1. \A p \in Reaches(u) : p \in Reaches(u)' /\ p # o /\ p \in Ops
      BY <1>1, <1>3 DEF Reaches
    <2>2. \A p \in Reaches(u) : status[p] = "snapped" \/ cmd[p].type # "store"
      BY <1>1, <2>1
    <2> QED BY <2>2 DEF ExactInv
  <1>9. KeptInv'
    <2> SUFFICES ASSUME NEW p \in Ops, status'[p] \notin {"free", "executed"},
                        NEW u \in (known'[p] \cap DOMAIN mailbox) \ elsewhere
                 PROVE  snapshot'[p][u] = mailbox[u]
      BY <1>1 DEF KeptInv
    <2>1. CASE p # o
      BY <1>1, <2>1 DEF KeptInv
    <2>2. CASE p = o
      <3>1. u \in DOMAIN rows /\ snapshot'[p][u] = rows[u] /\ Reaches(u) = {}
        BY <1>1, <1>2, <2>2
      <3> QED BY <3>1 DEF ExactInv
    <2> QED BY <2>1, <2>2
  <1>10. BackInv'
    <2> SUFFICES ASSUME NEW p \in Ops, status'[p] = "reverted",
                        NEW u \in (known'[p] \cap DOMAIN rows) \ elsewhere
                 PROVE  rows[u] = snapshot'[p][u]
      BY <1>1 DEF BackInv
    <2>1. p # o
      BY <1>1
    <2> QED BY <1>1, <2>1 DEF BackInv
  <1> QED BY <1>5, <1>6, <1>7, <1>8, <1>9, <1>10

\* The optimistic change is that of the only operation that reaches these messages.
LEMMA OptimisticKeeps ==
    ASSUME Apart, MirrorInv, QueueInv', NEW o \in Ops, ShowOptimistic(o)
    PROVE  MirrorInv'
  <1> USE DEF MirrorInv
  <1>1. /\ status[o] = "snapped" /\ status' = [status EXCEPT ![o] = "shown"]
        /\ DOMAIN rows' \subseteq DOMAIN rows
        /\ \A v \in DOMAIN rows' :
               v \notin Reach(cmd[o]) \/ cmd[o].type # "store" => rows'[v] = rows[v]
        /\ DOMAIN view' = Sessions
        /\ \A t \in Sessions :
               /\ DOMAIN view'[t] \subseteq DOMAIN view[t]
               /\ \A v \in DOMAIN view'[t] :
                      v \notin Reach(cmd[o]) \/ cmd[o].type # "store" => view'[t][v] = view[t][v]
        /\ UNCHANGED <<mailbox, uidnext, elsewhere, cmd, by, snapshot, known, order, reverts, inject>>
    BY OptimisticShows
  <1>2. /\ \A p \in Ops : status'[p] = IF p = o THEN "shown" ELSE status[p]
        /\ \A p \in Ops : status'[p] = "free" <=> status[p] = "free"
    BY <1>1, StatusMoves DEF Statuses
  <1>3. MadeUp' = MadeUp /\ \A v : Reaches(v)' = Reaches(v)
    BY <1>1, <1>2, SameReach
  <1>4. BoundsInv' /\ SnapshotInv'
    BY <1>1, <1>2 DEF BoundsInv, SnapshotInv
  <1>5. KeptInv' /\ RevertsInv'
    BY <1>1, <1>2 DEF KeptInv, RevertsInv
  <1>6. \A v : \A p \in Reaches(v) : p \in Ops
    BY DEF Reaches
  <1>7. PresentInv'
    <2> SUFFICES ASSUME NEW v \in Uids, Shown(v)'
                 PROVE  /\ v < uidnext \/ v \in MadeUp
                        /\ (\A p \in Reaches(v) : status'[p] = "snapped") => v \in DOMAIN mailbox
      BY <1>1, <1>3 DEF PresentInv
    <2>1. Shown(v)
      BY <1>1 DEF Shown
    <2>2. \A p \in Reaches(v) : status'[p] = "snapped" => status[p] = "snapped"
      BY <1>1, <1>2, <1>6
    <2> QED BY <2>1, <2>2 DEF PresentInv
  <1>8. ExactInv'
    <2> SUFFICES ASSUME NEW v \in DOMAIN mailbox \ elsewhere,
                        \A p \in Reaches(v) : status'[p] = "snapped" \/ cmd[p].type # "store"
                 PROVE  /\ v \in DOMAIN rows' => rows'[v] = mailbox[v]
                        /\ \A t \in Sessions : v \in DOMAIN view'[t] => view'[t][v] = mailbox[v]
      BY <1>1, <1>3 DEF ExactInv
    <2>1. \A p \in Reaches(v) : status[p] = "snapped" \/ cmd[p].type # "store"
      BY <1>1, <1>2, <1>6
    <2>2. v \notin Reach(cmd[o]) \/ cmd[o].type # "store"
      BY <1>1, <1>2 DEF Reaches
    <2> QED BY <1>1, <2>1, <2>2 DEF ExactInv
  <1>9. BackInv'
    <2> SUFFICES ASSUME NEW p \in Ops, status'[p] = "reverted",
                        NEW v \in (known[p] \cap DOMAIN rows') \ elsewhere
                 PROVE  rows'[v] = snapshot[p][v]
      BY <1>1 DEF BackInv
    <2>1. p # o /\ status[p] = "reverted"
      BY <1>2
    <2>2. v \in Reach(cmd[p])
      BY <2>1, RecordedIsReached DEF SnapshotInv
    <2>3. v \notin Reach(cmd[o])
      BY <1>1, <2>1, <2>2, OnlyOne
    <2> QED BY <1>1, <2>1, <2>3 DEF BackInv
  <1> QED BY <1>4, <1>5, <1>7, <1>8, <1>9

\* A step of an operation that changes nothing that is shown.
LEMMA StatusKeeps ==
    ASSUME Apart, MirrorInv, QueueInv', NEW o \in Ops, status[o] \notin {"free", "reverted", "executed"},
           NEW x \in {"pending", "failed", "rejected", "stuck"},
           status' = [status EXCEPT ![o] = x],
           UNCHANGED <<mailbox, uidnext, elsewhere, rows, cmd, by, snapshot, known, reverts, inject, view>>
    PROVE  MirrorInv'
  <1> USE DEF MirrorInv
  <1>1. /\ \A p \in Ops : status'[p] = IF p = o THEN x ELSE status[p]
        /\ \A p \in Ops : status'[p] = "free" <=> status[p] = "free"
    BY StatusMoves DEF Statuses
  <1>2. MadeUp' = MadeUp /\ \A v : Reaches(v)' = Reaches(v)
    BY <1>1, SameReach
  <1>3. BoundsInv' /\ SnapshotInv'
    BY <1>1 DEF BoundsInv, SnapshotInv
  <1>4. RevertsInv' /\ BackInv' /\ KeptInv'
    BY <1>1 DEF RevertsInv, BackInv, KeptInv
  <1>5. \A v : \A p \in Reaches(v) : p \in Ops
    BY DEF Reaches
  <1>6. PresentInv'
    <2> SUFFICES ASSUME NEW v \in Uids, Shown(v), \A p \in Reaches(v) : status'[p] = "snapped"
                 PROVE  v \in DOMAIN mailbox
      BY <1>2 DEF PresentInv, Shown
    <2>1. \A p \in Reaches(v) : status[p] = "snapped"
      BY <1>1, <1>5
    <2> QED BY <2>1 DEF PresentInv
  <1>7. ExactInv'
    <2> SUFFICES ASSUME NEW v \in DOMAIN mailbox \ elsewhere,
                        \A p \in Reaches(v) : status'[p] = "snapped" \/ cmd[p].type # "store"
                 PROVE  /\ v \in DOMAIN rows => rows[v] = mailbox[v]
                        /\ \A t \in Sessions : v \in DOMAIN view[t] => view[t][v] = mailbox[v]
      BY <1>2 DEF ExactInv
    <2>1. \A p \in Reaches(v) : status[p] = "snapped" \/ cmd[p].type # "store"
      BY <1>1, <1>5
    <2> QED BY <2>1 DEF ExactInv
  <1> QED BY <1>3, <1>4, <1>6, <1>7

\* So is the execution, and the others' snapshots stay true.
LEMMA ExecuteKeeps ==
    ASSUME Apart, MirrorInv, QueueInv', NEW o \in Ops, Execute(o)
    PROVE  MirrorInv'
  <1> USE DEF MirrorInv
  <1>1. /\ status[o] = "pending" /\ status' = [status EXCEPT ![o] = "executed"]
        /\ DOMAIN mailbox' \subseteq DOMAIN mailbox
        /\ \A v \in DOMAIN mailbox \ Reach(cmd[o]) : v \in DOMAIN mailbox' /\ mailbox'[v] = mailbox[v]
        /\ cmd[o].type # "store" => \A v \in DOMAIN mailbox' : mailbox'[v] = mailbox[v]
        /\ UNCHANGED <<uidnext, elsewhere, rows, cmd, by, snapshot, known, reverts, inject, view>>
    BY ExecuteShows
  <1>2. /\ \A p \in Ops : status'[p] = IF p = o THEN "executed" ELSE status[p]
        /\ \A p \in Ops : status'[p] = "free" <=> status[p] = "free"
    BY <1>1, StatusMoves DEF Statuses
  <1>3. MadeUp' = MadeUp /\ \A v : Reaches(v)' = Reaches(v)
    BY <1>1, <1>2, SameReach
  <1>4. \A v : \A p \in Reaches(v) : p \in Ops
    BY DEF Reaches
  <1>5. BoundsInv' /\ SnapshotInv'
    BY <1>1, <1>2 DEF BoundsInv, SnapshotInv
  <1>6. RevertsInv' /\ BackInv'
    BY <1>1, <1>2 DEF RevertsInv, BackInv
  <1>7. PresentInv'
    <2> SUFFICES ASSUME NEW v \in Uids, Shown(v), \A p \in Reaches(v) : status'[p] = "snapped"
                 PROVE  v \in DOMAIN mailbox'
      BY <1>1, <1>3 DEF PresentInv, Shown
    <2>1. \A p \in Reaches(v) : status[p] = "snapped"
      BY <1>1, <1>2, <1>4
    <2>2. o \notin Reaches(v)
      BY <1>1, <2>1
    <2>3. v \notin Reach(cmd[o])
      BY <1>1, <2>2 DEF Reaches
    <2> QED BY <1>1, <2>1, <2>3 DEF PresentInv
  <1>8. ExactInv'
    <2> SUFFICES ASSUME NEW v \in DOMAIN mailbox' \ elsewhere,
                        \A p \in Reaches(v) : status'[p] = "snapped" \/ cmd[p].type # "store"
                 PROVE  /\ v \in DOMAIN rows => rows[v] = mailbox'[v]
                        /\ \A t \in Sessions : v \in DOMAIN view[t] => view[t][v] = mailbox'[v]
      BY <1>1, <1>3 DEF ExactInv
    <2>1. \A p \in Reaches(v) : status[p] = "snapped" \/ cmd[p].type # "store"
      BY <1>1, <1>2, <1>4
    <2>2. v \notin Reach(cmd[o]) \/ cmd[o].type # "store"
      BY <1>1, <2>1 DEF Reaches
    <2>3. v \in DOMAIN mailbox /\ mailbox'[v] = mailbox[v]
      BY <1>1, <2>2
    <2> QED BY <2>1, <2>3 DEF ExactInv
  <1>9. KeptInv'
    <2> SUFFICES ASSUME NEW p \in Ops, status'[p] \notin {"free", "executed"},
                        NEW v \in (known[p] \cap DOMAIN mailbox') \ elsewhere
                 PROVE  snapshot[p][v] = mailbox'[v]
      BY <1>1 DEF KeptInv
    <2>1. p # o /\ status[p] \notin {"free", "executed"}
      BY <1>2
    <2>2. v \in Reach(cmd[p])
      BY <2>1, RecordedIsReached DEF SnapshotInv
    <2>3. v \notin Reach(cmd[o])
      BY <1>1, <2>1, <2>2, OnlyOne
    <2>4. v \in DOMAIN mailbox /\ mailbox'[v] = mailbox[v]
      BY <1>1, <2>3
    <2> QED BY <2>1, <2>4 DEF KeptInv
  <1> QED BY <1>5, <1>6, <1>7, <1>8, <1>9

\* A rollback brings the real flags back, and their operation is over.
LEMMA RestoreKeeps ==
    ASSUME Apart, MirrorInv, QueueInv', NEW o \in Ops, Restore(o)
    PROVE  MirrorInv'
  <1> USE DEF MirrorInv
  <1>1. /\ status[o] = "rejected" /\ status' = [status EXCEPT ![o] = "reverted"]
        /\ DOMAIN rows' = DOMAIN rows \cup DOMAIN snapshot[o]
        /\ \A v \in DOMAIN snapshot[o] : rows'[v] = snapshot[o][v]
        /\ \A v \in DOMAIN rows \ DOMAIN snapshot[o] : rows'[v] = rows[v]
        /\ IsQueue(reverts')
        /\ ToSet(reverts') = ToSet(reverts) \cup
               {[op |-> o, uid |-> u, flags |-> snapshot[o][u]] : u \in DOMAIN snapshot[o]}
        /\ UNCHANGED <<mailbox, uidnext, elsewhere, cmd, by, snapshot, known, order, inject, view>>
    BY RestoreShows
  <1>2. /\ \A p \in Ops : status'[p] = IF p = o THEN "reverted" ELSE status[p]
        /\ \A p \in Ops : status'[p] = "free" <=> status[p] = "free"
    BY <1>1, StatusMoves DEF Statuses
  <1>3. MadeUp' = MadeUp /\ \A v : Reaches(v)' = Reaches(v)
    BY <1>1, <1>2, SameReach
  <1>4. \A v : \A p \in Reaches(v) : p \in Ops
    BY DEF Reaches
  <1>5. DOMAIN snapshot[o] \subseteq Uids
    BY RecordedIsReached
  <1>6. BoundsInv' /\ SnapshotInv' /\ KeptInv'
    <2>1. BoundsInv'
      BY <1>1, <1>5 DEF BoundsInv
    <2>2. SnapshotInv'
      BY <1>1, <1>2 DEF SnapshotInv
    <2>3. KeptInv'
      BY <1>1, <1>2 DEF KeptInv
    <2> QED BY <2>1, <2>2, <2>3
  <1>7. RevertsInv'
    <2>1. ASSUME NEW r \in ToSet(reverts')
          PROVE  r.op \in Ops /\ status'[r.op] = "reverted" /\ r.uid \in DOMAIN snapshot[r.op] /\ r.flags = snapshot[r.op][r.uid]
      <3>1. CASE r \in ToSet(reverts)
        BY <1>2, <3>1 DEF RevertsInv
      <3>2. CASE r \notin ToSet(reverts)
        <4>1. PICK u \in DOMAIN snapshot[o] : r = [op |-> o, uid |-> u, flags |-> snapshot[o][u]]
          BY <1>1, <2>1, <3>2
        <4> QED BY <1>2, <4>1
      <3> QED BY <3>1, <3>2
    <2>2. \A s \in Sessions : inject[s] \subseteq ToSet(reverts')
      BY <1>1 DEF RevertsInv
    <2> QED BY <1>1, <2>1, <2>2 DEF RevertsInv
  <1>8. PresentInv'
    <2> SUFFICES ASSUME NEW v \in Uids, Shown(v)'
                 PROVE  /\ v < uidnext \/ v \in MadeUp
                        /\ (\A p \in Reaches(v) : status'[p] = "snapped") => v \in DOMAIN mailbox
      BY <1>1, <1>3 DEF PresentInv
    <2>1. CASE v \in DOMAIN snapshot[o]
      <3>1. o \in Reaches(v) /\ status'[o] # "snapped" /\ (v \in MadeUp \/ v \in known[o])
        BY <1>2, <2>1, RecordedIsReached
      <3>2. v \in known[o] => v < uidnext
        BY <1>1 DEF SnapshotInv, BoundsInv
      <3> QED BY <3>1, <3>2
    <2>2. CASE v \notin DOMAIN snapshot[o]
      <3>1. Shown(v)
        BY <1>1, <2>2 DEF Shown
      <3>2. \A p \in Reaches(v) : status'[p] = "snapped" => status[p] = "snapped"
        BY <1>2, <1>4
      <3> QED BY <3>1, <3>2 DEF PresentInv
    <2> QED BY <2>1, <2>2
  <1>9. ExactInv'
    <2> SUFFICES ASSUME NEW v \in DOMAIN mailbox \ elsewhere,
                        \A p \in Reaches(v) : status'[p] = "snapped" \/ cmd[p].type # "store"
                 PROVE  /\ v \in DOMAIN rows' => rows'[v] = mailbox[v]
                        /\ \A t \in Sessions : v \in DOMAIN view[t] => view[t][v] = mailbox[v]
      BY <1>1, <1>3 DEF ExactInv
    <2>1. \A p \in Reaches(v) : status[p] = "snapped" \/ cmd[p].type # "store"
      BY <1>2, <1>4
    <2>2. \A t \in Sessions : v \in DOMAIN view[t] => view[t][v] = mailbox[v]
      BY <2>1 DEF ExactInv
    <2>3. CASE v \in DOMAIN snapshot[o]
      <3>1. v \in known[o]
        BY <1>2, <2>3, RecordedIsReached
      <3>2. snapshot[o][v] = mailbox[v]
        BY <1>1, <3>1 DEF KeptInv
      <3> QED BY <1>1, <2>2, <2>3, <3>2
    <2>4. CASE v \notin DOMAIN snapshot[o]
      BY <1>1, <2>1, <2>2, <2>4 DEF ExactInv
    <2> QED BY <2>3, <2>4
  <1>10. BackInv'
    <2> SUFFICES ASSUME NEW p \in Ops, status'[p] = "reverted",
                        NEW v \in (known[p] \cap DOMAIN rows') \ elsewhere
                 PROVE  rows'[v] = snapshot[p][v]
      BY <1>1 DEF BackInv
    <2>1. CASE p = o
      BY <1>1, <2>1 DEF SnapshotInv
    <2>2. CASE p # o
      <3>1. status[p] = "reverted"
        BY <1>2, <2>2
      <3>2. v \in Reach(cmd[p])
        BY <3>1, RecordedIsReached DEF SnapshotInv
      <3>3. v \notin DOMAIN snapshot[o]
        BY <1>1, <2>2, <3>1, <3>2, OnlyOne, RecordedIsReached
      <3> QED BY <1>1, <3>1, <3>3 DEF BackInv
    <2> QED BY <2>1, <2>2
  <1> QED BY <1>6, <1>7, <1>8, <1>9, <1>10

\* An injection shows the flags of a snapshot whose operation is over.
LEMMA InjectKeeps ==
    ASSUME Apart, MirrorInv, QueueInv', NEW s \in Sessions, Inject(s)
    PROVE  MirrorInv'
  <1> USE DEF MirrorInv
  <1>1. /\ inject' = [inject EXCEPT ![s] = ToSet(reverts)]
        /\ DOMAIN view' = Sessions
        /\ \A t \in Sessions : DOMAIN view[t] \subseteq DOMAIN view'[t]
        /\ \A t \in Sessions : \A v \in DOMAIN view'[t] :
               \/ /\ v \in DOMAIN view[t] /\ view'[t][v] = view[t][v]
                  /\ t = s => \A r \in ToSet(reverts) : r.uid # v
               \/ t = s /\ \E r \in ToSet(reverts) : r.uid = v /\ view'[t][v] = r.flags
        /\ UNCHANGED <<mailbox, uidnext, elsewhere, rows, status, cmd, by, snapshot, known, order, reverts>>
    BY InjectShows
  <1>2. \A t \in Sessions : \A v \in DOMAIN view'[t] :
            \/ v \in DOMAIN view[t] /\ view'[t][v] = view[t][v]
            \/ \E r \in ToSet(reverts) : r.uid = v /\ view'[t][v] = r.flags
    BY <1>1
  <1>3. MadeUp' = MadeUp /\ \A v : Reaches(v)' = Reaches(v)
    BY <1>1, SameReach
  <1>4. ASSUME NEW r \in ToSet(reverts)
        PROVE  /\ r.op \in Reaches(r.uid) /\ status[r.op] = "reverted" /\ r.uid \in Uids
               /\ r.uid \in MadeUp \/ r.uid \in known[r.op]
               /\ cmd[r.op].type # "store" => r.uid \in known[r.op]
               /\ r.flags = snapshot[r.op][r.uid] /\ r.op \in Ops
    BY RecordedIsReached DEF RevertsInv
  <1>5. BoundsInv'
    <2>1. \A t \in Sessions : DOMAIN view'[t] \subseteq Uids
      BY <1>2, <1>4 DEF BoundsInv
    <2> QED BY <1>1, <2>1 DEF BoundsInv
  <1>6. SnapshotInv' /\ KeptInv' /\ BackInv'
    BY <1>1 DEF SnapshotInv, KeptInv, BackInv
  <1>7. RevertsInv'
    <2>1. \A t \in Sessions : inject'[t] \subseteq ToSet(reverts)
      BY <1>1 DEF RevertsInv, BoundsInv
    <2> QED BY <1>1, <2>1 DEF RevertsInv
  <1>8. PresentInv'
    <2> SUFFICES ASSUME NEW v \in Uids, Shown(v)'
                 PROVE  /\ v < uidnext \/ v \in MadeUp
                        /\ (\A p \in Reaches(v) : status[p] = "snapped") => v \in DOMAIN mailbox
      BY <1>1, <1>3 DEF PresentInv
    <2>1. CASE Shown(v)
      BY <2>1 DEF PresentInv
    <2>2. CASE ~Shown(v)
      <3>1. PICK r \in ToSet(reverts) : r.uid = v
        BY <1>1, <1>2, <2>2 DEF Shown
      <3>2. r.op \in Ops /\ known[r.op] \subseteq 1 .. uidnext - 1
        BY <1>4 DEF SnapshotInv
      <3>3. v \in known[r.op] => v < uidnext
        BY <3>2 DEF BoundsInv
      <3>4. status[r.op] # "snapped" /\ r.op \in Reaches(v)
        BY <1>4, <3>1
      <3> QED BY <1>4, <3>1, <3>3, <3>4
    <2> QED BY <2>1, <2>2
  <1>9. ExactInv'
    <2> SUFFICES ASSUME NEW v \in DOMAIN mailbox \ elsewhere,
                        \A p \in Reaches(v) : status[p] = "snapped" \/ cmd[p].type # "store"
                 PROVE  /\ v \in DOMAIN rows => rows[v] = mailbox[v]
                        /\ \A t \in Sessions : v \in DOMAIN view'[t] => view'[t][v] = mailbox[v]
      BY <1>1, <1>3 DEF ExactInv
    <2>1. \A r \in ToSet(reverts) : r.uid = v => r.flags = mailbox[v]
      <3> SUFFICES ASSUME NEW r \in ToSet(reverts), r.uid = v PROVE r.flags = mailbox[v]
        OBVIOUS
      <3>1. v \in known[r.op] /\ status[r.op] = "reverted" /\ r.op \in Ops /\ r.flags = snapshot[r.op][v]
        BY <1>4
      <3> QED BY <3>1 DEF KeptInv
    <2> QED BY <1>2, <2>1 DEF ExactInv
  <1> QED BY <1>5, <1>6, <1>7, <1>8, <1>9

\* To forget a revert changes neither mailbox nor mirror.
LEMMA MarkKeeps ==
    ASSUME Apart, MirrorInv, QueueInv', NEW s \in Sessions, MarkDelivered(s)
    PROVE  MirrorInv'
  <1> USE DEF MirrorInv
  <1>1. /\ IsQueue(reverts') /\ ToSet(reverts') = ToSet(reverts) \ inject[s]
        /\ DOMAIN inject' = Sessions
        /\ \A t \in Sessions : inject'[t] = IF t = s THEN {} ELSE inject[t] \ inject[s]
        /\ UNCHANGED <<mailbox, uidnext, elsewhere, rows, status, cmd, by, snapshot, known, order, view>>
    BY MarkShows
  <1>2. MadeUp' = MadeUp /\ \A v : Reaches(v)' = Reaches(v)
    BY <1>1, SameReach
  <1>3. BoundsInv' /\ SnapshotInv' /\ KeptInv' /\ BackInv'
    BY <1>1 DEF BoundsInv, SnapshotInv, KeptInv, BackInv
  <1>4. RevertsInv'
    BY <1>1 DEF RevertsInv
  <1>5. PresentInv' /\ ExactInv'
    BY <1>1, <1>2 DEF PresentInv, ExactInv, Shown
  <1> QED BY <1>3, <1>4, <1>5

\* A flag set elsewhere takes its message out of what is claimed.
LEMMA OutsideKeeps ==
    ASSUME Apart, MirrorInv, QueueInv', NEW u \in Uids, NEW f, FlagElsewhere(u, f)
    PROVE  MirrorInv'
  <1> USE DEF MirrorInv
  <1>1. /\ mailbox' = [mailbox EXCEPT ![u] = @ \cup {f}] /\ elsewhere' = elsewhere \cup {u}
        /\ UNCHANGED <<uidnext, rows, status, cmd, by, snapshot, known, order, reverts, inject, view>>
    BY DEF FlagElsewhere, stagedVars
  <1>2. DOMAIN mailbox' = DOMAIN mailbox /\ \A v \in DOMAIN mailbox \ elsewhere' : mailbox'[v] = mailbox[v]
    BY <1>1
  <1>3. MadeUp' = MadeUp /\ \A v : Reaches(v)' = Reaches(v)
    BY <1>1, SameReach
  <1>4. BoundsInv' /\ SnapshotInv' /\ RevertsInv'
    BY <1>1, <1>2 DEF BoundsInv, SnapshotInv, RevertsInv
  <1>5. KeptInv' /\ BackInv'
    BY <1>1, <1>2 DEF KeptInv, BackInv
  <1>6. PresentInv'
    BY <1>1, <1>2, <1>3 DEF PresentInv, Shown
  <1>7. ExactInv'
    BY <1>1, <1>2, <1>3 DEF ExactInv
  <1> QED BY <1>4, <1>5, <1>6, <1>7

\* New mail has a UID that nothing has shown, unless it was made up.
LEMMA ArriveKeeps ==
    ASSUME Apart, MirrorInv, QueueInv', Arrive
    PROVE  MirrorInv'
  <1> USE DEF MirrorInv
  <1>1. /\ uidnext <= MaxUid /\ uidnext' = uidnext + 1
        /\ UNCHANGED <<elsewhere, rows, status, cmd, by, snapshot, known, order, reverts, inject, view>>
    BY DEF Arrive, stagedVars
  <1>2. DOMAIN mailbox' = DOMAIN mailbox \cup {uidnext} /\ \A v \in DOMAIN mailbox : v # uidnext => mailbox'[v] = mailbox[v]
    BY DEF Arrive, Set
  <1>3. uidnext \in Nat \ {0} /\ uidnext \notin DOMAIN mailbox
    BY DEF BoundsInv
  <1>4. MadeUp' = MadeUp /\ \A v : Reaches(v)' = Reaches(v)
    BY <1>1, SameReach
  <1>5. BoundsInv'
    <2>1. DOMAIN mailbox' \subseteq 1 .. uidnext' - 1
      BY <1>1, <1>2, <1>3 DEF BoundsInv
    <2> QED BY <1>1, <1>2, <1>3, <2>1, MirrorAssumption DEF BoundsInv, Uids
  <1>6. SnapshotInv'
    <2>1. 1 .. uidnext - 1 \subseteq 1 .. uidnext' - 1
      BY <1>1, <1>3
    <2> QED BY <1>1, <2>1 DEF SnapshotInv
  <1>7. RevertsInv' /\ BackInv'
    BY <1>1 DEF RevertsInv, BackInv
  <1>8. PresentInv'
    <2>1. \A v \in Uids : v < uidnext => v < uidnext'
      BY <1>1, <1>3 DEF Uids
    <2> QED BY <1>1, <1>2, <1>4, <2>1 DEF PresentInv, Shown
  <1>9. KeptInv'
    <2>1. \A o \in Ops : status[o] # "free" => uidnext \notin known[o]
      BY <1>3 DEF SnapshotInv
    <2> QED BY <1>1, <1>2, <2>1 DEF KeptInv
  \* new mail is not shown yet, unless a store has made it up that has shown its change
  <1>10. ExactInv'
    <2> SUFFICES ASSUME NEW v \in DOMAIN mailbox' \ elsewhere,
                        \A p \in Reaches(v) : status[p] = "snapped" \/ cmd[p].type # "store"
                 PROVE  /\ v \in DOMAIN rows => rows[v] = mailbox'[v]
                        /\ \A t \in Sessions : v \in DOMAIN view[t] => view[t][v] = mailbox'[v]
      BY <1>1, <1>4 DEF ExactInv
    <2>1. CASE v # uidnext
      BY <1>1, <1>2, <2>1 DEF ExactInv
    <2>2. CASE v = uidnext
      <3>1. ASSUME Shown(v) PROVE FALSE
        <4>1. v \in Uids
          BY <3>1 DEF Shown, BoundsInv
        <4>2. v \in MadeUp
          BY <1>3, <2>2, <3>1, <4>1 DEF PresentInv
        <4>3. PICK p \in Ops : v \in DOMAIN snapshot[p] /\ v \notin known[p]
          BY <4>2 DEF MadeUp
        <4>4. p \in Reaches(v) /\ cmd[p].type = "store" /\ status[p] # "free" /\ v \in Reach(cmd[p])
          BY <4>3, RecordedIsReached
        <4>5. \A q \in Reaches(v) : q = p
          BY <4>4, OnlyOne DEF Reaches
        <4>6. \A q \in Reaches(v) : status[q] = "snapped"
          BY <4>4, <4>5
        <4> QED BY <1>3, <2>2, <3>1, <4>1, <4>6 DEF PresentInv
      <3> QED BY <3>1 DEF Shown
    <2> QED BY <2>1, <2>2
  <1> QED BY <1>5, <1>6, <1>7, <1>8, <1>9, <1>10

\* At the start nothing is mirrored.
LEMMA MirrorAtFirst ==
    ASSUME Init
    PROVE  MirrorInv
  <1> USE DEF Init
  <1>1. DOMAIN rows = {} /\ (\A s \in Sessions : DOMAIN view[s] = {}) /\ \A o \in Ops : DOMAIN snapshot[o] = {}
    OBVIOUS
  <1>2. BoundsInv
    <2>1. DOMAIN mailbox = 1 .. MaxUid - 1
      BY MirrorAssumption DEF Uids
    <2> QED BY <1>1, <2>1, MirrorAssumption DEF BoundsInv, Uids
  <1>3. SnapshotInv /\ KeptInv /\ BackInv
    BY <1>1 DEF SnapshotInv, KeptInv, BackInv
  <1>4. PresentInv /\ ExactInv
    BY <1>1 DEF PresentInv, ExactInv, Shown
  <1>5. RevertsInv
    <2>1. reverts = <<>> /\ ToSet(reverts) = {}
      BY DEF ToSet
    <2> QED BY <2>1 DEF RevertsInv, IsQueue
  <1> QED BY <1>2, <1>3, <1>4, <1>5, QueueInit DEF MirrorInv

\* No step breaks it, for operations that share no message.
LEMMA MirrorKept ==
    ASSUME Apart, MirrorInv, [Next]_vars
    PROVE  MirrorInv'
  <1>0. QueueInv'
    BY QueueKept DEF MirrorInv
  <1>1. ASSUME NEW s \in Sessions, Inject(s) \/ MarkDelivered(s) PROVE MirrorInv'
    BY <1>0, <1>1, InjectKeeps, MarkKeeps
  <1>2. ASSUME NEW s \in Sessions, NEW u \in Uids, Fetch(s, u) PROVE MirrorInv'
    BY <1>0, <1>2, FetchKeeps
  <1>3. ASSUME NEW s \in Sessions, NEW o \in Ops, Snapshot(s, o) PROVE MirrorInv'
    BY <1>0, <1>3, SnapshotKeeps
  <1>4. ASSUME NEW o \in Ops, ShowOptimistic(o) PROVE MirrorInv'
    BY <1>0, <1>4, OptimisticKeeps
  <1>5. ASSUME NEW o \in Ops, CreateOperation(o) \/ Fail(o) \/ Reject(o) \/ RestoreRaises(o) PROVE MirrorInv'
    <2>1. \E x \in {"pending", "failed", "rejected", "stuck"} :
              /\ status[o] \notin {"free", "reverted", "executed"} /\ status' = [status EXCEPT ![o] = x]
      BY <1>5 DEF CreateOperation, Fail, Reject, RestoreRaises, Decide
    <2>2. UNCHANGED <<mailbox, uidnext, elsewhere, rows, cmd, by, snapshot, known, reverts, inject, view>>
      BY <1>5 DEF CreateOperation, Fail, Reject, RestoreRaises, Decide, mailVars, stagedVars
    <2> QED BY <1>0, <2>1, <2>2, StatusKeeps
  <1>6. ASSUME NEW o \in Ops, Execute(o) PROVE MirrorInv'
    BY <1>0, <1>6, ExecuteKeeps
  <1>7. ASSUME NEW o \in Ops, Restore(o) PROVE MirrorInv'
    BY <1>0, <1>7, RestoreKeeps
  <1>8. ASSUME NEW u \in Uids, NEW f \in Flags, FlagElsewhere(u, f) PROVE MirrorInv'
    BY <1>0, <1>8, OutsideKeeps
  <1>9. CASE Arrive
    BY <1>0, <1>9, ArriveKeeps
  <1>10. CASE UNCHANGED vars
    <2> USE <1>10 DEF vars, stagedVars, mailVars
    <2>1. BoundsInv' /\ SnapshotInv' /\ KeptInv' /\ BackInv' /\ RevertsInv'
      BY DEF MirrorInv, BoundsInv, SnapshotInv, KeptInv, BackInv, RevertsInv
    <2>2. MadeUp' = MadeUp /\ \A v : Reaches(v)' = Reaches(v)
      BY SameReach
    <2>3. PresentInv' /\ ExactInv'
      BY <2>2 DEF MirrorInv, PresentInv, ExactInv, Shown
    <2> QED BY <1>0, <2>1, <2>3 DEF MirrorInv
  <1> QED BY <1>1, <1>2, <1>3, <1>4, <1>5, <1>6, <1>7, <1>8, <1>9, <1>10 DEF Next

\* As long as no two operations name a message in common: snapshots keep the real flags,
\* reverts and rows restore them, and what is shown without a pending change is real.
\* (snapshot_messages, restore_from_snapshot)
THEOREM MirrorAlways ==
    ASSUME Apart
    PROVE  Spec => []MirrorInv
  <1>1. MirrorInv /\ [Next]_vars => MirrorInv'
    BY MirrorKept
  <1> QED BY <1>1, MirrorAtFirst, PTL DEF Spec

-----------------------------------------------------------------------------
(* A rollback, and what the agent is told of it *)

\* A rollback restores the real flags of every message the mirror knew when the
\* operation was staged, in the mirror and in what is queued for the agent, as long as
\* no two operations name a message in common: for any number of messages, operations,
\* sessions and whatever arrives or is fetched meanwhile.  (restore_from_snapshot,
\* insert_pending_reverts)
THEOREM RollbackAlwaysTrue ==
    ASSUME Apart
    PROVE  Spec => RollbackIsTrue
  <1>1. ASSUME MirrorInv, [Next]_vars, NEW o \in Ops, status[o] = "rejected", status'[o] = "reverted"
        PROVE  Restore(o)
    <2> USE <1>1
    <2>1. status \in [Ops -> Statuses]
      BY DEF MirrorInv, QueueInv
    <2>2. ~UNCHANGED status
      OBVIOUS
    <2>3. PICK p \in Ops :
              \/ \E s \in Sessions : Snapshot(s, p)
              \/ ShowOptimistic(p) \/ CreateOperation(p)
              \/ Execute(p) \/ Fail(p) \/ Reject(p) \/ Restore(p) \/ RestoreRaises(p)
      BY <2>2 DEF Next, vars, Inject, MarkDelivered, Fetch, FlagElsewhere, Arrive
    <2>4. \/ Restore(p)
          \/ \E x \in {"snapped", "shown", "pending", "executed", "failed", "rejected", "stuck"} :
                 status' = [status EXCEPT ![p] = x]
      BY <2>3 DEF Snapshot, ShowOptimistic, CreateOperation, Execute, Fail, Reject, RestoreRaises, Decide
    <2>5. Restore(p)
      BY <2>1, <2>4
    <2>6. p = o
      BY <2>1, <2>5 DEF Restore
    <2> QED BY <2>5, <2>6
  <1>2. ASSUME MirrorInv, [Next]_vars, NEW o \in Ops, status[o] = "rejected", status'[o] = "reverted",
               NEW u \in (known[o] \cap DOMAIN mailbox) \ elsewhere
        PROVE  /\ u \in DOMAIN rows' /\ rows'[u] = mailbox[u]
               /\ [op |-> o, uid |-> u, flags |-> mailbox[u]] \in ToSet(reverts')
    <2>1. Restore(o)
      BY <1>1, <1>2
    <2>2. u \in DOMAIN snapshot[o] /\ snapshot[o][u] = mailbox[u]
      BY <1>2 DEF MirrorInv, SnapshotInv, KeptInv
    <2>3. /\ DOMAIN rows' = DOMAIN rows \cup DOMAIN snapshot[o]
          /\ \A v \in DOMAIN snapshot[o] : rows'[v] = snapshot[o][v]
          /\ ToSet(reverts') = ToSet(reverts) \cup
                 {[op |-> o, uid |-> v, flags |-> snapshot[o][v]] : v \in DOMAIN snapshot[o]}
      BY <1>2, <2>1, RestoreShows DEF MirrorInv
    <2> QED BY <2>2, <2>3
  <1>3. MirrorInv /\ [Next]_vars =>
            \A o \in Ops : status[o] = "rejected" /\ status'[o] = "reverted" =>
                \A u \in (known[o] \cap DOMAIN mailbox) \ elsewhere :
                    /\ u \in DOMAIN rows' /\ rows'[u] = mailbox[u]
                    /\ [op |-> o, uid |-> u, flags |-> mailbox[u]] \in ToSet(reverts')
    BY <1>2
  <1>4. MirrorInv /\ [Next]_vars =>
            [\A o \in Ops : status[o] = "rejected" /\ status'[o] = "reverted" =>
                \A u \in (known[o] \cap DOMAIN mailbox) \ elsewhere :
                    /\ u \in DOMAIN rows' /\ rows'[u] = mailbox[u]
                    /\ [op |-> o, uid |-> u, flags |-> mailbox[u]] \in ToSet(reverts')]_vars
    BY <1>3
  <1> QED BY <1>4, MirrorAlways, PTL DEF Spec, RollbackIsTrue

\* Where the agent and the mirror differ, the agent is going to be told.  A store that is
\* shown to both changes the same messages in both, since a set without "*" denotes
\* the same ones in the rows and in the mailbox.
LEMMA AgreeKept ==
    ASSUME Apart, Starless, OneSession, MirrorInv, AgreeInv, [Next]_vars
    PROVE  AgreeInv'
  <1> USE DEF MirrorInv
  <1>1. ASSUME NEW s \in Sessions, Inject(s) PROVE AgreeInv'
    <2>1. /\ inject' = [inject EXCEPT ![s] = ToSet(reverts)]
          /\ \A v \in DOMAIN view'[s] :
                 \/ /\ v \in DOMAIN view[s] /\ view'[s][v] = view[s][v]
                    /\ \A r \in ToSet(reverts) : r.uid # v
                 \/ \E r \in ToSet(reverts) : r.uid = v /\ view'[s][v] = r.flags
          /\ UNCHANGED <<elsewhere, rows, status, cmd, by, snapshot, known, reverts>>
      BY <1>1, InjectShows
    <2>2. MadeUp' = MadeUp
      BY <2>1, SameReach
    <2> SUFFICES ASSUME NEW v \in (DOMAIN view'[s] \cap DOMAIN rows) \ (MadeUp \cup elsewhere)
                 PROVE  view'[s][v] = rows[v]
      BY <2>1, <2>2 DEF AgreeInv, OneSession
    <2>3. CASE \E r \in ToSet(reverts) : r.uid = v /\ view'[s][v] = r.flags
      <3>1. PICK r \in ToSet(reverts) : r.uid = v /\ view'[s][v] = r.flags
        BY <2>3
      <3>2. /\ r.op \in Ops /\ status[r.op] = "reverted" /\ v \in DOMAIN snapshot[r.op]
            /\ r.flags = snapshot[r.op][v]
        BY <3>1 DEF RevertsInv
      <3>3. v \in known[r.op]
        BY <3>2 DEF MadeUp
      <3> QED BY <3>1, <3>2, <3>3 DEF BackInv
    <2>4. CASE v \in DOMAIN view[s] /\ view'[s][v] = view[s][v] /\ \A r \in ToSet(reverts) : r.uid # v
      BY <2>4 DEF AgreeInv, ToTell
    <2> QED BY <2>1, <2>3, <2>4
  <1>2. ASSUME NEW s \in Sessions, MarkDelivered(s) PROVE AgreeInv'
    <2>1. /\ ToSet(reverts') = ToSet(reverts) \ inject[s] /\ inject'[s] = {}
          /\ UNCHANGED <<elsewhere, rows, status, cmd, by, snapshot, known, view>>
      BY <1>2, MarkShows
    <2>2. MadeUp' = MadeUp
      BY <2>1, SameReach
    <2>3. \A v : ToTell(s, v)' = ToTell(s, v)
      BY <2>1 DEF ToTell
    <2> QED BY <2>1, <2>2, <2>3 DEF AgreeInv, OneSession
  <1>3. ASSUME NEW s \in Sessions, NEW u \in Uids, Fetch(s, u) PROVE AgreeInv'
    <2>1. /\ u \in DOMAIN mailbox
          /\ DOMAIN rows' = DOMAIN rows \cup {u}
          /\ \A v \in DOMAIN rows : v # u => rows'[v] = rows[v]
          /\ (\A o \in Reaches(u) : status[o] # "pending" \/ cmd[o].type # "store") => rows'[u] = mailbox[u]
          /\ \A t \in Sessions :
                 /\ DOMAIN view'[t] \in {DOMAIN view[t], DOMAIN view[t] \cup {u}}
                 /\ \A v \in DOMAIN view'[t] :
                        \/ v \in DOMAIN view[t] /\ view'[t][v] = view[t][v] /\ (t = s /\ v = u => u \in MovedAway)
                        \/ v = u /\ t = s /\ rows'[u] = view'[t][u]
          /\ UNCHANGED <<elsewhere, status, cmd, by, snapshot, known, reverts, inject>>
      BY <1>3, FetchShows
    <2>2. MadeUp' = MadeUp
      BY <2>1, SameReach
    <2>3. \A v : ToTell(s, v)' = ToTell(s, v)
      BY <2>1 DEF ToTell
    <2> SUFFICES ASSUME NEW v \in (DOMAIN view'[s] \cap DOMAIN rows') \ (MadeUp \cup elsewhere)
                 PROVE  view'[s][v] = rows'[v] \/ ToTell(s, v)
      BY <2>1, <2>2, <2>3 DEF AgreeInv, OneSession
    <2>4. CASE v # u
      <3>1. v \in DOMAIN view[s] /\ view'[s][v] = view[s][v]
        BY <1>3, <2>4, FetchTells
      <3>2. v \in DOMAIN rows /\ rows'[v] = rows[v] /\ v \notin MadeUp /\ v \notin elsewhere
        BY <2>1, <2>4
      <3> QED BY <3>1, <3>2 DEF AgreeInv
    \* the line of a message that is pending MOVE is not forwarded: no store reaches it
    <2>5. CASE v = u /\ v \in DOMAIN view[s] /\ view'[s][v] = view[s][v] /\ u \in MovedAway
      <3>1. PICK o \in Reaches(u) : status[o] = "pending" /\ cmd[o].type = "move"
        BY <2>5, HiddenIsReached
      <3>2. \A p \in Reaches(u) : p = o
        BY <3>1, OnlyOne DEF Reaches
      <3>3. \A p \in Reaches(u) : cmd[p].type # "store"
        BY <3>1, <3>2
      <3> QED BY <2>1, <2>5, <3>3 DEF ExactInv
    <2> QED BY <2>1, <2>4, <2>5
  <1>4. ASSUME NEW s \in Sessions, NEW o \in Ops, Snapshot(s, o) PROVE AgreeInv'
    <2>1. /\ status[o] = "free"
          /\ \A p \in Ops \ {o} : snapshot'[p] = snapshot[p] /\ known'[p] = known[p]
          /\ UNCHANGED <<elsewhere, rows, reverts, inject, view>>
      BY <1>4, SnapshotShows
    <2>2. MadeUp \subseteq MadeUp'
      <3> SUFFICES ASSUME NEW p \in Ops, NEW u \in DOMAIN snapshot[p] \ known[p] PROVE u \in MadeUp'
        BY DEF MadeUp
      <3>1. p # o
        BY <2>1 DEF SnapshotInv
      <3> QED BY <2>1, <3>1 DEF MadeUp
    <2> QED BY <2>1, <2>2 DEF AgreeInv, ToTell
  <1>5. ASSUME NEW o \in Ops, ShowOptimistic(o) PROVE AgreeInv'
    <2> DEFINE c == cmd[o]
               s == by[o]
               hit == Expand(c.set, DOMAIN rows)
               seen == Meaning(c.set, DOMAIN mailbox) \cap DOMAIN view[s]
    <2>1. /\ status[o] = "snapped" /\ status' = [status EXCEPT ![o] = "shown"]
          /\ UNCHANGED <<mailbox, uidnext, elsewhere, cmd, by, snapshot, known, reverts, inject>>
      BY <1>5, OptimisticShows
    <2>2. s \in Sessions /\ c \in Commands(o) /\ DOMAIN view = Sessions
      BY <2>1 DEF QueueInv, BoundsInv
    <2>3. MadeUp' = MadeUp
      BY <2>1 DEF MadeUp
    <2>4. \A v : ToTell(s, v)' = ToTell(s, v)
      BY <2>1 DEF ToTell
    <2>5. hit \subseteq DOMAIN rows \cap Reach(c)
      BY ExpandIsReached DEF BoundsInv
    <2> SUFFICES ASSUME NEW v \in (DOMAIN view'[s] \cap DOMAIN rows') \ (MadeUp \cup elsewhere)
                 PROVE  view'[s][v] = rows'[v] \/ ToTell(s, v)
      BY <2>1, <2>2, <2>3, <2>4 DEF AgreeInv, OneSession
    <2>6. v \in DOMAIN view[s] \cap DOMAIN rows
      BY <1>5, <2>2, OptimisticShows
    <2>7. view[s][v] = rows[v] \/ ToTell(s, v)
      BY <2>2, <2>6 DEF AgreeInv
    <2>8. CASE c.type # "store"
      BY <1>5, <2>2, <2>7, <2>8, OptimisticShows
    <2>9. CASE c.type = "store"
      <3>1. /\ rows' = [u \in DOMAIN rows \cup hit |-> IF u \in hit THEN Changed(rows[u], c) ELSE rows[u]]
            /\ view' = [view EXCEPT ![s] = [u \in DOMAIN view[s] \cup seen |->
                                               IF u \in seen THEN Changed(view[s][u], c) ELSE view[s][u]]]
        BY <1>5, <2>9 DEF ShowOptimistic, Set
      <3>2. v \in hit <=> v \in seen
        <4>1. ASSUME v \in hit PROVE v \in DOMAIN mailbox
          <5>1. v \in Reach(c) /\ v \in Uids
            BY <2>5, <4>1 DEF Reach
          <5>2. \A p \in Reaches(v) : p = o
            BY <2>1, <5>1, OnlyOne DEF Reaches
          <5>3. \A p \in Reaches(v) : status[p] = "snapped"
            BY <2>1, <5>2
          <5> QED BY <2>6, <5>1, <5>3 DEF PresentInv, Shown
        <4>2. v \in DOMAIN mailbox => (v \in hit <=> v \in Meaning(c.set, DOMAIN mailbox))
          BY <2>2, <2>6, StarlessMeans
        <4>3. v \in Meaning(c.set, DOMAIN mailbox) => v \in DOMAIN mailbox
          BY DEF Meaning
        <4> QED BY <2>6, <4>1, <4>2, <4>3
      <3> HIDE DEF hit, seen, c, s
      <3>3. rows'[v] = IF v \in hit THEN Changed(rows[v], c) ELSE rows[v]
        BY <2>6, <3>1
      <3>4. view'[s][v] = IF v \in seen THEN Changed(view[s][v], c) ELSE view[s][v]
        BY <2>2, <2>6, <3>1
      <3> QED BY <2>7, <3>2, <3>3, <3>4
    <2> QED BY <2>8, <2>9
  <1>6. ASSUME NEW o \in Ops, Restore(o) PROVE AgreeInv'
    <2>1. /\ status[o] = "rejected"
          /\ DOMAIN rows' = DOMAIN rows \cup DOMAIN snapshot[o]
          /\ \A v \in DOMAIN rows \ DOMAIN snapshot[o] : rows'[v] = rows[v]
          /\ ToSet(reverts') = ToSet(reverts) \cup
                 {[op |-> o, uid |-> u, flags |-> snapshot[o][u]] : u \in DOMAIN snapshot[o]}
          /\ UNCHANGED <<elsewhere, snapshot, known, inject, view>>
      BY <1>6, RestoreShows
    <2>2. MadeUp' = MadeUp
      BY <2>1 DEF MadeUp
    <2>3. ASSUME NEW s \in Sessions, NEW v \in DOMAIN snapshot[o] PROVE ToTell(s, v)'
      <3> DEFINE r == [op |-> o, uid |-> v, flags |-> snapshot[o][v]]
      <3>1. r \in ToSet(reverts')
        BY <2>1
      <3>2. \A q \in inject[s] : q.op # o
        BY <2>1 DEF RevertsInv
      <3>3. r.op = o /\ r.uid = v
        OBVIOUS
      <3>4. r \notin inject'[s]
        BY <2>1, <3>2, <3>3
      <3> QED BY <3>1, <3>3, <3>4 DEF ToTell
    <2>4. ASSUME NEW s \in Sessions, NEW v, ToTell(s, v) PROVE ToTell(s, v)'
      BY <2>1, <2>4 DEF ToTell
    <2> SUFFICES ASSUME NEW s \in Sessions,
                        NEW v \in (DOMAIN view[s] \cap DOMAIN rows') \ (MadeUp \cup elsewhere)
                 PROVE  view[s][v] = rows'[v] \/ ToTell(s, v)'
      BY <2>1, <2>2 DEF AgreeInv
    <2>5. CASE v \in DOMAIN snapshot[o]
      BY <2>3, <2>5
    <2>6. CASE v \notin DOMAIN snapshot[o]
      BY <2>1, <2>4, <2>6 DEF AgreeInv
    <2> QED BY <2>5, <2>6
  <1>7. ASSUME NEW o \in Ops, CreateOperation(o) \/ Execute(o) \/ Fail(o) \/ Reject(o) \/ RestoreRaises(o)
        PROVE  AgreeInv'
    <2>1. UNCHANGED <<elsewhere, rows, snapshot, known, reverts, inject, view>>
      BY <1>7 DEF CreateOperation, Execute, Fail, Reject, RestoreRaises, mailVars, stagedVars
    <2> QED BY <2>1 DEF AgreeInv, ToTell, MadeUp
  <1>8. ASSUME NEW u \in Uids, NEW f \in Flags, FlagElsewhere(u, f) PROVE AgreeInv'
    <2>1. elsewhere \subseteq elsewhere' /\ UNCHANGED <<rows, snapshot, known, reverts, inject, view>>
      BY <1>8 DEF FlagElsewhere, stagedVars
    <2> QED BY <2>1 DEF AgreeInv, ToTell, MadeUp
  <1>9. CASE Arrive
    <2>1. UNCHANGED <<elsewhere, rows, snapshot, known, reverts, inject, view>>
      BY <1>9 DEF Arrive, stagedVars
    <2> QED BY <2>1 DEF AgreeInv, ToTell, MadeUp
  <1>10. CASE UNCHANGED vars
    BY <1>10 DEF vars, stagedVars, AgreeInv, ToTell, MadeUp
  <1> QED BY <1>1, <1>2, <1>3, <1>4, <1>5, <1>6, <1>7, <1>8, <1>9, <1>10 DEF Next

\* The flags an agent was last shown are those of the mirror, from which its next command
\* is computed, once it has been told of what was rolled back: for any number of
\* operations that share no message and name none by "*", of an agent with one session.
\* (apply_optimistic_flag_update, the FETCH lines of _sync_upstream_line)
THEOREM AgentAlwaysSeesMirror ==
    ASSUME Apart, Starless, OneSession
    PROVE  Spec => []AgentSeesMirror
  <1>1. Init => AgreeInv
    BY DEF Init, AgreeInv
  <1>2. MirrorInv /\ AgreeInv /\ [Next]_vars => AgreeInv'
    BY AgreeKept
  <1>3. AgreeInv => AgentSeesMirror
    BY DEF AgreeInv, AgentSeesMirror, ToTell, ToSet
  <1> QED BY <1>1, <1>2, <1>3, MirrorAlways, PTL DEF Spec

\* What was refused and differs from the mailbox is going to be told, since it was queued
\* for the one session that shows it.
LEMMA RefusalKept ==
    ASSUME Apart, OneSession, MirrorInv, RefusalInv, [Next]_vars
    PROVE  RefusalInv'
  <1> USE DEF MirrorInv
  \* an operation that was rolled back stays as it is
  <1>1. ASSUME NEW o \in Ops, status'[o] = "reverted", ~\E p \in Ops : Restore(p)
        PROVE  status[o] = "reverted" /\ known'[o] = known[o] /\ cmd'[o] = cmd[o] /\ by'[o] = by[o]
    <2> USE <1>1
    <2>1. status \in [Ops -> Statuses]
      BY DEF QueueInv
    <2>2. ASSUME NEW s \in Sessions, NEW p \in Ops, Snapshot(s, p)
          PROVE  status[o] = "reverted" /\ known'[o] = known[o] /\ cmd'[o] = cmd[o] /\ by'[o] = by[o]
      BY <2>2, SnapshotShows
    <2>3. ASSUME NEW p \in Ops,
                 ShowOptimistic(p) \/ CreateOperation(p) \/ Execute(p) \/ Fail(p) \/ Reject(p) \/ RestoreRaises(p)
          PROVE  status[o] = "reverted" /\ known'[o] = known[o] /\ cmd'[o] = cmd[o] /\ by'[o] = by[o]
      <3>1. \E x \in {"shown", "pending", "executed", "failed", "rejected", "stuck"} :
                status' = [status EXCEPT ![p] = x]
        BY <2>3 DEF ShowOptimistic, CreateOperation, Execute, Fail, Reject, RestoreRaises, Decide
      <3>2. UNCHANGED <<known, cmd, by>>
        BY <2>3 DEF ShowOptimistic, CreateOperation, Execute, Fail, Reject, RestoreRaises, stagedVars
      <3> QED BY <2>1, <3>1, <3>2
    <2>4. CASE UNCHANGED <<status, known, cmd, by>>
      BY <2>4
    <2> QED BY <2>2, <2>3, <2>4
         DEF Next, vars, stagedVars, Inject, MarkDelivered, Fetch, FlagElsewhere, Arrive
  <1>2. ASSUME NEW o \in Ops, status[o] = "reverted"
        PROVE  /\ by[o] \in Sessions /\ \A v \in known[o] : v \in Reach(cmd[o]) /\ v \in Uids /\ v \in DOMAIN snapshot[o]
               /\ \A v \in known[o], p \in Ops : p \in Reaches(v) => p = o
    <2>1. \A v \in known[o] : v \in Reach(cmd[o]) /\ v \in Uids /\ v \in DOMAIN snapshot[o]
      BY <1>2, RecordedIsReached DEF SnapshotInv
    <2>2. \A v \in known[o], p \in Ops : p \in Reaches(v) => p = o
      BY <1>2, <2>1, OnlyOne DEF Reaches
    <2> QED BY <1>2, <2>1, <2>2 DEF QueueInv
  <1> SUFFICES ASSUME NEW o \in Ops, NEW s \in Sessions, status'[o] = "reverted", by'[o] = s,
                      NEW v \in (known'[o] \cap DOMAIN view'[s] \cap DOMAIN mailbox') \ elsewhere'
               PROVE  view'[s][v] = mailbox'[v] \/ ToTell(s, v)'
    BY DEF RefusalInv
  <1>3. ASSUME NEW p \in Ops, Restore(p) PROVE view'[s][v] = mailbox'[v] \/ ToTell(s, v)'
    <2>1. /\ status[p] = "rejected" /\ status' = [status EXCEPT ![p] = "reverted"]
          /\ ToSet(reverts') = ToSet(reverts) \cup
                 {[op |-> p, uid |-> u, flags |-> snapshot[p][u]] : u \in DOMAIN snapshot[p]}
          /\ UNCHANGED <<mailbox, elsewhere, by, snapshot, known, inject, view>>
      BY <1>3, RestoreShows
    <2>2. CASE p # o
      <3>1. status[o] = "reverted"
        BY <2>1, <2>2 DEF QueueInv
      <3>2. view[s][v] = mailbox[v] \/ ToTell(s, v)
        BY <2>1, <3>1 DEF RefusalInv
      <3>3. ToTell(s, v) => ToTell(s, v)'
        BY <2>1 DEF ToTell
      <3> QED BY <2>1, <3>2, <3>3
    <2>3. CASE p = o
      <3> DEFINE r == [op |-> o, uid |-> v, flags |-> snapshot[o][v]]
      <3>1. v \in DOMAIN snapshot[o] /\ s \in Sessions
        BY <2>1, <2>3 DEF SnapshotInv, QueueInv
      <3>2. r \in ToSet(reverts')
        BY <2>1, <2>3, <3>1
      <3>3. \A q \in inject[s] : q.op # o
        BY <2>1, <2>3, <3>1 DEF RevertsInv
      <3>4. r.op = o /\ r.uid = v
        OBVIOUS
      <3>5. r \notin inject'[s]
        BY <2>1, <3>3, <3>4
      <3> QED BY <2>1, <3>2, <3>4, <3>5 DEF ToTell
    <2> QED BY <2>2, <2>3
  <1>4. ASSUME ~\E p \in Ops : Restore(p) PROVE view'[s][v] = mailbox'[v] \/ ToTell(s, v)'
    <2>1. status[o] = "reverted" /\ known'[o] = known[o] /\ cmd'[o] = cmd[o] /\ by[o] = s
      BY <1>1, <1>4
    <2>2. s \in Sessions /\ v \in known[o] /\ v \in Reach(cmd[o]) /\ v \in Uids /\ v \in DOMAIN snapshot[o]
      BY <1>2, <2>1
    <2>3. v \in DOMAIN view[s] /\ v \in DOMAIN mailbox /\ v \notin elsewhere => view[s][v] = mailbox[v] \/ ToTell(s, v)
      BY <2>1, <2>2 DEF RefusalInv
    <2>4. v \in DOMAIN view'[s] /\ v \in DOMAIN mailbox' /\ v \notin elsewhere'
      BY <2>1
    <2>5. ASSUME NEW t \in Sessions, Inject(t) PROVE view'[s][v] = mailbox'[v] \/ ToTell(s, v)'
      <3>1. /\ \/ /\ v \in DOMAIN view[s] /\ view'[s][v] = view[s][v]
                  /\ \A r \in ToSet(reverts) : r.uid # v
               \/ \E r \in ToSet(reverts) : r.uid = v /\ view'[s][v] = r.flags
            /\ UNCHANGED <<mailbox, elsewhere>>
        BY <2>2, <2>4, <2>5, InjectShows DEF OneSession
      <3>2. CASE \E r \in ToSet(reverts) : r.uid = v /\ view'[s][v] = r.flags
        <4>1. PICK r \in ToSet(reverts) : r.uid = v /\ view'[s][v] = r.flags
          BY <3>2
        <4>2. r.op \in Ops /\ v \in DOMAIN snapshot[r.op] /\ r.flags = snapshot[r.op][v]
          BY <4>1 DEF RevertsInv
        <4>3. r.op = o
          BY <1>2, <2>1, <2>2, <4>2, RecordedIsReached
        <4>4. snapshot[o][v] = mailbox[v]
          BY <2>1, <2>2, <2>4, <3>1 DEF KeptInv
        <4> QED BY <3>1, <4>1, <4>2, <4>3, <4>4
      <3>3. CASE v \in DOMAIN view[s] /\ view'[s][v] = view[s][v] /\ \A r \in ToSet(reverts) : r.uid # v
        BY <2>3, <2>4, <3>1, <3>3 DEF ToTell
      <3> QED BY <3>1, <3>2, <3>3
    <2>6. ASSUME NEW t \in Sessions, MarkDelivered(t) PROVE view'[s][v] = mailbox'[v] \/ ToTell(s, v)'
      <3>1. t = s
        BY <2>2 DEF OneSession
      <3>2. /\ ToSet(reverts') = ToSet(reverts) \ inject[s] /\ inject'[s] = {}
            /\ UNCHANGED <<mailbox, elsewhere, view>>
        BY <2>6, <3>1, MarkShows
      <3>3. ToTell(s, v)' = ToTell(s, v)
        BY <3>2 DEF ToTell
      <3> QED BY <2>3, <2>4, <3>2, <3>3
    <2>7. ASSUME NEW t \in Sessions, NEW u \in Uids, Fetch(t, u) PROVE view'[s][v] = mailbox'[v] \/ ToTell(s, v)'
      <3>1. t = s
        BY <2>2 DEF OneSession
      <3>2. /\ u \in DOMAIN mailbox
            /\ (\A p \in Reaches(u) : status[p] # "pending" \/ cmd[p].type # "store") => rows'[u] = mailbox[u]
            /\ UNCHANGED <<mailbox, elsewhere, status, cmd, reverts, inject>>
        BY <2>7, FetchShows
      <3>6. \/ v \in DOMAIN view[s] /\ view'[s][v] = view[s][v]
            \/ v = u /\ rows'[u] = view'[s][u]
        BY <2>4, <2>7, <3>1, FetchTells
      <3>3. ToTell(s, v)' = ToTell(s, v)
        BY <3>2 DEF ToTell
      <3>4. CASE v \in DOMAIN view[s] /\ view'[s][v] = view[s][v]
        BY <2>3, <2>4, <3>2, <3>3, <3>4
      <3>5. CASE v = u /\ rows'[u] = view'[s][u]
        <4>1. \A p \in Reaches(u) : status[p] # "pending"
          BY <1>2, <2>1, <2>2, <3>5 DEF Reaches
        <4> QED BY <3>2, <3>5, <4>1
      <3> QED BY <2>4, <3>4, <3>5, <3>6
    <2>8. ASSUME NEW t \in Sessions, NEW p \in Ops, Snapshot(t, p) PROVE view'[s][v] = mailbox'[v] \/ ToTell(s, v)'
      <3>1. UNCHANGED <<mailbox, elsewhere, view, reverts, inject>>
        BY <2>8, SnapshotShows
      <3> QED BY <2>3, <2>4, <3>1 DEF ToTell
    <2>9. ASSUME NEW p \in Ops, ShowOptimistic(p) PROVE view'[s][v] = mailbox'[v] \/ ToTell(s, v)'
      <3>1. p # o /\ v \notin Reach(cmd[p])
        <4>1. status[p] = "snapped"
          BY <2>9, OptimisticShows
        <4> QED BY <2>1, <2>2, <4>1, OnlyOne
      <3>2. v \in DOMAIN view[s] /\ view'[s][v] = view[s][v] /\ UNCHANGED <<mailbox, elsewhere, reverts, inject>>
        BY <2>2, <2>4, <2>9, <3>1, OptimisticShows
      <3> QED BY <2>3, <2>4, <3>2 DEF ToTell
    <2>10. ASSUME NEW p \in Ops, Execute(p) PROVE view'[s][v] = mailbox'[v] \/ ToTell(s, v)'
      <3>1. /\ status[p] = "pending"
            /\ DOMAIN mailbox' \subseteq DOMAIN mailbox
            /\ \A w \in DOMAIN mailbox \ Reach(cmd[p]) : w \in DOMAIN mailbox' /\ mailbox'[w] = mailbox[w]
            /\ UNCHANGED <<elsewhere, reverts, inject, view>>
        BY <2>10, ExecuteShows
      <3>2. v \notin Reach(cmd[p])
        BY <2>1, <2>2, <3>1, OnlyOne
      <3> QED BY <2>3, <2>4, <3>1, <3>2 DEF ToTell
    <2>11. ASSUME NEW p \in Ops, CreateOperation(p) \/ Fail(p) \/ Reject(p) \/ RestoreRaises(p)
           PROVE  view'[s][v] = mailbox'[v] \/ ToTell(s, v)'
      <3>1. UNCHANGED <<mailbox, elsewhere, view, reverts, inject>>
        BY <2>11 DEF CreateOperation, Fail, Reject, RestoreRaises, mailVars
      <3> QED BY <2>3, <2>4, <3>1 DEF ToTell
    <2>12. ASSUME NEW u \in Uids, NEW f \in Flags, FlagElsewhere(u, f) PROVE view'[s][v] = mailbox'[v] \/ ToTell(s, v)'
      <3>1. /\ mailbox' = [mailbox EXCEPT ![u] = @ \cup {f}] /\ elsewhere' = elsewhere \cup {u}
            /\ UNCHANGED <<view, reverts, inject>>
        BY <2>12 DEF FlagElsewhere
      <3> QED BY <2>3, <2>4, <3>1 DEF ToTell
    <2>13. ASSUME Arrive PROVE view'[s][v] = mailbox'[v] \/ ToTell(s, v)'
      <3>1. /\ mailbox' = [u \in DOMAIN mailbox \cup {uidnext} |-> IF u \in {uidnext} THEN {} ELSE mailbox[u]]
            /\ UNCHANGED <<elsewhere, view, reverts, inject>>
        BY <2>13 DEF Arrive, Set
      <3>2. v # uidnext
        BY <2>1, <2>2 DEF SnapshotInv, BoundsInv
      <3> QED BY <2>3, <2>4, <3>1, <3>2 DEF ToTell
    <2>14. CASE UNCHANGED vars
      <3>1. UNCHANGED <<mailbox, elsewhere, view, reverts, inject>>
        BY <2>14 DEF vars
      <3> QED BY <2>3, <2>4, <3>1 DEF ToTell
    <2> QED BY <1>4, <2>5, <2>6, <2>7, <2>8, <2>9, <2>10, <2>11, <2>12, <2>13, <2>14 DEF Next
  <1> QED BY <1>3, <1>4

\* A flag change that was refused does not stay in the view of the agent that made it, for
\* any number of operations that share no message, of an agent with one session.
\* (insert_pending_reverts, _inject_pending_reverts)
THEOREM RefusalAlwaysReaches ==
    ASSUME Apart, OneSession
    PROVE  Spec => []RefusalReachesAgent
  <1>1. Init => RefusalInv
    BY DEF Init, RefusalInv
  <1>2. MirrorInv /\ RefusalInv /\ [Next]_vars => RefusalInv'
    BY RefusalKept
  <1>3. ASSUME MirrorInv, RefusalInv PROVE RefusalReachesAgent
    <2> SUFFICES ASSUME NEW o \in Ops, status[o] = "reverted", \A r \in ToSet(reverts) : r.op # o,
                        NEW u \in (known[o] \cap DOMAIN view[by[o]] \cap DOMAIN mailbox) \ elsewhere
                 PROVE  view[by[o]][u] = mailbox[u]
      BY DEF RefusalReachesAgent
    <2>1. u \in DOMAIN snapshot[o]
      BY <1>3 DEF MirrorInv, SnapshotInv
    <2>2. u \in Reach(cmd[o])
      BY <1>3, <2>1, RecordedIsReached DEF MirrorInv
    <2>3. ~ToTell(by[o], u)
      <3> SUFFICES ASSUME NEW r \in ToSet(reverts), r.uid = u PROVE FALSE
        BY DEF ToTell
      <3>1. r.op \in Ops /\ u \in DOMAIN snapshot[r.op]
        BY <1>3 DEF MirrorInv, RevertsInv
      <3>2. u \in Reach(cmd[r.op]) /\ status[r.op] # "free"
        BY <1>3, <3>1, RecordedIsReached DEF MirrorInv
      <3>3. r.op = o
        BY <1>3, <2>2, <3>1, <3>2, OnlyOne DEF MirrorInv
      <3> QED BY <3>3
    <2>4. by[o] \in Sessions
      BY <1>3 DEF MirrorInv, QueueInv
    <2> QED BY <1>3, <2>3, <2>4 DEF RefusalInv
  <1> QED BY <1>1, <1>2, <1>3, MirrorAlways, PTL DEF Spec

-----------------------------------------------------------------------------
(* Executing an operation and undoing it *)

Labels == {"idle", "approve", "forget", "relay", "mark", "audit", "fail", "lookup", "inverse", "revert"}
Dests == [uids : SUBSET Nat, validity : Nat]

\* The messages that p has in folder f with a UID of S; those UIDs were given out.
Holds(p, f, S) == {m \in Msgs : p[m][1] = f /\ p[m][2] \in S}
Below(next, f, S) == \A k \in S : k < next[f]

\* Every message has a place, below the next UID of its folder.
PlaceInv ==
    /\ pos \in [Msgs -> (Folders \X (Nat \ {0})) \cup {Mail!Nowhere, Mail!Gone}]
    /\ nextIn \in [Folders -> Nat \ {0}] /\ validity \in [Folders -> Nat]
    /\ \A m \in Msgs : pos[m][1] \in Folders => pos[m][2] < nextIn[pos[m][1]]

\* The destinations on record, and in hand.
Recs == ({detail} \cup {found[t] : t \in Tasks}) \ {Mail!NoWay}

StateInv ==
    /\ stage \in {"free", "pending", "approved", "executed", "failed", "reverted"}
    /\ pc \in [Tasks -> Labels] /\ found \in [Tasks -> Dests] /\ detail \in Dests
    /\ stage # "free" => plan \in Mail!Plans /\ folderTo \in {plan.to, Mail!None}
    /\ stage = "free" => /\ Recs = {} /\ \A t \in Tasks : pc[t] = "idle"
                         /\ aimed = {} /\ taken = {} /\ back = {}
    /\ aimed \subseteq Msgs /\ taken \subseteq Msgs

\* A destination holds messages that the operation moved, unless the folder has been
\* numbered anew.
Own(d) ==
    /\ plan.to \in Folders /\ d.validity <= validity[plan.to]
    /\ d.validity = validity[plan.to] =>
           Below(nextIn, plan.to, d.uids) /\ Holds(pos, plan.to, d.uids) \subseteq taken

DestInv ==
    /\ \A d \in Recs : Own(d)
    /\ \A t \in Tasks : pc[t] = "inverse" /\ Mail!MovesBack => found[t] # Mail!NoWay
    /\ back \subseteq taken
    /\ \A t \in Tasks : pc[t] = "revert" /\ Mail!MovesBack => back # {}
    /\ stage = "reverted" /\ Mail!MovesBack => back # {}

\* Of one execution the tasks are where it takes them.
PhaseInv ==
    /\ stage \in {"pending", "approved"} =>
           /\ back = {} /\ detail = Mail!NoWay
           /\ \A t, s \in Tasks : t # s => pc[t] = "idle" \/ pc[s] = "idle"
    /\ stage = "pending" => taken = {} /\ \A t \in Tasks : pc[t] \in {"idle", "approve"}
    /\ stage = "approved" =>
           \A t \in Tasks : /\ pc[t] \in {"idle", "forget", "relay", "mark", "fail"}
                            /\ pc[t] \in {"forget", "relay"} => taken = {}
    /\ stage = "failed" => \A t \in Tasks : pc[t] = "idle"
    /\ stage \in {"executed", "reverted"} =>
           \A t \in Tasks : pc[t] \in {"idle", "audit", "lookup", "inverse", "revert"}

\* Where the messages are, and the flags of those that an undo of a STORE was about.
WhereInv ==
    /\ aimed # {} /\ Below(nextIn, plan.from, plan.uids)
    /\ taken = {} => back = {} /\ Recs = {} /\ Holds(pos, plan.from, plan.uids) = aimed
    /\ taken # {} => Mail!MovesBack
    /\ \A d \in Recs : /\ d.validity = validity[plan.to]
                       /\ Holds(pos, plan.to, d.uids) = IF back = {} THEN aimed ELSE {}
    /\ back # {} => \A m \in aimed : pos[m][1] = plan.from

FlagInv ==
    stage = "reverted" \/ (\E t \in Tasks : pc[t] = "revert") =>
        \A m \in aimed : /\ plan.kind = "mark" => "Flagged" \notin flags[m]
                         /\ plan.kind = "unmark" => "Flagged" \in flags[m]

RestoreInv == ~disturbed /\ stage # "free" => PhaseInv /\ WhereInv /\ FlagInv

AllInv == PlaceInv /\ StateInv /\ DestInv /\ RestoreInv

-----------------------------------------------------------------------------
\* Cardinalities in MailActions are those of FiniteSets.
LEMMA MailCardinality ==
    ASSUME NEW S
    PROVE  Mail!Cardinality(S) = Cardinality(S) /\ (Mail!IsFiniteSet(S) <=> IsFiniteSet(S))
  <1>1. Mail!Cardinality(S) = Cardinality(S)
    BY DEF Mail!Cardinality, Cardinality
  <1>2. Mail!IsFiniteSet(S) <=> IsFiniteSet(S)
    BY DEF Mail!IsFiniteSet, IsFiniteSet
  <1> QED BY <1>1, <1>2

\* So that moves give out finitely many UIDs.
LEMMA MessagesAreFinite ==
    ASSUME NEW M \in SUBSET Msgs
    PROVE  IsFiniteSet(M) /\ Mail!Cardinality(M) \in Nat
  BY MailsAssumption, MailCardinality, FS_Subset, FS_CardinalityType DEF Mail!MailAssumption

\* The messages an operation acts on.
LEMMA StagedIs == Mail!Staged = Holds(pos, plan.from, plan.uids)
  BY DEF Mail!Staged, Mail!At, Mail!In, Holds

\* Messages that move together get UIDs one after the other.
LEMMA RankBelow ==
    ASSUME NEW M \in SUBSET Msgs, NEW m \in M
    PROVE  Mail!Cardinality(M) \in Nat /\ Mail!Rank(m, M) \in Nat /\ (pos[m][2] \in Nat => Mail!Rank(m, M) < Mail!Cardinality(M))
  <1> DEFINE S == {n \in M : pos[n][2] < pos[m][2]}
  <1>1. IsFiniteSet(M) /\ IsFiniteSet(S) /\ Mail!Cardinality(M) = Cardinality(M)
        /\ Mail!Cardinality(S) = Cardinality(S)
    BY MessagesAreFinite, MailCardinality
  <1>2. Mail!Cardinality(M) \in Nat /\ Mail!Cardinality(S) \in Nat
        /\ Mail!Cardinality(S) <= Mail!Cardinality(M)
        /\ (Mail!Cardinality(S) = Mail!Cardinality(M) => S = M)
    BY <1>1, FS_CardinalityType, FS_Subset
  <1>3. pos[m][2] \in Nat => m \notin S
    OBVIOUS
  <1>4. Mail!Rank(m, M) = Mail!Cardinality(S)
    BY DEF Mail!Rank
  <1> HIDE DEF S
  <1> QED BY <1>2, <1>3, <1>4

\* The messages of M, and no others that have arrived, get new places or none.
Touched(M) ==
    /\ validity' = validity /\ \A f \in Folders : nextIn'[f] >= nextIn[f]
    /\ \A m \in Msgs \ M : pos[m][1] \in Folders => pos'[m] = pos[m]
    /\ \A f \in Folders, S \in SUBSET Nat :
          Below(nextIn, f, S) => /\ Below(nextIn', f, S)
                                 /\ Holds(pos', f, S) = Holds(pos, f, S) \ M

\* UID MOVE.
LEMMA MoveTouches ==
    ASSUME PlaceInv, NEW M \in SUBSET Msgs, NEW g \in Folders, Mail!MoveTo(M, g)
    PROVE  /\ PlaceInv' /\ Touched(M) /\ flags' = flags
           /\ \A m \in Msgs \ M : pos'[m] = pos[m]
           /\ \A m \in M : pos'[m][1] = g /\ pos'[m][2] \in Nat /\ pos'[m][2] >= nextIn[g]
  <1>1. Mail!Cardinality(M) \in Nat
    BY MessagesAreFinite
  <1>2. ASSUME NEW m \in M
        PROVE  /\ Mail!Rank(m, M) \in Nat /\ Mail!Rank(m, M) < Mail!Cardinality(M)
               /\ pos'[m] = <<g, nextIn[g] + Mail!Rank(m, M)>>
    <2>1. pos[m][2] \in Nat
      BY DEF PlaceInv, Mail!Nowhere, Mail!Gone
    <2> QED BY <2>1, RankBelow DEF Mail!MoveTo
  <1>3. /\ \A m \in Msgs \ M : pos'[m] = pos[m]
        /\ pos' = [m \in Msgs |-> pos'[m]]
        /\ nextIn' = [nextIn EXCEPT ![g] = @ + Mail!Cardinality(M)] /\ UNCHANGED <<flags, validity>>
    BY DEF Mail!MoveTo
  <1>4. /\ nextIn \in [Folders -> Nat \ {0}] /\ validity \in [Folders -> Nat]
        /\ nextIn' \in [Folders -> Nat \ {0}] /\ nextIn'[g] = nextIn[g] + Mail!Cardinality(M)
        /\ \A f \in Folders : nextIn'[f] >= nextIn[f]
    BY <1>1, <1>3 DEF PlaceInv
  <1>5. ASSUME NEW m \in M PROVE pos'[m][1] = g /\ pos'[m][2] \in Nat /\ pos'[m][2] >= nextIn[g]
                                 /\ pos'[m][2] < nextIn'[g] 
    BY <1>1, <1>2, <1>4
  <1>6. \A m \in Msgs : pos[m] \in (Folders \X (Nat \ {0})) \cup {Mail!Nowhere, Mail!Gone}
    BY DEF PlaceInv
  <1>7. PlaceInv'
    <2>1. ASSUME NEW m \in M PROVE pos'[m] \in Folders \X (Nat \ {0})
      <3>1. nextIn[g] + Mail!Rank(m, M) \in Nat \ {0}
        BY <1>2, <1>4
      <3>2. <<g, nextIn[g] + Mail!Rank(m, M)>> \in Folders \X (Nat \ {0})
        BY <3>1
      <3>3. pos'[m] = <<g, nextIn[g] + Mail!Rank(m, M)>>
        BY <1>2
      <3> QED BY <3>2, <3>3
    <2>2. \A m \in Msgs : pos'[m] \in (Folders \X (Nat \ {0})) \cup {Mail!Nowhere, Mail!Gone}
      BY <1>3, <1>6, <2>1
    <2>3. ASSUME NEW m \in Msgs, pos'[m][1] \in Folders PROVE pos'[m][2] < nextIn'[pos'[m][1]]
      <3>1. CASE m \in M
        BY <3>1, <1>5
      <3>2. CASE m \notin M
        <4>1. pos[m] \in Folders \X (Nat \ {0})
          BY <3>2, <2>3, <1>3, <1>6, MailsAssumption DEF Mail!Nowhere, Mail!Gone, Mail!None, Mail!MailAssumption
        <4>2. pos[m][2] < nextIn[pos[m][1]] /\ pos[m][1] \in Folders /\ pos[m][2] \in Nat
          BY <4>1 DEF PlaceInv
        <4> QED BY <4>2, <3>2, <1>3, <1>4
      <3> QED BY <3>1, <3>2
    <2> QED BY <1>3, <1>4, <2>2, <2>3 DEF PlaceInv
  <1>8. ASSUME NEW f \in Folders, NEW S \in SUBSET Nat, Below(nextIn, f, S)
        PROVE  Below(nextIn', f, S) /\ Holds(pos', f, S) = Holds(pos, f, S) \ M
    BY <1>3, <1>4, <1>5, <1>8 DEF Below, Holds
  <1> QED BY <1>3, <1>4, <1>5, <1>7, <1>8 DEF Touched

\* Nothing moves.
LEMMA StillTouches ==
    ASSUME PlaceInv, pos' = pos, validity' = validity, nextIn' \in [Folders -> Nat \ {0}],
           \A f \in Folders : nextIn'[f] >= nextIn[f]
    PROVE  PlaceInv' /\ Touched({})
  <1>1. nextIn \in [Folders -> Nat \ {0}] /\ \A m \in Msgs : pos[m][2] \in Nat
    BY DEF PlaceInv, Mail!Nowhere, Mail!Gone
  <1>2. PlaceInv'
    BY <1>1 DEF PlaceInv
  <1>3. ASSUME NEW f \in Folders, NEW S \in SUBSET Nat, Below(nextIn, f, S)
        PROVE  Below(nextIn', f, S) /\ Holds(pos', f, S) = Holds(pos, f, S) \ {}
    <2>1. Below(nextIn', f, S)
      <3>1. nextIn[f] \in Nat /\ nextIn'[f] \in Nat /\ nextIn'[f] >= nextIn[f]
        BY <1>1
      <3> QED BY <1>3, <3>1 DEF Below
    <2>2. Holds(pos', f, S) = Holds(pos, f, S)
      OBVIOUS
    <2> QED BY <2>1, <2>2 DEF Holds
  <1> QED BY <1>2, <1>3 DEF Touched

\* A destination stays one of messages that the operation moved.
LEMMA OwnKeeps ==
    ASSUME PlaceInv, NEW M, Touched(M), NEW d \in Dests, Own(d), plan' = plan, taken \subseteq taken'
    PROVE  Own(d)'
  BY DEF PlaceInv, Touched, Dests, Own

\* Destinations have their type.
LEMMA RecsAreDests == StateInv => Recs \subseteq Dests
  BY DEF StateInv, Recs

\* What touches none of the operation's messages, or is counted as a disturbance.
LEMMA QuietKeeps ==
    ASSUME AllInv, NEW M, Touched(M), aimed \cap M = {} \/ disturbed', disturbed => disturbed',
           Recs' \subseteq Recs, stage # "free" => plan' = plan,
           UNCHANGED <<aimed, taken, back>>
    PROVE  /\ \A d \in Recs' : Own(d)'
           /\ ~disturbed' /\ stage # "free" => WhereInv'
  <1>1. CASE stage = "free"
    BY <1>1 DEF AllInv, StateInv
  <1>2. CASE stage # "free"
    <2>1. plan \in Mail!Plans /\ plan' = plan /\ Recs \subseteq Dests
      BY <1>2, RecsAreDests DEF AllInv, StateInv
    <2>2. \A d \in Recs : Own(d) /\ Own(d)'
      BY <2>1, OwnKeeps DEF AllInv, DestInv
    <2>3. SUFFICES ASSUME ~disturbed' PROVE WhereInv'
      BY <2>2
    <2>4. WhereInv /\ aimed \cap M = {} /\ aimed \subseteq Msgs
      BY <1>2, <2>3 DEF AllInv, RestoreInv, StateInv
    <2>5. plan.from \in Folders /\ plan.uids \in SUBSET Nat
      BY <2>1 DEF Mail!Plans
    <2>6. Below(nextIn, plan.from, plan.uids) /\ Below(nextIn', plan.from, plan.uids)
          /\ Holds(pos', plan.from, plan.uids) = Holds(pos, plan.from, plan.uids) \ M
      BY <2>4, <2>5 DEF WhereInv, Touched
    <2>7. ASSUME NEW d \in Recs
          PROVE  /\ d.validity = validity'[plan.to]
                 /\ Holds(pos', plan.to, d.uids) = IF back = {} THEN aimed ELSE {}
      <3>1. /\ d.validity = validity[plan.to] /\ validity' = validity
            /\ Holds(pos, plan.to, d.uids) = IF back = {} THEN aimed ELSE {}
        BY <2>4 DEF WhereInv, Touched
      <3>2. plan.to \in Folders /\ d.uids \in SUBSET Nat /\ Below(nextIn, plan.to, d.uids)
        BY <2>1, <2>2, <3>1 DEF Own, Dests
      <3>3. Holds(pos', plan.to, d.uids) = Holds(pos, plan.to, d.uids) \ M
        BY <3>2 DEF Touched
      <3> QED BY <2>4, <3>1, <3>3
    <2>8. back # {} => \A m \in aimed : pos'[m][1] = plan.from
      BY <2>4, <2>5 DEF WhereInv, Touched
    <2> QED BY <2>1, <2>4, <2>6, <2>7, <2>8 DEF WhereInv, Mail!MovesBack
  <1> QED BY <1>1, <1>2

\* What the owner's client does, and mail that arrives.
LEMMA ElsewhereKeeps ==
    ASSUME AllInv, NEW M, NEW N, Touched(M), PlaceInv', Mail!Elsewhere(N), M \subseteq N,
           \A m \in Msgs \ N : flags'[m] = flags[m]
    PROVE  AllInv'
  <1>1. /\ UNCHANGED <<Mail!opVars, pc, found, Mail!constVars, taken, back>>
        /\ disturbed' = (disturbed \/ aimed \cap N # {})
    BY DEF Mail!Elsewhere
  <1>2. Recs' = Recs
    BY <1>1 DEF Recs, Mail!opVars
  <1>3. /\ \A d \in Recs' : Own(d)'
        /\ ~disturbed' /\ stage # "free" => WhereInv'
    <2>1. disturbed => disturbed'
      BY <1>1
    <2>2. aimed \cap M = {} \/ disturbed'
      BY <1>1
    <2> QED BY <1>1, <1>2, <2>1, <2>2, QuietKeeps DEF Mail!opVars, Mail!constVars
  <1>4. StateInv'
    BY <1>1, <1>2 DEF AllInv, StateInv, Mail!opVars, Mail!constVars
  <1>5. DestInv'
    BY <1>1, <1>2, <1>3 DEF AllInv, DestInv, Mail!MovesBack, Mail!opVars
  <1>6. RestoreInv'
    <2>1. SUFFICES ASSUME ~disturbed', stage # "free" PROVE PhaseInv' /\ FlagInv'
      BY <1>1, <1>3 DEF RestoreInv, Mail!opVars
    <2>2. PhaseInv /\ FlagInv /\ aimed \subseteq Msgs /\ aimed \cap N = {}
      BY <1>1, <2>1 DEF AllInv, StateInv, RestoreInv
    <2>3. PhaseInv'
      BY <1>1, <2>2 DEF PhaseInv, Mail!opVars
    <2>4. \A m \in aimed : flags'[m] = flags[m]
      BY <2>2
    <2>5. FlagInv'
      BY <1>1, <2>2, <2>4 DEF FlagInv, Mail!opVars, Mail!constVars
    <2> QED BY <2>3, <2>5
  <1> QED BY <1>4, <1>5, <1>6 DEF AllInv

\* What a step that sends nothing leaves alone.
StillVars == <<pos, flags, nextIn, validity, aimed, marked, taken, back>>

\* Such a step keeps the invariant if the tasks are where they may be.
LEMMA StillKeeps ==
    ASSUME AllInv, UNCHANGED StillVars, Recs' \subseteq Recs, stage # "free", plan' = plan,
           StateInv', disturbed => disturbed',
           \A t \in Tasks : pc'[t] = "inverse" /\ Mail!MovesBack => found'[t] # Mail!NoWay,
           \A t \in Tasks : pc'[t] = "revert" /\ Mail!MovesBack => back # {},
           stage' = "reverted" /\ Mail!MovesBack => back # {},
           ~disturbed' => PhaseInv' /\ FlagInv'
    PROVE  AllInv'
  <1>1. PlaceInv' /\ Touched({})
    <2>1. nextIn \in [Folders -> Nat \ {0}]
      BY DEF AllInv, PlaceInv
    <2> QED BY <2>1, StillTouches DEF AllInv, StillVars, Mail!mailVars
  <1>2. /\ \A d \in Recs' : Own(d)'
        /\ ~disturbed' => WhereInv'
    BY <1>1, QuietKeeps DEF StillVars, Mail!constVars
  <1> QED BY <1>1, <1>2 DEF AllInv, DestInv, RestoreInv, Mail!MovesBack, StillVars

\* Staging names messages that are there.
LEMMA StageKeeps == AllInv /\ Mail!Stage => AllInv'
  <1> SUFFICES ASSUME AllInv, Mail!Stage PROVE AllInv'
    OBVIOUS
  <1>1. /\ stage = "free" /\ stage' = "pending" /\ plan' \in Mail!Plans /\ folderTo' = plan'.to
        /\ plan'.uids # {} /\ plan'.uids \subseteq {pos[m][2] : m \in Mail!In(plan'.from)}
        /\ aimed' = Mail!At(plan'.from, plan'.uids)
        /\ UNCHANGED <<Mail!mailVars, detail, pc, found, hasMove, hasCopyUid, taken, back, disturbed, Mail!boundVars>>
    BY DEF Mail!Stage
  <1>2. Recs' = Recs /\ Recs = {} /\ taken = {} /\ back = {} /\ \A t \in Tasks : pc[t] = "idle"
    <2>1. Recs' = Recs
      BY <1>1 DEF Recs
    <2>2. Recs = {} /\ taken = {} /\ back = {} /\ \A t \in Tasks : pc[t] = "idle"
      BY <1>1 DEF AllInv, StateInv
    <2> QED BY <2>1, <2>2
  <1>3. PlaceInv'
    BY <1>1 DEF AllInv, PlaceInv, Mail!mailVars
  <1>4. aimed' = Holds(pos, plan'.from, plan'.uids) /\ aimed' # {} /\ aimed' \subseteq Msgs
    BY <1>1 DEF Mail!At, Mail!In, Holds
  <1>5. StateInv'
    BY <1>1, <1>2, <1>4 DEF AllInv, StateInv
  <1>6. DestInv'
    BY <1>1, <1>2 DEF DestInv
  <1>7. Below(nextIn, plan'.from, plan'.uids)
    <2>1. plan'.from \in Folders
      BY <1>1 DEF Mail!Plans
    <2> QED BY <1>1, <2>1 DEF AllInv, PlaceInv, Below, Mail!In
  <1>8. detail = Mail!NoWay
    BY <1>2 DEF Recs
  <1>9. PhaseInv'
    BY <1>1, <1>2, <1>8 DEF PhaseInv
  <1>10. WhereInv'
    BY <1>1, <1>2, <1>4, <1>7 DEF WhereInv, Mail!mailVars
  <1>11. FlagInv'
    BY <1>1, <1>2 DEF FlagInv
  <1> QED BY <1>3, <1>5, <1>6, <1>9, <1>10, <1>11 DEF AllInv, RestoreInv

\* A task goes on.
LEMMA GotoIs ==
    ASSUME StateInv, NEW t \in Tasks, NEW l \in Labels, Mail!Goto(t, l)
    PROVE  pc' \in [Tasks -> Labels] /\ pc'[t] = l /\ \A s \in Tasks \ {t} : pc'[s] = pc[s]
  BY DEF StateInv, Mail!Goto

\* It keeps a destination.
LEMMA HoldIs ==
    ASSUME StateInv, NEW t \in Tasks, NEW d \in Dests, Mail!Hold(t, d)
    PROVE  found' \in [Tasks -> Dests] /\ found'[t] = d /\ \A s \in Tasks \ {t} : found'[s] = found[s]
  BY DEF StateInv, Mail!Hold

\* No destination is of their type, too.
LEMMA NoWayIs == Mail!NoWay \in Dests
  BY DEF Mail!NoWay, Dests

\* An approval begins; nothing is sent yet.
LEMMA ApprovalKeeps ==
    ASSUME AllInv, NEW t \in Tasks, Mail!StartApprove(t) \/ Mail!Approve(t) \/ Mail!Forget(t)
    PROVE AllInv'
  <1>0. StateInv /\ DestInv
    BY DEF AllInv
  <1>1. /\ UNCHANGED StillVars /\ UNCHANGED <<plan, detail, found>>
        /\ folderTo' \in {folderTo, Mail!None} /\ (disturbed => disturbed')
    <2>1. CASE Mail!StartApprove(t)
      BY <2>1 DEF Mail!StartApprove, StillVars, Mail!opVars, Mail!mailVars, Mail!constVars
    <2>2. CASE Mail!Approve(t)
      BY <2>2 DEF Mail!Approve, StillVars, Mail!mailVars, Mail!constVars
    <2>3. CASE Mail!Forget(t)
      BY <2>3 DEF Mail!Forget, StillVars, Mail!mailVars, Mail!constVars
    <2> QED BY <2>1, <2>2, <2>3
  <1>2. Recs' = Recs
    BY <1>1 DEF Recs
  <1>3. PICK l \in {"approve", "forget", "relay"} : Mail!Goto(t, l)
    BY DEF Mail!StartApprove, Mail!Approve, Mail!Forget
  <1>4. pc' \in [Tasks -> Labels] /\ pc'[t] = l /\ \A s \in Tasks \ {t} : pc'[s] = pc[s]
    BY <1>0, <1>3, GotoIs DEF Labels
  <1>5. /\ stage # "free" /\ stage' \in {stage, "approved"}
        /\ stage' = "reverted" => stage = "reverted"
    BY <1>0 DEF Mail!StartApprove, Mail!Approve, Mail!Forget, StateInv, Mail!opVars
  <1>6. StateInv'
    BY <1>0, <1>1, <1>2, <1>4, <1>5 DEF StateInv, StillVars
  <1>7. ASSUME ~disturbed' PROVE PhaseInv' /\ FlagInv'
    <2>1. PhaseInv /\ FlagInv
      BY <1>1, <1>5, <1>7 DEF AllInv, RestoreInv
    <2>2. FlagInv'
      BY <1>1, <1>4, <1>5, <2>1 DEF FlagInv, StillVars
    <2>3. /\ \A s \in Tasks \ {t} : pc'[s] = "idle"
          /\ taken = {} /\ back = {} /\ detail = Mail!NoWay
          /\ \/ stage' = "pending" /\ l = "approve"
             \/ stage' = "approved" /\ l \in {"forget", "relay"}
      <3>1. CASE Mail!StartApprove(t)
        <4>1. stage = "pending" /\ stage' = "pending" /\ l = "approve"
              /\ \A s \in Tasks : pc[s] = "idle"
          BY <1>0, <1>3, <1>4, <1>7, <3>1 DEF Mail!StartApprove, Mail!opVars, Mail!Goto, StateInv
        <4> QED BY <1>4, <2>1, <4>1 DEF PhaseInv
      <3>2. CASE Mail!Approve(t)
        <4>1. pc[t] = "approve" /\ stage' = "approved" /\ l \in {"forget", "relay"}
          BY <1>0, <1>3, <3>2 DEF Mail!Approve, Mail!Goto, StateInv
        <4>2. stage = "pending"
          BY <1>0, <1>5, <2>1, <4>1 DEF PhaseInv, StateInv
        <4>3. \A s \in Tasks \ {t} : pc[s] = "idle"
          BY <2>1, <4>1, <4>2 DEF PhaseInv
        <4> QED BY <1>4, <2>1, <4>1, <4>2, <4>3 DEF PhaseInv
      <3>3. CASE Mail!Forget(t)
        <4>1. pc[t] = "forget" /\ stage' = stage /\ l = "relay"
          BY <1>0, <1>3, <3>3 DEF Mail!Forget, Mail!Goto, StateInv
        <4>2. stage = "approved"
          BY <1>0, <1>5, <2>1, <4>1 DEF PhaseInv, StateInv
        <4>3. \A s \in Tasks \ {t} : pc[s] = "idle"
          BY <2>1, <4>1, <4>2 DEF PhaseInv
        <4> QED BY <1>4, <2>1, <4>1, <4>2, <4>3 DEF PhaseInv
      <3> QED BY <3>1, <3>2, <3>3
    <2>4. \A s \in Tasks : pc'[s] = "idle" \/ (s = t /\ pc'[s] = l)
      BY <1>4, <2>3
    <2>5. taken' = {} /\ back' = {} /\ detail' = Mail!NoWay
      BY <1>1, <2>3 DEF StillVars
    <2>6. PhaseInv'
      BY <2>3, <2>4, <2>5 DEF PhaseInv
    <2> QED BY <2>2, <2>6
  <1> QED
    BY <1>0, <1>1, <1>2, <1>4, <1>5, <1>6, <1>7, StillKeeps DEF DestInv, StillVars

\* The execution is over: its stage, its row in the trail, or its failure.
LEMMA RecordingKeeps ==
    ASSUME AllInv, NEW t \in Tasks, Mail!MarkExecuted(t) \/ Mail!AuditExecuted(t) \/ Mail!RecordFailure(t)
    PROVE AllInv'
  <1>0. StateInv /\ DestInv
    BY DEF AllInv
  <1>1. UNCHANGED StillVars /\ UNCHANGED <<plan, folderTo, disturbed>>
    <2>1. CASE Mail!MarkExecuted(t)
      BY <2>1 DEF Mail!MarkExecuted, StillVars, Mail!mailVars, Mail!constVars
    <2>2. CASE Mail!AuditExecuted(t)
      BY <2>2 DEF Mail!AuditExecuted, StillVars, Mail!mailVars, Mail!constVars
    <2>3. CASE Mail!RecordFailure(t)
      BY <2>3 DEF Mail!RecordFailure, StillVars, Mail!mailVars, Mail!constVars
    <2> QED BY <2>1, <2>2, <2>3
  <1>2. PICK l \in {"audit", "idle"} : Mail!Goto(t, l)
    BY DEF Mail!MarkExecuted, Mail!AuditExecuted, Mail!RecordFailure
  <1>3. pc' \in [Tasks -> Labels] /\ pc'[t] = l /\ \A s \in Tasks \ {t} : pc'[s] = pc[s]
    BY <1>0, <1>2, GotoIs DEF Labels
  <1>4. /\ stage # "free" /\ stage' \in {stage, "executed", "failed"}
        /\ stage' = "reverted" => stage = "reverted"
    BY <1>0 DEF Mail!MarkExecuted, Mail!AuditExecuted, Mail!RecordFailure, StateInv
  <1>5. /\ found' \in [Tasks -> Dests] /\ \A s \in Tasks \ {t} : found'[s] = found[s]
        /\ detail' \in Dests /\ detail' \in {detail, found[t]} /\ found'[t] \in {found[t], Mail!NoWay}
    <2>1. CASE UNCHANGED <<found, detail>>
      BY <1>0, <2>1 DEF StateInv
    <2>2. CASE Mail!AuditExecuted(t)
      <3>1. Mail!Hold(t, Mail!NoWay) /\ detail' = found[t]
        BY <2>2 DEF Mail!AuditExecuted
      <3> QED BY <1>0, <3>1, HoldIs, NoWayIs DEF StateInv
    <2> QED BY <2>1, <2>2 DEF Mail!MarkExecuted, Mail!RecordFailure
  <1>6. Recs' \subseteq Recs
    BY <1>5 DEF Recs
  <1>7. StateInv'
    BY <1>0, <1>1, <1>3, <1>4, <1>5 DEF StateInv, StillVars
  <1>8. ASSUME ~disturbed PROVE PhaseInv' /\ FlagInv'
    <2>1. PhaseInv /\ FlagInv
      BY <1>4, <1>8 DEF AllInv, RestoreInv
    <2>2. pc[t] \in {"mark", "audit", "fail"}
      BY DEF Mail!MarkExecuted, Mail!AuditExecuted, Mail!RecordFailure
    <2>3. \A s \in Tasks : pc'[s] = "revert" => pc[s] = "revert"
      BY <1>3
    <2>4. FlagInv'
      BY <1>1, <1>4, <2>1, <2>3 DEF FlagInv, StillVars
    <2>5. CASE Mail!AuditExecuted(t)
      <3>1. pc[t] = "audit" /\ stage' = stage /\ l = "idle"
        BY <1>0, <1>2, <2>5 DEF Mail!AuditExecuted, Mail!Goto, StateInv
      <3>2. stage \in {"executed", "reverted"}
        BY <1>0, <1>4, <2>1, <3>1 DEF PhaseInv, StateInv
      <3>3. \A s \in Tasks : pc'[s] \in {"idle", "audit", "lookup", "inverse", "revert"}
        BY <1>3, <2>1, <3>1, <3>2 DEF PhaseInv
      <3> QED BY <2>4, <3>1, <3>2, <3>3 DEF PhaseInv
    <2>6. CASE ~Mail!AuditExecuted(t)
      <3>1. /\ pc[t] \in {"mark", "fail"}
            /\ \/ stage' = "executed" /\ l = "audit"
               \/ stage' = "failed" /\ l = "idle"
        BY <1>0, <1>2, <2>6 DEF Mail!MarkExecuted, Mail!RecordFailure, Mail!Goto, StateInv
      <3>2. stage = "approved"
        BY <1>0, <1>4, <2>1, <3>1 DEF PhaseInv, StateInv
      <3>3. \A s \in Tasks \ {t} : pc[s] = "idle"
        BY <2>1, <3>1, <3>2 DEF PhaseInv
      <3>4. \A s \in Tasks : pc'[s] \in {l, "idle"}
        BY <1>3, <3>3
      <3> QED BY <2>4, <3>1, <3>4 DEF PhaseInv
    <2> QED BY <2>5, <2>6
  <1>9. \A s \in Tasks : pc'[s] = "inverse" /\ Mail!MovesBack => found'[s] # Mail!NoWay
    BY <1>0, <1>3, <1>5 DEF DestInv
  <1> QED
    BY <1>0, <1>1, <1>3, <1>4, <1>6, <1>7, <1>8, <1>9, StillKeeps DEF DestInv, StillVars

\* An undo begins, reads its destination, is recorded.
LEMMA UndoingKeeps ==
    ASSUME AllInv, NEW t \in Tasks, Mail!StartUndo(t) \/ Mail!Lookup(t) \/ Mail!MarkReverted(t)
    PROVE AllInv'
  <1>0. StateInv /\ DestInv
    BY DEF AllInv
  <1>1. UNCHANGED StillVars /\ UNCHANGED <<plan, folderTo, detail, disturbed>>
    <2>1. CASE Mail!StartUndo(t)
      BY <2>1 DEF Mail!StartUndo, StillVars, Mail!opVars, Mail!mailVars, Mail!constVars
    <2>2. CASE Mail!Lookup(t)
      BY <2>2 DEF Mail!Lookup, StillVars, Mail!opVars, Mail!mailVars, Mail!constVars
    <2>3. CASE Mail!MarkReverted(t)
      BY <2>3 DEF Mail!MarkReverted, StillVars, Mail!mailVars, Mail!constVars
    <2> QED BY <2>1, <2>2, <2>3
  <1>2. PICK l \in {"lookup", "inverse", "idle"} : Mail!Goto(t, l)
    BY DEF Mail!StartUndo, Mail!Lookup, Mail!MarkReverted
  <1>3. pc' \in [Tasks -> Labels] /\ pc'[t] = l /\ \A s \in Tasks \ {t} : pc'[s] = pc[s]
    BY <1>0, <1>2, GotoIs DEF Labels
  <1>4. /\ stage # "free" /\ stage' \in {stage, "reverted"}
        /\ stage' = "reverted" => stage = "reverted" \/ pc[t] = "revert"
        /\ pc[t] \in {"idle", "lookup", "revert"}
        /\ pc[t] = "idle" => stage = "executed" /\ stage' = "executed"
    BY <1>0 DEF Mail!StartUndo, Mail!Lookup, Mail!MarkReverted, StateInv, Mail!opVars
  <1>5. /\ found' \in [Tasks -> Dests] /\ \A s \in Tasks \ {t} : found'[s] = found[s]
        /\ found'[t] \in {found[t], detail}
        /\ l = "inverse" /\ Mail!MovesBack => found'[t] # Mail!NoWay
    <2>1. CASE Mail!Lookup(t)
      <3>1. Mail!Hold(t, detail) /\ detail \in Dests
            /\ Mail!Goto(t, IF detail = Mail!NoWay THEN "idle" ELSE "inverse")
        BY <1>0, <2>1 DEF Mail!Lookup, StateInv
      <3>2. found' \in [Tasks -> Dests] /\ found'[t] = detail
            /\ \A s \in Tasks \ {t} : found'[s] = found[s]
        BY <1>0, <3>1, HoldIs
      <3>3. l = "inverse" => detail # Mail!NoWay
        BY <1>0, <1>2, <3>1 DEF Mail!Goto, StateInv
      <3> QED BY <3>2, <3>3
    <2>2. CASE ~Mail!Lookup(t)
      <3>1. found' = found /\ (l = "inverse" => ~Mail!MovesBack)
        BY <1>0, <1>2, <2>2 DEF Mail!StartUndo, Mail!MarkReverted, Mail!Goto, StateInv
      <3> QED BY <1>0, <3>1 DEF StateInv
    <2> QED BY <2>1, <2>2
  <1>6. Recs' \subseteq Recs
    BY <1>1, <1>5 DEF Recs
  <1>7. StateInv'
    BY <1>0, <1>1, <1>3, <1>4, <1>5 DEF StateInv, StillVars
  <1>8. ASSUME ~disturbed PROVE PhaseInv' /\ FlagInv'
    <2>1. PhaseInv /\ FlagInv
      BY <1>4, <1>8 DEF AllInv, RestoreInv
    <2>2. stage' = "reverted" \/ (\E s \in Tasks : pc'[s] = "revert")
              => stage = "reverted" \/ \E s \in Tasks : pc[s] = "revert"
      BY <1>3, <1>4
    <2>3. FlagInv'
      BY <1>1, <2>1, <2>2 DEF FlagInv, StillVars
    <2>4. stage \in {"executed", "reverted"}
      BY <1>0, <1>4, <2>1 DEF PhaseInv, StateInv
    <2>5. \A s \in Tasks : pc'[s] \in {"idle", "audit", "lookup", "inverse", "revert"}
      BY <1>3, <2>1, <2>4 DEF PhaseInv
    <2>6. stage' \in {"executed", "reverted"}
      BY <1>4, <2>4
    <2> QED BY <2>3, <2>5, <2>6 DEF PhaseInv
  <1>9. \A s \in Tasks : pc'[s] = "inverse" /\ Mail!MovesBack => found'[s] # Mail!NoWay
    BY <1>0, <1>3, <1>5 DEF DestInv
  <1>10. /\ \A s \in Tasks : pc'[s] = "revert" /\ Mail!MovesBack => back # {}
         /\ stage' = "reverted" /\ Mail!MovesBack => back # {}
    BY <1>0, <1>3, <1>4 DEF DestInv
  <1> QED
    BY <1>1, <1>4, <1>6, <1>7, <1>8, <1>9, <1>10, StillKeeps

\* The process ends.
LEMMA RestartKeeps == ASSUME AllInv, Mail!Restart PROVE AllInv'
  <1>0. StateInv /\ DestInv
    BY DEF AllInv
  <1>1. /\ UNCHANGED StillVars /\ UNCHANGED <<Mail!opVars, disturbed>>
        /\ pc' = [t \in Tasks |-> "idle"] /\ found' = [t \in Tasks |-> Mail!NoWay]
    BY DEF Mail!Restart, StillVars, Mail!mailVars, Mail!constVars
  <1>2. UNCHANGED <<plan, folderTo, stage, detail>>
    BY <1>1 DEF Mail!opVars
  <1>3. stage # "free"
    BY <1>0 DEF Mail!Restart, StateInv
  <1>4. Recs' \subseteq Recs
    BY <1>1, <1>2 DEF Recs
  <1>5. StateInv'
    BY <1>0, <1>1, <1>2, <1>3, NoWayIs DEF StateInv, StillVars, Labels
  <1>6. \A t \in Tasks : pc'[t] = "idle"
    BY <1>1
  <1>7. ASSUME ~disturbed PROVE PhaseInv' /\ FlagInv'
    <2>1. PhaseInv /\ FlagInv
      BY <1>3, <1>7 DEF AllInv, RestoreInv
    <2>2. PhaseInv'
      BY <1>1, <1>2, <1>6, <2>1 DEF PhaseInv, StillVars
    <2>3. FlagInv'
      BY <1>1, <1>2, <1>6, <2>1 DEF FlagInv, StillVars
    <2> QED BY <2>2, <2>3
  <1> QED
    BY <1>0, <1>1, <1>2, <1>3, <1>4, <1>5, <1>6, <1>7, StillKeeps DEF DestInv, StillVars

\* The messages that moved, found again by the UIDs they were given.
LEMMA CopyUidIs ==
    ASSUME PlaceInv, NEW M \in SUBSET Msgs, NEW g \in Folders, Mail!MoveTo(M, g),
           NEW S, S = {pos'[m][2] : m \in M}
    PROVE  S \in SUBSET Nat /\ Below(nextIn', g, S) /\ Holds(pos', g, S) = M
  <1>1. /\ PlaceInv' /\ \A m \in Msgs \ M : pos'[m] = pos[m]
        /\ \A m \in M : pos'[m][1] = g /\ pos'[m][2] \in Nat /\ pos'[m][2] >= nextIn[g]
    BY MoveTouches
  <1>2. \A m \in M : pos'[m][2] < nextIn'[g]
    BY <1>1 DEF PlaceInv
  <1>3. ASSUME NEW m \in Msgs \ M, pos'[m][1] = g PROVE pos'[m][2] \notin S
    <2>1. pos[m][2] \in Nat /\ pos[m][2] < nextIn[g] /\ nextIn[g] \in Nat
      BY <1>1, <1>3 DEF PlaceInv, Mail!Nowhere, Mail!Gone
    <2> QED BY <1>1, <2>1
  <1> QED BY <1>1, <1>2, <1>3 DEF Below, Holds

\* The owner's client, and new mail.
LEMMA OwnerMovesKeeps ==
    ASSUME AllInv, NEW m \in Msgs, NEW f \in Folders, Mail!OwnerMoves(m, f)
    PROVE AllInv'
  <1>1. PlaceInv' /\ Touched({m}) /\ flags' = flags
    BY MoveTouches DEF Mail!OwnerMoves, AllInv
  <1>2. Mail!Elsewhere({m})
    BY DEF Mail!OwnerMoves
  <1> QED BY <1>1, <1>2, ElsewhereKeeps

\* It sets or takes a flag.
LEMMA OwnerFlagsKeeps == ASSUME AllInv, NEW m \in Msgs, Mail!OwnerFlags(m) PROVE AllInv'
  <1>1. UNCHANGED <<pos, nextIn, validity>> /\ (\A n \in Msgs \ {m} : flags'[n] = flags[n]) /\ Mail!Elsewhere({m})
    BY DEF Mail!OwnerFlags, Mail!Store
  <1>2. PlaceInv' /\ Touched({})
    <2>1. nextIn \in [Folders -> Nat \ {0}]
      BY DEF AllInv, PlaceInv
    <2> QED BY <1>1, <2>1, StillTouches DEF AllInv
  <1> QED BY <1>1, <1>2, ElsewhereKeeps

\* Mail arrives in a folder.
LEMMA MailArrivesKeeps ==
    ASSUME AllInv, NEW m \in Msgs, NEW f \in Folders, Mail!Arrive(m, f)
    PROVE AllInv'
  <1>1. PlaceInv' /\ Touched({m}) /\ flags' = flags /\ Mail!Elsewhere({})
    BY MoveTouches DEF Mail!Arrive, AllInv
  <1>2. pos[m][1] \notin Folders
    BY MailsAssumption DEF Mail!Arrive, Mail!Nowhere, Mail!None, Mail!MailAssumption
  <1>3. \A g \in Folders, S \in SUBSET Nat : m \notin Holds(pos, g, S)
    BY <1>2 DEF Holds
  <1>4. Touched({})
    BY <1>1, <1>2, <1>3 DEF Touched
  <1> QED BY <1>1, <1>4, ElsewhereKeeps

\* It deletes a message.
LEMMA OwnerDeletesKeeps == ASSUME AllInv, NEW m \in Msgs, Mail!OwnerDeletes(m) PROVE AllInv'
  <1>0. PlaceInv
    BY DEF AllInv
  <1>1. /\ pos' = [pos EXCEPT ![m] = Mail!Gone] /\ UNCHANGED <<flags, nextIn, validity>> /\ Mail!Elsewhere({m})
    BY DEF Mail!OwnerDeletes
  <1>2. pos'[m] = Mail!Gone /\ pos'[m][1] \notin Folders
        /\ \A n \in Msgs \ {m} : pos'[n] = pos[n]
    BY <1>0, <1>1, MailsAssumption DEF PlaceInv, Mail!Gone, Mail!None, Mail!MailAssumption
  <1>3. PlaceInv'
    BY <1>0, <1>1, <1>2 DEF PlaceInv
  <1>4. ASSUME NEW f \in Folders, NEW S \in SUBSET Nat
        PROVE Holds(pos', f, S) = Holds(pos, f, S) \ {m}
    BY <1>2 DEF Holds
  <1>5. \A f \in Folders : nextIn'[f] >= nextIn[f]
    BY <1>0, <1>1 DEF PlaceInv
  <1>6. Touched({m})
    BY <1>1, <1>2, <1>4, <1>5 DEF Touched, Below
  <1> QED BY <1>1, <1>3, <1>6, ElsewhereKeeps

\* A folder is numbered anew: what was recorded about it no longer counts.
LEMMA RenumberKeeps == ASSUME AllInv, NEW f \in Folders, Mail!Renumber(f) PROVE AllInv'
  <1>0. PlaceInv /\ StateInv /\ DestInv
    BY DEF AllInv
  <1>1. /\ validity' = [validity EXCEPT ![f] = @ + 1]
        /\ nextIn' = [nextIn EXCEPT ![f] = Mail!Cardinality(Mail!In(f)) + 1]
        /\ Mail!Elsewhere(aimed)
    BY DEF Mail!Renumber
  <1>2. PICK number \in [Mail!In(f) -> 1 .. Mail!Cardinality(Mail!In(f))] :
            pos' = [m \in Msgs |-> IF m \in Mail!In(f) THEN <<f, number[m]>> ELSE pos[m]]
    BY DEF Mail!Renumber
  <1>3. Mail!Cardinality(Mail!In(f)) \in Nat
    <2>1. Mail!In(f) \subseteq Msgs
      BY DEF Mail!In
    <2> QED BY <2>1, MessagesAreFinite
  <1>4. /\ \A m \in Mail!In(f) : pos'[m] = <<f, number[m]>> /\ number[m] \in 1 .. Mail!Cardinality(Mail!In(f))
        /\ \A m \in Msgs \ Mail!In(f) : pos'[m] = pos[m] /\ pos[m][1] # f
    BY <1>2 DEF Mail!In
  <1>41. \A m \in Mail!In(f) : pos'[m][1] = f /\ pos'[m][2] = number[m]
    BY <1>4
  <1>5. /\ nextIn'[f] = Mail!Cardinality(Mail!In(f)) + 1 /\ nextIn' \in [Folders -> Nat \ {0}]
        /\ validity'[f] = validity[f] + 1 /\ validity' \in [Folders -> Nat]
        /\ \A g \in Folders \ {f} : nextIn'[g] = nextIn[g] /\ validity'[g] = validity[g]
    BY <1>0, <1>1, <1>3 DEF PlaceInv
  <1>6. PlaceInv'
    <2>1. ASSUME NEW m \in Msgs
          PROVE  /\ pos'[m] \in (Folders \X (Nat \ {0})) \cup {Mail!Nowhere, Mail!Gone}
                 /\ pos'[m][1] \in Folders => pos'[m][2] < nextIn'[pos'[m][1]]
      <3>1. CASE m \in Mail!In(f)
        <4>1. number[m] \in Nat \ {0} /\ number[m] < Mail!Cardinality(Mail!In(f)) + 1
          BY <3>1, <1>3, <1>4
        <4>2. pos'[m] \in Folders \X (Nat \ {0})
          <5>1. <<f, number[m]>> \in Folders \X (Nat \ {0})
            BY <4>1
          <5>2. pos'[m] = <<f, number[m]>>
            BY <3>1, <1>4
          <5> QED BY <5>1, <5>2
        <4>3. pos'[m][2] < nextIn'[pos'[m][1]]
          BY <3>1, <4>1, <1>41, <1>5
        <4> QED BY <4>2, <4>3
      <3>2. CASE m \notin Mail!In(f)
        BY <3>2, <1>0, <1>4, <1>5 DEF PlaceInv
      <3> QED BY <3>1, <3>2
    <2> QED BY <1>2, <1>5, <2>1 DEF PlaceInv
  <1>7. /\ UNCHANGED <<Mail!opVars, pc, found, Mail!constVars, taken, back>>
        /\ disturbed' = (disturbed \/ aimed \cap aimed # {})
    BY <1>1 DEF Mail!Elsewhere
  <1>8. Recs' = Recs
    BY <1>7 DEF Recs, Mail!opVars
  <1>9. ASSUME NEW d \in Recs PROVE Own(d)'
    <2>1. Own(d) /\ d.validity \in Nat /\ plan' = plan /\ taken' = taken
      BY <1>0, <1>7, RecsAreDests DEF DestInv, Dests, Mail!opVars
    <2>2. CASE plan.to = f
      <3>1. d.validity <= validity[f] /\ validity[f] \in Nat
        BY <1>0, <2>1, <2>2 DEF Own, PlaceInv
      <3> QED BY <1>5, <2>1, <2>2, <3>1 DEF Own
    <2>3. CASE plan.to # f
      <3>1. plan.to \in Folders \ {f}
        BY <2>1, <2>3 DEF Own
      <3>2. Holds(pos', plan.to, d.uids) = Holds(pos, plan.to, d.uids)
        <4>1. ASSUME NEW m \in Msgs
              PROVE  pos'[m][1] = plan.to /\ pos'[m][2] \in d.uids
                         <=> pos[m][1] = plan.to /\ pos[m][2] \in d.uids
          <5>1. CASE m \in Mail!In(f)
            BY <5>1, <1>41, <3>1 DEF Mail!In
          <5>2. CASE m \notin Mail!In(f)
            BY <5>2, <1>4
          <5> QED BY <5>1, <5>2
        <4> QED BY <4>1 DEF Holds
      <3> QED BY <1>5, <2>1, <3>1, <3>2 DEF Own, Below
    <2> QED BY <2>2, <2>3
  <1>10. StateInv'
    BY <1>0, <1>7, <1>8 DEF StateInv, Mail!opVars, Mail!constVars
  <1>11. DestInv'
    BY <1>0, <1>7, <1>8, <1>9 DEF DestInv, Mail!MovesBack, Mail!opVars
  <1>12. RestoreInv'
    <2>1. SUFFICES ASSUME ~disturbed', stage # "free" PROVE FALSE
      BY <1>7 DEF RestoreInv, Mail!opVars
    <2>2. aimed # {}
      BY <1>7, <2>1 DEF AllInv, RestoreInv, WhereInv
    <2> QED BY <1>7, <2>1, <2>2
  <1> QED BY <1>6, <1>10, <1>11, <1>12 DEF AllInv

\* A command that moves nothing, or is not carried out.
LEMMA EffectTouchesNone ==
    ASSUME PlaceInv, StateInv, stage # "free", (Mail!Effect /\ ~Mail!Moves) \/ UNCHANGED <<Mail!mailVars, taken>>
    PROVE  PlaceInv' /\ Touched({}) /\ taken' = taken
  <1>1. plan \in Mail!Plans /\ Mail!Staged \in SUBSET Msgs /\ nextIn \in [Folders -> Nat \ {0}]
    BY DEF StateInv, PlaceInv, Mail!Staged, Mail!At, Mail!In
  <1>2. CASE UNCHANGED <<Mail!mailVars, taken>>
    BY <1>1, <1>2, StillTouches DEF Mail!mailVars
  <1>3. CASE Mail!Effect /\ ~Mail!Moves
    <2>1. pos' = pos /\ taken' = taken /\ validity' = validity
      BY <1>3 DEF Mail!Effect, Mail!Store
    <2>2. nextIn' \in [Folders -> Nat \ {0}] /\ \A f \in Folders : nextIn'[f] >= nextIn[f]
      <3>1. CASE plan.kind = "copy"
        <4>1. plan.to \in Folders
          BY <1>1, <3>1 DEF Mail!Plans
        <4>2. Mail!Cardinality(Mail!Staged) \in Nat
          BY <1>1, MessagesAreFinite
        <4>3. nextIn' = [nextIn EXCEPT ![plan.to] = @ + Mail!Cardinality(Mail!Staged)]
          BY <1>3, <3>1 DEF Mail!Effect
        <4> QED BY <1>1, <4>1, <4>2, <4>3
      <3>2. CASE plan.kind # "copy"
        <4>1. nextIn' = nextIn
          BY <1>3, <3>2 DEF Mail!Effect, Mail!Store
        <4> QED BY <1>1, <4>1
      <3> QED BY <3>1, <3>2
    <2> QED BY <2>1, <2>2, StillTouches
  <1> QED BY <1>2, <1>3

\* The command of the operation is sent, and is answered or not.
LEMMA RelayKeeps ==
    ASSUME AllInv, NEW t \in Tasks, Mail!Relay(t) \/ Mail!RelayFails(t)
    PROVE AllInv'
  <1>0. PlaceInv /\ StateInv /\ DestInv
    BY DEF AllInv
  <1>1. UNCHANGED <<Mail!opVars, Mail!constVars, back, disturbed>> /\ pc[t] = "relay"
        /\ (Mail!Effect \/ UNCHANGED <<Mail!mailVars, taken>>)
    BY DEF Mail!Relay, Mail!RelayFails
  <1>2. UNCHANGED <<plan, folderTo, stage, detail, aimed, marked, back, disturbed>>
    BY <1>1 DEF Mail!opVars, Mail!constVars
  <1>3. PICK l \in {"mark", "fail"} : Mail!Goto(t, l)
    BY DEF Mail!Relay, Mail!RelayFails
  <1>4. pc' \in [Tasks -> Labels] /\ pc'[t] = l /\ \A s \in Tasks \ {t} : pc'[s] = pc[s]
    BY <1>0, <1>3, GotoIs DEF Labels
  <1>5. stage # "free" /\ Mail!Staged \in SUBSET Msgs /\ plan \in Mail!Plans
    BY <1>0, <1>1 DEF StateInv, Mail!Staged, Mail!At, Mail!In
  <1>6. PICK M \in {{}, Mail!Staged} :
            /\ PlaceInv' /\ Touched(M) /\ taken' = taken \cup M
            /\ M # {} => Mail!Moves
            /\ Mail!Moves /\ Mail!Effect => M = Mail!Staged /\ Mail!MoveTo(Mail!Staged, plan.to) /\ plan.to \in Folders
    <2>1. CASE Mail!Moves /\ Mail!Effect
      <3>1. plan.to \in Folders
        BY <1>5, <2>1 DEF Mail!Moves, Mail!Plans
      <3>2. Mail!MoveTo(Mail!Staged, plan.to) /\ taken' = taken \cup Mail!Staged
        BY <2>1 DEF Mail!Effect
      <3>3. PlaceInv' /\ Touched(Mail!Staged)
        BY <1>0, <1>5, <3>1, <3>2, MoveTouches
      <3> QED BY <2>1, <3>1, <3>2, <3>3
    <2>2. CASE ~(Mail!Moves /\ Mail!Effect)
      <3>1. PlaceInv' /\ Touched({}) /\ taken' = taken \cup {}
        BY <1>0, <1>1, <1>5, <2>2, EffectTouchesNone
      <3> QED BY <2>2, <3>1
    <2> QED BY <2>1, <2>2
  <1>7. /\ found' \in [Tasks -> Dests] /\ \A s \in Tasks \ {t} : found'[s] = found[s]
        /\ \/ found'[t] \in {found[t], Mail!NoWay}
           \/ /\ M = Mail!Staged /\ Mail!Staged # {} /\ Mail!Moves /\ plan.to \in Folders
              /\ found'[t].validity = validity[plan.to]
              /\ found'[t].uids \in SUBSET Nat /\ Below(nextIn', plan.to, found'[t].uids)
              /\ Holds(pos', plan.to, found'[t].uids) = Mail!Staged
    <2>1. CASE found' = found
      BY <1>0, <2>1 DEF StateInv
    <2>2. CASE Mail!Relay(t)
      <3>1. Mail!Effect /\ Mail!Hold(t, Mail!CopyUid)
        BY <2>2 DEF Mail!Relay
      <3>2. CASE ~(Mail!Moves /\ hasCopyUid /\ Mail!Staged # {})
        <4>1. Mail!CopyUid = Mail!NoWay
          BY <3>2 DEF Mail!CopyUid
        <4>2. found' \in [Tasks -> Dests] /\ found'[t] = Mail!NoWay
              /\ \A s \in Tasks \ {t} : found'[s] = found[s]
          BY <1>0, <3>1, <4>1, HoldIs, NoWayIs
        <4> QED BY <4>2
      <3>3. CASE Mail!Moves /\ hasCopyUid /\ Mail!Staged # {}
        <4> DEFINE S == {pos'[m][2] : m \in Mail!Staged}
        <4>1. M = Mail!Staged /\ Mail!MoveTo(Mail!Staged, plan.to) /\ plan.to \in Folders
          BY <1>6, <3>1, <3>3
        <4>2. S \in SUBSET Nat /\ Below(nextIn', plan.to, S)
              /\ Holds(pos', plan.to, S) = Mail!Staged
          BY <1>0, <1>5, <4>1, CopyUidIs
        <4>3. Mail!CopyUid = [uids |-> S, validity |-> validity[plan.to]]
          BY <3>3 DEF Mail!CopyUid
        <4> HIDE DEF S
        <4>4. Mail!CopyUid \in Dests /\ Mail!CopyUid.uids = S
              /\ Mail!CopyUid.validity = validity[plan.to]
          BY <1>0, <4>1, <4>2, <4>3 DEF Dests, PlaceInv
        <4>5. found' \in [Tasks -> Dests] /\ found'[t] = Mail!CopyUid
              /\ \A s \in Tasks \ {t} : found'[s] = found[s]
          BY <1>0, <3>1, <4>4, HoldIs
        <4> QED BY <3>3, <4>1, <4>2, <4>4, <4>5
      <3> QED BY <3>2, <3>3
    <2> QED BY <2>1, <2>2 DEF Mail!RelayFails
  <1>8. /\ taken \subseteq taken' /\ taken' \subseteq Msgs
    BY <1>0, <1>5, <1>6 DEF StateInv
  <1>9. validity' = validity
    BY <1>6 DEF Touched
  <1>10. \A d \in Recs' : d \in Recs \/ (d = found'[t] /\ found'[t] \notin {found[t], Mail!NoWay})
    BY <1>2, <1>7 DEF Recs
  <1>11. ASSUME NEW d \in Recs' PROVE Own(d)'
    <2>1. CASE d \in Recs
      <3>1. d \in Dests /\ Own(d)
        BY <1>0, <2>1, RecsAreDests DEF DestInv
      <3> QED BY <1>0, <1>2, <1>6, <1>8, <3>1, OwnKeeps
    <2>2. CASE d = found'[t] /\ found'[t] \notin {found[t], Mail!NoWay}
      <3>1. validity[plan.to] \in Nat
        BY <1>0, <1>7, <2>2 DEF PlaceInv
      <3> QED BY <1>2, <1>6, <1>7, <1>9, <2>2, <3>1 DEF Own
    <2> QED BY <1>10, <2>1, <2>2
  <1>12. StateInv'
    BY <1>0, <1>2, <1>4, <1>5, <1>7, <1>8 DEF StateInv
  <1>13. DestInv'
    <2>1. \A s \in Tasks : pc'[s] = "inverse" \/ pc'[s] = "revert" => pc'[s] = pc[s] /\ found'[s] = found[s]
      BY <1>4, <1>7
    <2> QED BY <1>0, <1>2, <1>8, <1>11, <2>1 DEF DestInv, Mail!MovesBack
  <1>14. ASSUME ~disturbed PROVE PhaseInv' /\ WhereInv' /\ FlagInv'
    <2>1. PhaseInv /\ WhereInv
      BY <1>5, <1>14 DEF AllInv, RestoreInv
    <2>2. stage = "approved"
      BY <1>0, <1>1, <1>5, <2>1 DEF PhaseInv, StateInv
    <2>3. taken = {} /\ back = {} /\ detail = Mail!NoWay
          /\ \A s \in Tasks \ {t} : pc[s] = "idle"
      BY <1>1, <2>1, <2>2 DEF PhaseInv
    <2>4. \A s \in Tasks : pc'[s] \in {"idle", l}
      BY <1>4, <2>3
    <2>5. PhaseInv'
      BY <1>2, <2>2, <2>3, <2>4, <1>4 DEF PhaseInv
    <2>6. FlagInv'
      BY <1>2, <2>2, <2>4 DEF FlagInv
    <2>7. Recs = {} /\ Mail!Staged = aimed /\ aimed # {} /\ Below(nextIn, plan.from, plan.uids)
          /\ Holds(pos, plan.from, plan.uids) = aimed
      BY <2>1, <2>3, StagedIs DEF WhereInv
    <2>8. plan.from \in Folders /\ plan.uids \in SUBSET Nat
      BY <1>5 DEF Mail!Plans
    <2>9. Below(nextIn', plan.from, plan.uids)
          /\ Holds(pos', plan.from, plan.uids) = Holds(pos, plan.from, plan.uids) \ M
      BY <1>6, <2>7, <2>8 DEF Touched
    <2>10. \A d \in Recs' : M = aimed /\ d.validity = validity'[plan.to] /\ Holds(pos', plan.to, d.uids) = aimed
      BY <1>7, <1>9, <1>10, <2>7
    <2>11. CASE M = {}
      <3>1. taken' = {} /\ Recs' = {}
        BY <1>6, <2>3, <2>7, <2>10, <2>11
      <3> QED BY <1>2, <2>3, <2>5, <2>6, <2>7, <2>9, <2>11, <3>1 DEF WhereInv
    <2>12. CASE M # {}
      <3>1. M = aimed /\ taken' = aimed /\ Mail!MovesBack
        BY <1>6, <2>3, <2>7, <2>12 DEF Mail!Moves, Mail!MovesBack
      <3> QED BY <1>2, <2>3, <2>5, <2>6, <2>7, <2>9, <2>10, <3>1 DEF WhereInv, Mail!MovesBack
    <2> QED BY <2>11, <2>12
  <1>15. RestoreInv'
    BY <1>2, <1>14 DEF RestoreInv
  <1> QED BY <1>6, <1>12, <1>13, <1>15 DEF AllInv

\* The messages an undo finds are messages that the operation moved.
LEMMA RecordedIsTaken ==
    ASSUME AllInv, NEW t \in Tasks, pc[t] = "inverse", Mail!MovesBack
    PROVE  /\ found[t] \in Recs /\ Mail!Recorded(t) \subseteq taken /\ Mail!Recorded(t) \subseteq Msgs
           /\ Mail!Recorded(t) # {} => Mail!Recorded(t) = Holds(pos, plan.to, found[t].uids)
           /\ ~disturbed => Mail!Recorded(t) = IF back = {} THEN aimed ELSE {}
  <1>1. found[t] \in Recs /\ Own(found[t])
    BY DEF AllInv, DestInv, Recs
  <1>2. Mail!Recorded(t) = IF validity[plan.to] = found[t].validity
                      THEN Holds(pos, plan.to, found[t].uids) ELSE {}
    BY DEF Mail!Recorded, Mail!At, Mail!In, Holds
  <1>3. stage # "free"
    BY DEF AllInv, StateInv
  <1>4. ~disturbed => /\ found[t].validity = validity[plan.to]
                      /\ Holds(pos, plan.to, found[t].uids) = IF back = {} THEN aimed ELSE {}
    BY <1>1, <1>3 DEF AllInv, RestoreInv, WhereInv
  <1>5. Mail!Recorded(t) \subseteq Msgs
    BY <1>2 DEF Holds
  <1> QED BY <1>1, <1>2, <1>4, <1>5 DEF Own

\* The command of the undo is sent, and is answered or not.
LEMMA InverseKeeps ==
    ASSUME AllInv, NEW t \in Tasks, Mail!UndoRelay(t) \/ Mail!UndoFails(t)
    PROVE AllInv'
  <1>0. PlaceInv /\ StateInv /\ DestInv
    BY DEF AllInv
  <1>1. UNCHANGED <<Mail!opVars, Mail!constVars, taken, disturbed>> /\ pc[t] = "inverse" /\ Mail!Hold(t, Mail!NoWay)
        /\ (Mail!Inverse(t) \/ UNCHANGED <<Mail!mailVars, back>>)
    BY DEF Mail!UndoRelay, Mail!UndoFails
  <1>2. UNCHANGED <<plan, folderTo, stage, detail, aimed, marked, taken, disturbed>>
    BY <1>1 DEF Mail!opVars, Mail!constVars
  <1>3. PICK l \in {"revert", "idle"} : Mail!Goto(t, l) /\ (l = "revert" => Mail!Inverse(t))
    BY DEF Mail!UndoRelay, Mail!UndoFails
  <1>4. pc' \in [Tasks -> Labels] /\ pc'[t] = l /\ \A s \in Tasks \ {t} : pc'[s] = pc[s]
    BY <1>0, <1>3, GotoIs DEF Labels
  <1>5. found' \in [Tasks -> Dests] /\ found'[t] = Mail!NoWay
        /\ \A s \in Tasks \ {t} : found'[s] = found[s]
    BY <1>0, <1>1, HoldIs, NoWayIs
  <1>6. /\ stage # "free" /\ plan \in Mail!Plans /\ plan.from \in Folders
        /\ Recs' \subseteq Recs /\ nextIn \in [Folders -> Nat \ {0}]
    BY <1>0, <1>1, <1>2, <1>5 DEF StateInv, PlaceInv, Mail!Plans, Recs
  <1>7. StateInv'
    BY <1>0, <1>2, <1>4, <1>5, <1>6 DEF StateInv
  <1>8. \A s \in Tasks : pc'[s] = "inverse" => s # t /\ pc[s] = "inverse" /\ found'[s] = found[s]
    BY <1>4, <1>5
  <1>9. ASSUME ~disturbed PROVE PhaseInv /\ WhereInv /\ FlagInv /\ PhaseInv'
    <2>1. PhaseInv /\ WhereInv /\ FlagInv
      BY <1>6, <1>9 DEF AllInv, RestoreInv
    <2>2. stage \in {"executed", "reverted"}
      BY <1>0, <1>1, <1>6, <2>1 DEF PhaseInv, StateInv
    <2>3. \A s \in Tasks : pc'[s] \in {"idle", "audit", "lookup", "inverse", "revert"}
      BY <1>4, <2>1, <2>2 DEF PhaseInv
    <2> QED BY <1>2, <2>1, <2>2, <2>3 DEF PhaseInv
  <1>10. CASE ~Mail!MovesBack \/ ~Mail!Inverse(t)
    <2>1. UNCHANGED <<pos, nextIn, validity, back>>
      BY <1>1, <1>10 DEF Mail!Inverse, Mail!Store, Mail!mailVars
    <2>2. PlaceInv' /\ Touched({})
      BY <1>0, <1>6, <2>1, StillTouches
    <2>3. (\A d \in Recs' : Own(d)') /\ (~disturbed' => WhereInv')
      BY <1>2, <1>6, <2>1, <2>2, QuietKeeps
    <2>4. l = "revert" => ~Mail!MovesBack
      BY <1>3, <1>10
    <2>5. DestInv'
      BY <1>0, <1>2, <1>4, <1>8, <2>1, <2>3, <2>4 DEF DestInv, Mail!MovesBack
    <2>6. ASSUME ~disturbed PROVE FlagInv'
      <3>1. CASE UNCHANGED flags /\ l = "idle"
        <4>1. \A s \in Tasks : pc'[s] = "revert" => pc[s] = "revert"
          BY <1>4, <3>1
        <4> QED BY <1>2, <1>9, <2>6, <3>1, <4>1 DEF FlagInv
      <3>2. CASE Mail!MovesBack
        BY <1>2, <3>2 DEF FlagInv, Mail!MovesBack
      <3>3. CASE ~Mail!MovesBack /\ Mail!Inverse(t)
        <4>1. Mail!Store(Mail!Staged, Mail!Flag, plan.kind = "unmark")
          BY <3>3 DEF Mail!Inverse
        <4>2. taken = {} /\ Mail!Staged = aimed /\ aimed \subseteq Msgs
          BY <1>0, <1>9, <2>6, <3>3, StagedIs DEF WhereInv, StateInv
        <4>3. ASSUME NEW m \in aimed, plan.kind \in {"mark", "unmark"}
              PROVE  "Flagged" \in flags'[m] <=> plan.kind = "unmark"
          <5>1. Mail!Flag = "Flagged"
            BY <4>3 DEF Mail!Flag
          <5>2. flags'[m] = IF plan.kind = "unmark" THEN flags[m] \cup {"Flagged"} ELSE flags[m] \ {"Flagged"}
            BY <4>1, <4>2, <5>1 DEF Mail!Store
          <5> QED BY <5>2
        <4> QED BY <1>2, <4>3 DEF FlagInv
      <3>4. \/ UNCHANGED flags /\ l = "idle"
            \/ Mail!MovesBack
            \/ ~Mail!MovesBack /\ Mail!Inverse(t)
        BY <1>1, <1>3 DEF Mail!mailVars
      <3> QED BY <3>1, <3>2, <3>3, <3>4
    <2> QED BY <1>2, <1>7, <1>9, <2>2, <2>3, <2>5, <2>6 DEF AllInv, RestoreInv
  <1>11. CASE Mail!MovesBack /\ Mail!Inverse(t)
    <2> DEFINE R == Mail!Recorded(t)
    <2>1. R # {} /\ Mail!MoveTo(R, plan.from) /\ back' = back \cup R
      BY <1>11 DEF Mail!Inverse
    <2>2. /\ R \subseteq taken /\ R \in SUBSET Msgs
          /\ ~disturbed => R = IF back = {} THEN aimed ELSE {}
      BY <1>1, <1>11, RecordedIsTaken
    <2> HIDE DEF R
    <2>3. PlaceInv' /\ Touched(R) /\ \A m \in R : pos'[m][1] = plan.from
      BY <1>0, <1>6, <2>1, <2>2, MoveTouches
    <2>4. \A d \in Recs' : Own(d) /\ Own(d)'
      BY <1>0, <1>2, <1>6, <2>3, OwnKeeps, RecsAreDests DEF DestInv
    <2>5. back' \subseteq taken' /\ back' # {}
      BY <1>0, <1>2, <2>1, <2>2 DEF DestInv
    <2>6. DestInv'
      BY <1>0, <1>2, <1>8, <2>4, <2>5 DEF DestInv, Mail!MovesBack
    <2>7. FlagInv'
      BY <1>2, <1>11 DEF FlagInv, Mail!MovesBack
    <2>8. ASSUME ~disturbed PROVE WhereInv'
      <3>1. back = {} /\ R = aimed /\ back' = aimed
        BY <2>1, <2>2, <2>8
      <3>2. WhereInv /\ taken # {}
        BY <1>9, <2>1, <2>2, <2>8
      <3>3. plan.uids \in SUBSET Nat
        BY <1>6 DEF Mail!Plans
      <3>4. Below(nextIn', plan.from, plan.uids)
        BY <1>6, <2>3, <3>2, <3>3 DEF WhereInv, Touched
      <3>5. ASSUME NEW d \in Recs'
            PROVE  d.validity = validity'[plan.to] /\ Holds(pos', plan.to, d.uids) = {}
        <4>1. d \in Dests /\ Own(d) /\ d.validity = validity[plan.to]
              /\ Holds(pos, plan.to, d.uids) = aimed
          BY <1>0, <1>6, <2>4, <3>1, <3>2, RecsAreDests DEF WhereInv
        <4>2. Holds(pos', plan.to, d.uids) = Holds(pos, plan.to, d.uids) \ R
              /\ validity' = validity
          BY <2>3, <4>1 DEF Own, Dests, Touched
        <4> QED BY <3>1, <4>1, <4>2
      <3>6. \A m \in aimed : pos'[m][1] = plan.from
        BY <2>3, <3>1
      <3> QED BY <1>2, <1>11, <2>5, <3>1, <3>2, <3>4, <3>5, <3>6 DEF WhereInv, Mail!MovesBack
    <2> QED BY <1>2, <1>7, <1>9, <2>3, <2>6, <2>7, <2>8 DEF AllInv, RestoreInv
  <1> QED BY <1>10, <1>11

\* The places of the messages at first leave no gaps, and UIDs go on from there.
LEMMA FirstUids ==
    ASSUME Mail!Init, NEW f \in Folders, NEW m \in Msgs, pos[m][1] = f
    PROVE  pos[m][2] \in Nat \ {0} /\ pos[m][2] <= Mail!Cardinality(Mail!In(f))
  <1>1. pos \in Mail!Placements /\ IsFiniteSet(Msgs) /\ Mail!None \notin Folders
    BY MailsAssumption, MailCardinality DEF Mail!Init, Mail!MailAssumption, Mail!None
  <1>2. \A n \in Msgs : pos[n][1] = f => pos[n][2] \in Nat \ {0}
    <2>1. Mail!Cardinality(Msgs) \in Nat
      BY MessagesAreFinite
    <2> QED BY <1>1, <2>1 DEF Mail!Placements, Mail!Nowhere
  <1>3. ASSUME NEW n \in Msgs, pos[n][1] = f, pos[n][2] > 1
        PROVE  \E p \in Msgs : pos[p][1] = f /\ pos[p][2] = pos[n][2] - 1
    <2>1. PICK p \in Msgs : pos[p] = <<pos[n][1], pos[n][2] - 1>>
      BY <1>1, <1>3 DEF Mail!Placements
    <2> QED BY <1>3, <2>1
  <1> DEFINE Filled(n, S) == S \subseteq Mail!In(f) /\ IsFiniteSet(S) /\ Cardinality(S) = pos[n][2]
                             /\ \A p \in S : pos[p][2] <= pos[n][2]
             P == {k \in Nat : \A n \in Msgs : pos[n][1] = f /\ pos[n][2] = k => \E S : Filled(n, S)}
  <1>4. 0 \in P
    BY <1>2
  <1>5. ASSUME NEW k \in Nat, k \in P PROVE k + 1 \in P
    <2>1. ASSUME NEW n \in Msgs, pos[n][1] = f, pos[n][2] = k + 1 PROVE \E S : Filled(n, S)
      <3>1. CASE k = 0
        <4>1. IsFiniteSet({n}) /\ Cardinality({n}) = 1 /\ {n} \subseteq Mail!In(f)
          BY <2>1, FS_Singleton DEF Mail!In
        <4> QED BY <2>1, <3>1, <4>1
      <3>2. CASE k > 0
        <4>1. PICK p \in Msgs : pos[p][1] = f /\ pos[p][2] = k
          BY <1>3, <2>1, <3>2
        <4>2. PICK S : Filled(p, S)
          BY <1>5, <4>1
        <4>3. n \notin S
          BY <2>1, <4>1, <4>2
        <4>4. IsFiniteSet(S \cup {n}) /\ Cardinality(S \cup {n}) = k + 1
          BY <4>1, <4>2, <4>3, FS_AddElement
        <4>5. S \cup {n} \subseteq Mail!In(f) /\ \A q \in S \cup {n} : pos[q][2] <= k + 1
          <5>1. \A q \in S : pos[q][2] \in Nat /\ pos[q][2] <= k
            BY <1>2, <4>1, <4>2 DEF Mail!In
          <5> QED BY <2>1, <4>2, <5>1 DEF Mail!In
        <4> QED BY <2>1, <4>4, <4>5
      <3> QED BY <3>1, <3>2
    <2> QED BY <2>1
  <1> HIDE DEF P
  <1>6. Nat \subseteq P
    BY <1>4, <1>5, NatSetInduction
  <1>7. PICK S : Filled(m, S)
    BY <1>2, <1>6 DEF P
  <1>8. Cardinality(S) <= Mail!Cardinality(Mail!In(f))
    <2>1. Mail!In(f) \in SUBSET Msgs
      BY DEF Mail!In
    <2>2. IsFiniteSet(Mail!In(f)) /\ Mail!Cardinality(Mail!In(f)) = Cardinality(Mail!In(f))
      BY <2>1, MessagesAreFinite, MailCardinality
    <2>3. S \in SUBSET Mail!In(f)
      BY <1>7
    <2> QED BY <2>2, <2>3, FS_Subset
  <1> QED BY <1>2, <1>7, <1>8

\* The first state.
LEMMA InitKeeps == ASSUME Mail!Init PROVE AllInv
  <1>1. PlaceInv
    <2>1. ASSUME NEW f \in Folders PROVE Mail!Cardinality(Mail!In(f)) \in Nat
      <3>1. Mail!In(f) \subseteq Msgs
        BY DEF Mail!In
      <3> QED BY <3>1, MessagesAreFinite
    <2>2. nextIn = [f \in Folders |-> Mail!Cardinality(Mail!In(f)) + 1]
          /\ validity = [f \in Folders |-> 1]
      BY DEF Mail!Init
    <2>3. pos \in [Msgs -> (Folders \X (Nat \ {0})) \cup {Mail!Nowhere, Mail!Gone}]
      <3>1. Mail!Cardinality(Msgs) \in Nat
        BY MessagesAreFinite
      <3> QED BY <3>1 DEF Mail!Init, Mail!Placements
    <2>4. ASSUME NEW m \in Msgs, pos[m][1] \in Folders PROVE pos[m][2] < nextIn[pos[m][1]]
      BY <2>1, <2>2, <2>4, FirstUids
    <2> QED BY <2>1, <2>2, <2>3, <2>4 DEF PlaceInv
  <1>2. Recs = {}
    BY DEF Mail!Init, Recs
  <1>3. StateInv
    BY <1>2, NoWayIs DEF Mail!Init, StateInv, Labels
  <1>4. DestInv
    BY <1>2 DEF Mail!Init, DestInv
  <1> QED BY <1>1, <1>3, <1>4 DEF Mail!Init, AllInv, RestoreInv

\* Every step keeps the invariant.
LEMMA NextKeeps == AllInv /\ [Mail!Next]_(Mail!vars) => AllInv'
  <1> SUFFICES ASSUME AllInv, [Mail!Next]_(Mail!vars) PROVE AllInv'
    OBVIOUS
  <1>1. CASE Mail!Stage
    BY <1>1, StageKeeps
  <1>2. ASSUME NEW t \in Tasks, Mail!StartApprove(t) \/ Mail!StartUndo(t) \/ Mail!Executing(t) \/ Mail!Undoing(t)
        PROVE AllInv'
    BY <1>2, ApprovalKeeps, RecordingKeeps, UndoingKeeps, RelayKeeps, InverseKeeps DEF Mail!Executing, Mail!Undoing
  <1>3. ASSUME NEW m \in Msgs, NEW f \in Folders, Mail!OwnerMoves(m, f) \/ Mail!Arrive(m, f)
        PROVE AllInv'
    BY <1>3, OwnerMovesKeeps, MailArrivesKeeps
  <1>4. ASSUME NEW m \in Msgs, Mail!OwnerDeletes(m) \/ Mail!OwnerFlags(m) PROVE AllInv'
    BY <1>4, OwnerDeletesKeeps, OwnerFlagsKeeps
  <1>5. ASSUME NEW f \in Folders, Mail!Renumber(f) PROVE AllInv'
    BY <1>5, RenumberKeeps
  <1>6. CASE Mail!Restart
    BY <1>6, RestartKeeps
  <1>7. CASE UNCHANGED Mail!vars
    BY <1>7 DEF Mail!vars, Mail!mailVars, Mail!opVars, Mail!constVars, AllInv, PlaceInv, StateInv, Recs, DestInv, Own,
                Mail!MovesBack, RestoreInv, PhaseInv, WhereInv, FlagInv
  <1> QED BY <1>1, <1>2, <1>3, <1>4, <1>5, <1>6, <1>7 DEF Mail!Next

\* What it says of an undo.
LEMMA InvMeans == AllInv => Mail!UndoIsTrue /\ Mail!UndoRestores
  <1> SUFFICES ASSUME AllInv PROVE Mail!UndoIsTrue /\ Mail!UndoRestores
    OBVIOUS
  <1>1. Mail!UndoIsTrue
    BY DEF AllInv, DestInv, Mail!UndoIsTrue
  <1>2. ASSUME ~disturbed, stage = "reverted" PROVE Mail!Restored
    <2>1. WhereInv /\ FlagInv
      BY <1>2 DEF AllInv, RestoreInv
    <2>2. \A m \in aimed : pos[m][1] = plan.from
      <3>1. CASE Mail!MovesBack
        BY <1>2, <2>1, <3>1 DEF AllInv, DestInv, WhereInv
      <3>2. CASE ~Mail!MovesBack
        BY <2>1, <3>2 DEF WhereInv, Holds
      <3> QED BY <3>1, <3>2
    <2> QED BY <1>2, <2>1, <2>2 DEF Mail!Restored, FlagInv
  <1>3. ASSUME ~disturbed, NEW t \in Tasks, pc[t] = "inverse", Mail!MovesBack, back = {}
        PROVE Mail!Recorded(t) = aimed
    BY <1>3, RecordedIsTaken
  <1> QED BY <1>1, <1>2, <1>3 DEF Mail!UndoRestores

\* An undo takes back what its operation moved and nothing else, a move is reverted only
\* when something came back, and what nobody disturbed is restored, whatever moved, was
\* delivered or was numbered anew between (undo_operation, _load_move_destination).
THEOREM UndoAlwaysTrue == MirrorSpec => []UndoIsTrue
  <1>1. MirrorInit => AllInv
    BY InitKeeps DEF MirrorInit
  <1>2. AllInv /\ [MirrorNext]_<<moving, vars, mailActionVars>> => AllInv'
    <2>1. [MirrorNext]_<<moving, vars, mailActionVars>> => [Mail!Next]_(Mail!vars)
      BY DEF MirrorNext, mailActionVars, Mail!vars, Mail!mailVars, Mail!opVars, Mail!constVars,
             Mail!boundVars
    <2> QED BY <2>1, NextKeeps
  <1>3. AllInv => UndoIsTrue
    BY InvMeans DEF UndoIsTrue
  <1> QED BY <1>1, <1>2, <1>3, PTL DEF MirrorSpec

=============================================================================
