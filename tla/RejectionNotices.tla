-------------------------- MODULE RejectionNotices --------------------------
(***************************************************************************)
(* How an agent learns that its sends were rejected                         *)
(* (_send_smtp_rejection_notices, gateway/smtp_proxy.py): after each AUTH   *)
(* the proxy reads the oldest rejected operations not yet notified, writes  *)
(* a line for each to the client, and marks them.  An agent may have        *)
(* several connections.                                                     *)
(***************************************************************************)
EXTENDS Naturals, Sequences, FiniteSets, SequencesExt, Filters

CONSTANTS
    Ops, Conns,
    Limit,          \* notices of one session: 10 in the code
    MaxFaults       \* bound on the connections that break, the marks that fail

NoticesAssumption == Limit \in Nat \ {0} /\ MaxFaults \in Nat

VARIABLES
    rejected,       \* the operations rejected, by decided_at
    notified,       \* rejection_notified = 1
    pc, batch,      \* of each connection: progress, rows read
    reached,        \* does the client still read?
    wrote, read,    \* history: operations in the order written, read by a client
    faults

vars == <<rejected, notified, pc, batch, reached, wrote, read, faults>>

\* A connection holds at most Limit notices, and none between two of its logins;
\* only rejections are written, marked and read.
TypeOK ==
    /\ rejected \in Seq(Ops) /\ IsInjective(rejected)
    /\ notified \subseteq ToSet(rejected)
    /\ pc \in [Conns -> {"idle", "write", "mark"}]
    /\ \A c \in Conns : Len(batch[c]) <= Limit /\ (pc[c] = "idle") = (batch[c] = <<>>)
    /\ reached \in [Conns -> BOOLEAN]
    /\ ToSet(wrote) \subseteq ToSet(rejected) /\ read \subseteq ToSet(wrote)

Init ==
    /\ rejected = <<>> /\ notified = {}
    /\ pc = [c \in Conns |-> "idle"] /\ batch = [c \in Conns |-> <<>>]
    /\ reached = [c \in Conns |-> TRUE]
    /\ wrote = <<>> /\ read = {} /\ faults = 0

Fault == faults < MaxFaults /\ faults' = faults + 1

Reject(o) ==
    /\ o \notin ToSet(rejected)
    /\ rejected' = Append(rejected, o)
    /\ UNCHANGED <<notified, pc, batch, reached, wrote, read, faults>>

Due == Filter(rejected, Ops \ notified)
FirstOf(s) == SubSeq(s, 1, IF Len(s) < Limit THEN Len(s) ELSE Limit)

\* (mutant) the newest first
LoginNewest(c) ==
    /\ pc[c] = "idle" /\ Due # <<>>
    /\ batch' = [batch EXCEPT ![c] = FirstOf(Reverse(Due))]
    /\ reached' = [reached EXCEPT ![c] = TRUE]
    /\ pc' = [pc EXCEPT ![c] = "write"]
    /\ UNCHANGED <<rejected, notified, wrote, read, faults>>

\* ORDER BY decided_at ASC LIMIT 10
Login(c) ==
    /\ pc[c] = "idle" /\ Due # <<>>
    /\ batch' = [batch EXCEPT ![c] = FirstOf(Due)]
    /\ reached' = [reached EXCEPT ![c] = TRUE]
    /\ pc' = [pc EXCEPT ![c] = "write"]
    /\ UNCHANGED <<rejected, notified, wrote, read, faults>>

\* The client goes away, which the proxy may not notice for a while.
Breaks(c) ==
    /\ pc[c] = "write" /\ reached[c] /\ Fault
    /\ reached' = [reached EXCEPT ![c] = FALSE]
    /\ UNCHANGED <<rejected, notified, pc, batch, wrote, read>>

\* write() and drain(): the bytes are handed to the transport.
Write(c) ==
    /\ pc[c] = "write"
    /\ wrote' = wrote \o Filter(batch[c], Ops \ ToSet(wrote))
    /\ read' = IF reached[c] THEN read \cup ToSet(batch[c]) ELSE read
    /\ pc' = [pc EXCEPT ![c] = "mark"]
    /\ UNCHANGED <<rejected, notified, batch, reached, faults>>

\* drain() raises: nothing is marked.
WriteFails(c) ==
    /\ pc[c] = "write" /\ ~reached[c]
    /\ pc' = [pc EXCEPT ![c] = "idle"] /\ batch' = [batch EXCEPT ![c] = <<>>]
    /\ UNCHANGED <<rejected, notified, reached, wrote, read, faults>>

\* (mutant) every rejected operation is marked
MarkAll(c) ==
    /\ pc[c] = "mark"
    /\ notified' = ToSet(rejected)
    /\ pc' = [pc EXCEPT ![c] = "idle"] /\ batch' = [batch EXCEPT ![c] = <<>>]
    /\ UNCHANGED <<rejected, reached, wrote, read, faults>>

Mark(c) ==
    /\ pc[c] = "mark"
    /\ notified' = notified \cup ToSet(batch[c])
    /\ pc' = [pc EXCEPT ![c] = "idle"] /\ batch' = [batch EXCEPT ![c] = <<>>]
    /\ UNCHANGED <<rejected, reached, wrote, read, faults>>

\* The process dies, or the database is locked for too long.
MarkFails(c) ==
    /\ pc[c] = "mark" /\ Fault
    /\ pc' = [pc EXCEPT ![c] = "idle"] /\ batch' = [batch EXCEPT ![c] = <<>>]
    /\ UNCHANGED <<rejected, notified, reached, wrote, read>>

Proceed(c) == Write(c) \/ WriteFails(c) \/ Mark(c) \/ MarkFails(c)

Next ==
    \/ \E o \in Ops : Reject(o)
    \/ \E c \in Conns : Login(c) \/ Breaks(c) \/ Proceed(c)

Spec == Init /\ [][Next]_vars

\* The agent logs in again and again, and the proxy runs on.
FairSpec == Spec /\ \A c \in Conns : WF_vars(Login(c)) /\ WF_vars(Proceed(c))

-----------------------------------------------------------------------------
(* Properties *)

\* What is marked was written, to some connection: a notice is never given up
\* before, whichever connection breaks between the read and the mark.
NotifiedWasWritten == notified \subseteq ToSet(wrote)

\* The agent hears of the rejections oldest first, also over several sessions
\* at once (ORDER BY decided_at, and the mark only after the write).
\* SPEC.md:197 - "oldest first, up to 10 per session".
ToldInOrder == IsPrefix(wrote, rejected)

\* Every rejection is told to an agent that keeps logging in: the limit and the
\* failures only delay it.
AllAreTold == \A o \in Ops : o \in ToSet(rejected) ~> o \in ToSet(wrote) /\ o \in notified

(* What comments and docs say and the code does not keep to *)

\* SPEC.md:197 - "so each op is notified once": no session writes an operation
\* that another has written.
NotifiedOnce ==
    [][\A c \in Conns : pc[c] = "write" /\ pc'[c] = "mark"
          => ToSet(batch[c]) \cap ToSet(wrote) = {}]_vars

\* gateway/smtp_proxy.py:279 - "After delivery, the ops are marked
\* rejection_notified=1 in the DB".
MarkedIsDelivered == notified \subseteq read

=============================================================================
