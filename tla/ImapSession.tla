------------------------------ MODULE ImapSession ------------------------------
(***************************************************************************)
(* One IMAP connection of an agent (gateway/proxy.py): two tasks that share *)
(* the `session` dict.  _client_to_upstream reads a command, forwards it,   *)
(* answers it or stages it; _upstream_to_client relays the lines of the     *)
(* upstream server and then updates the mirror from them.  Every await is   *)
(* an interleaving point.                                                   *)
(*                                                                         *)
(* The upstream server is external.  A folder stands for its name and for   *)
(* its folder_id; messages matter only where a held COPY meets a STORE.     *)
(***************************************************************************)
EXTENDS Naturals, Sequences, FiniteSets

CONSTANTS
    Folders, UidSets,
    MaxCommands,     \* bound on the commands of a client that waits for each
                     \* answer before it sends on
    MaxEager,        \* bound on those of a client that does not
    Faults           \* may create_operation raise?

None == "none"

ASSUME SessionAssumption ==
    /\ MaxCommands \in Nat /\ MaxEager \in 0 .. MaxCommands /\ Faults \in BOOLEAN
    /\ None \notin Folders

VARIABLES
    (* session, and is the connection up *)
    folder, folderId, inSelect, trigger, held, open,
    (* _client_to_upstream: program counter, command in hand, its folder_id *)
    pc, cmd, fid,
    (* _upstream_to_client: program counter, line in hand, its folder *)
    stage, line, statsFolder,
    (* upstream: commands and lines under way, folder selected *)
    queue, wire, selected,
    (* the client: does it send ahead, commands sent, how often each was
       answered *)
    eager, sent, answers,
    (* the database: FETCH rows and optimistic changes, by the folder whose
       rows were touched and the folder meant; operations staged; commands
       whose operation could not be staged *)
    mirror, optimistic, staged, failed,
    (* history: commands answered [STAGED]; FETCH lines not synced; was new mail
       announced with the answer to another command than SELECT? reverts injected
       at an answer, by tag and folder *)
    told, swallowed, news, injected

sessionVars  == <<folder, folderId, inSelect, trigger, held, open>>
c2uVars      == <<pc, cmd, fid>>
u2cVars      == <<stage, line, statsFolder>>
upstreamVars == <<queue, wire, selected>>
clientVars   == <<eager, sent, answers>>
dbVars       == <<mirror, optimistic, staged, failed>>
histVars     == <<told, swallowed, news, injected>>
vars == <<sessionVars, c2uVars, u2cVars, upstreamVars, clientVars, dbVars, histVars>>

Tags == 1 .. MaxCommands
NoTag == 0
MaybeFolder == Folders \cup {None}
Nothing == [tag |-> NoTag, set |-> None, folder |-> None]
NoCommand == [kind |-> None, tag |-> NoTag, tags |-> {}, issued |-> None]
NoLine == [kind |-> None, tag |-> NoTag, verb |-> None, folder |-> None]
Holding == held # Nothing

\* No command is answered twice, nor before it is handled.
TypeOK ==
    /\ folder \in MaybeFolder /\ folderId \in MaybeFolder /\ selected \in MaybeFolder
    /\ inSelect \in BOOLEAN /\ open \in BOOLEAN
    /\ trigger \in Tags \cup {NoTag}
    /\ held = Nothing \/ held \in [tag : Tags, set : UidSets, folder : MaybeFolder]
    /\ pc \in {"read", "optimistic", "stage"} /\ stage \in {"recv", "sync", "stats"}
    /\ pc # "read" => answers[cmd.tag] = 0
    /\ sent \in 0 .. MaxCommands /\ answers \in [Tags -> 0 .. 1]
    /\ \A s \in staged : s.tags \subseteq 1 .. sent

Init ==
    /\ folder = None /\ folderId = None /\ inSelect = FALSE /\ trigger = NoTag
    /\ held = Nothing /\ open = TRUE
    /\ pc = "read" /\ cmd = NoCommand /\ fid = None
    /\ stage = "recv" /\ line = NoLine /\ statsFolder = None
    /\ queue = <<>> /\ wire = <<>> /\ selected = None
    /\ eager \in BOOLEAN /\ sent = 0 /\ answers = [i \in Tags |-> 0]
    /\ mirror = {} /\ optimistic = {} /\ staged = {} /\ failed = {}
    /\ told = {} /\ swallowed = {} /\ news = FALSE /\ injected = {}

-----------------------------------------------------------------------------
(* _client_to_upstream *)

Tag == sent + 1

\* The client sends its next command and the task reads it.
ReadLine ==
    /\ open /\ pc = "read"
    /\ IF eager THEN sent < MaxEager
                ELSE sent < MaxCommands /\ \A i \in 1 .. sent : answers[i] > 0
    /\ sent' = Tag /\ UNCHANGED eager

Forward(verb, f) == queue' = Append(queue, [verb |-> verb, tag |-> Tag, folder |-> f])

Answer(tag) == answers' = [answers EXCEPT ![tag] = @ + 1]

\* SELECT, EXAMINE
Select(f) ==
    /\ ReadLine
    /\ folder' = f /\ folderId' = None /\ inSelect' = FALSE /\ trigger' = Tag
    /\ Forward("select", f)
    /\ UNCHANGED <<held, open, c2uVars, u2cVars, wire, selected, answers, dbVars, histVars>>

\* FETCH, NOOP
Read(verb) ==
    /\ ReadLine
    /\ trigger' = Tag
    /\ Forward(verb, None)
    /\ UNCHANGED <<folder, folderId, inSelect, held, open, c2uVars, u2cVars, wire, selected,
                   answers, dbVars, histVars>>

\* Blocked and refused commands are answered at once.
Local ==
    /\ ReadLine
    /\ Answer(Tag)
    /\ UNCHANGED <<sessionVars, c2uVars, u2cVars, upstreamVars, dbVars, histVars>>

\* create_operation
Create(op) ==
    \/ staged' = staged \cup {op} /\ UNCHANGED failed
    \/ Faults /\ failed' = failed \cup op.tags /\ UNCHANGED staged

\* The held COPY becomes an operation; a failure to stage it is only logged.
Flush ==
    IF Holding THEN Create([kind |-> "copy", from |-> folder, tags |-> {held.tag},
                            issued |-> held.folder])
               ELSE UNCHANGED <<staged, failed>>

\* (mutant) the COPY held before is not flushed
CopyOverHeld(set) ==
    /\ ReadLine
    /\ held' = [tag |-> Tag, set |-> set, folder |-> folder]
    /\ Answer(Tag)
    /\ UNCHANGED <<folder, folderId, inSelect, trigger, open, c2uVars, u2cVars, upstreamVars,
                   mirror, optimistic, staged, failed, histVars>>

\* UID COPY to the archive or trash folder of the provider.
Copy(set) ==
    /\ ReadLine
    /\ Flush
    /\ held' = [tag |-> Tag, set |-> set, folder |-> folder]
    /\ Answer(Tag)
    /\ UNCHANGED <<folder, folderId, inSelect, trigger, open, c2uVars, u2cVars, upstreamVars,
                   mirror, optimistic, histVars>>

\* STORE, COPY or MOVE without UID.
Positional ==
    /\ ReadLine
    /\ Flush /\ held' = Nothing
    /\ Answer(Tag)
    /\ UNCHANGED <<folder, folderId, inSelect, trigger, open, c2uVars, u2cVars, upstreamVars,
                   mirror, optimistic, histVars>>

InHand(kind, tags, issued) ==
    cmd' = [kind |-> kind, tag |-> Tag, tags |-> tags, issued |-> issued]

\* A flag operation that finds no folder_id looks it up and caches it.
TakeFolderId ==
    /\ fid' = IF folderId = None THEN folder ELSE folderId
    /\ folderId' = fid'

\* UID STORE of any flag but \Deleted.
Store ==
    /\ ReadLine
    /\ Flush /\ held' = Nothing
    /\ InHand("store", {Tag}, folder)
    /\ TakeFolderId
    /\ pc' = "optimistic"
    /\ UNCHANGED <<folder, inSelect, trigger, open, u2cVars, upstreamVars, answers,
                   mirror, optimistic, histVars>>

\* UID MOVE looks up no folder_id.
Move ==
    /\ ReadLine
    /\ Flush /\ held' = Nothing
    /\ InHand("move", {Tag}, folder)
    /\ fid' = folderId
    /\ pc' = "optimistic"
    /\ UNCHANGED <<folder, folderId, inSelect, trigger, open, u2cVars, upstreamVars, answers,
                   mirror, optimistic, histVars>>

\* CREATE and RENAME flush a held COPY, an APPEND with its literal does not.
\* None of them touches the mirror.
StageAsIs ==
    /\ ReadLine
    /\ \/ Flush /\ held' = Nothing
       \/ UNCHANGED <<staged, failed, held>>
    /\ InHand("other", {Tag}, folder)
    /\ pc' = "stage"
    /\ UNCHANGED <<folder, folderId, inSelect, trigger, open, fid, u2cVars, upstreamVars, answers,
                   mirror, optimistic, histVars>>

\* UID STORE +FLAGS \Deleted, when no COPY of the same UID set is held.
Trash(set) ==
    /\ ReadLine
    /\ ~Holding \/ held.set # set
    /\ InHand("trash", {Tag}, folder)
    /\ TakeFolderId
    /\ pc' = "optimistic"
    /\ UNCHANGED <<folder, inSelect, trigger, held, open, u2cVars, upstreamVars, answers,
                   dbVars, histVars>>

\* (mutant) the intent is not cleared by the rewrite
RewriteKeepsHeld(set) ==
    /\ ReadLine
    /\ Holding /\ held.set = set
    /\ InHand("move", {Tag, held.tag}, held.folder)
    /\ fid' = folderId
    /\ pc' = "optimistic"
    /\ UNCHANGED <<sessionVars, u2cVars, upstreamVars, answers, dbVars, histVars>>

\* COPY and STORE \Deleted of one UID set become one UID MOVE.
Rewrite(set) ==
    /\ ReadLine
    /\ Holding /\ held.set = set
    /\ InHand("move", {Tag, held.tag}, held.folder)
    /\ held' = Nothing
    /\ fid' = folderId
    /\ pc' = "optimistic"
    /\ UNCHANGED <<folder, folderId, inSelect, trigger, open, u2cVars, upstreamVars, answers,
                   dbVars, histVars>>

\* The snapshot and the change in the mirror, for the folder_id read before.
ApplyOptimistic ==
    /\ open /\ pc = "optimistic"
    /\ optimistic' = IF fid = None THEN optimistic
                     ELSE optimistic \cup {[rows |-> fid, meant |-> folder, tag |-> cmd.tag]}
    /\ pc' = "stage"
    /\ UNCHANGED <<sessionVars, cmd, fid, u2cVars, upstreamVars, clientVars, mirror, staged, failed,
                   histVars>>

InHandOp == [kind |-> cmd.kind, from |-> folder, tags |-> cmd.tags, issued |-> cmd.issued]

Staged ==
    /\ told' = told \cup {cmd.tag}
    /\ pc' = "read"
    /\ UNCHANGED <<sessionVars, cmd, fid, u2cVars, upstreamVars, eager, sent, mirror, optimistic,
                   swallowed, news, injected>>

\* (mutant) a failure to stage is not answered
StageAnswersIfStaged ==
    /\ open /\ pc = "stage"
    /\ Create(InHandOp)
    /\ IF failed' = failed THEN Answer(cmd.tag) ELSE UNCHANGED answers
    /\ Staged

\* create_operation and the answer, which is the same when it raises.
Stage ==
    /\ open /\ pc = "stage"
    /\ Create(InHandOp)
    /\ Answer(cmd.tag)
    /\ Staged

-----------------------------------------------------------------------------
(* The upstream server (external): answers commands in their order.  New     *)
(* mail is announced with the answer to any command.                         *)

Line(kind, tag, verb) == [kind |-> kind, tag |-> tag, verb |-> verb, folder |-> selected']

Upstream ==
    /\ queue # <<>>
    /\ LET c == Head(queue)
           ok == <<Line("ok", c.tag, c.verb)>>
           no == <<Line("no", c.tag, c.verb)>>
           exists == <<Line("exists", NoTag, c.verb)>>
           fetched == <<Line("fetch", NoTag, c.verb)>>
       IN  CASE c.verb = "select" ->
                    \/ selected' = c.folder /\ wire' = wire \o exists \o ok
                    \/ selected' = None /\ wire' = wire \o no
             [] c.verb = "fetch" ->
                    /\ UNCHANGED selected
                    /\ wire' \in IF selected = None THEN {wire \o no}
                                 ELSE {wire \o fetched \o ok, wire \o exists \o fetched \o ok}
             [] c.verb = "noop" ->
                    /\ UNCHANGED selected
                    /\ wire' \in IF selected = None THEN {wire \o ok}
                                 ELSE {wire \o ok, wire \o exists \o ok}
    /\ queue' = Tail(queue)
    /\ news' = (news \/ \E i \in DOMAIN wire' \ DOMAIN wire : wire'[i].kind = "exists" /\ wire'[i].verb # "select")
    /\ UNCHANGED <<sessionVars, c2uVars, u2cVars, clientVars, dbVars, told, swallowed, injected>>

-----------------------------------------------------------------------------
(* _upstream_to_client *)

Tagged(l) == l.kind \in {"ok", "no"}

\* The reverts are injected and the line is forwarded before it is looked at
\* for the mirror.
Relay ==
    /\ open /\ stage = "recv" /\ wire # <<>>
    /\ LET l == Head(wire)
           fires == l.kind = "ok" /\ l.tag = trigger
       IN  /\ trigger' = IF fires THEN NoTag ELSE trigger
           /\ injected' = IF fires /\ folderId # None
                            THEN injected \cup {[tag |-> l.tag, rows |-> folderId]} ELSE injected
           /\ IF Tagged(l) THEN Answer(l.tag) ELSE UNCHANGED answers
           /\ line' = l
    /\ wire' = Tail(wire)
    /\ stage' = "sync"
    /\ UNCHANGED <<folder, folderId, inSelect, held, open, c2uVars, statsFolder, queue, selected,
                   eager, sent, dbVars, told, swallowed, news>>

(* _sync_upstream_line *)

\* Within what is taken for the answer to a SELECT untagged lines pile up.
Accumulate ==
    /\ open /\ stage = "sync" /\ ~Tagged(line) /\ inSelect
    /\ swallowed' = IF line.kind = "fetch" THEN swallowed \cup {line.folder} ELSE swallowed
    /\ stage' = "recv"
    /\ UNCHANGED <<sessionVars, c2uVars, line, statsFolder, upstreamVars, clientVars, dbVars,
                   told, news, injected>>

BeginSelect ==
    /\ open /\ stage = "sync" /\ line.kind = "exists" /\ ~inSelect
    /\ inSelect' = TRUE
    /\ stage' = "recv"
    /\ UNCHANGED <<folder, folderId, trigger, held, open, c2uVars, line, statsFolder,
                   upstreamVars, clientVars, dbVars, histVars>>

SyncFetch ==
    /\ open /\ stage = "sync" /\ line.kind = "fetch" /\ ~inSelect
    /\ mirror' = IF folderId = None THEN mirror
                 ELSE mirror \cup {[rows |-> folderId, meant |-> line.folder]}
    /\ stage' = "recv"
    /\ UNCHANGED <<sessionVars, c2uVars, line, statsFolder, upstreamVars, clientVars,
                   optimistic, staged, failed, histVars>>

EndsSelect == line.kind = "ok" /\ line.verb = "select" /\ inSelect /\ folder # None

\* (mutant) the end of a SELECT is not recorded
SyncSelectGoesOn ==
    /\ open /\ stage = "sync" /\ EndsSelect
    /\ statsFolder' = folder
    /\ stage' = "stats"
    /\ UNCHANGED <<sessionVars, c2uVars, line, upstreamVars, clientVars, dbVars, histVars>>

\* update_folder_stats is called with the folder of the moment ...
SyncSelect ==
    /\ open /\ stage = "sync" /\ EndsSelect
    /\ inSelect' = FALSE
    /\ statsFolder' = folder
    /\ stage' = "stats"
    /\ UNCHANGED <<folder, folderId, trigger, held, open, c2uVars, line, upstreamVars,
                   clientVars, dbVars, histVars>>

\* (mutant) ... and its id is cached unless one is cached already
CacheFolderIdOnce ==
    /\ open /\ stage = "stats"
    /\ folderId' = IF folderId = None THEN statsFolder ELSE folderId
    /\ stage' = "recv"
    /\ UNCHANGED <<folder, inSelect, trigger, held, open, c2uVars, line, statsFolder,
                   upstreamVars, clientVars, dbVars, histVars>>

\* ... and its id is cached when it returns.
CacheFolderId ==
    /\ open /\ stage = "stats"
    /\ folderId' = statsFolder
    /\ stage' = "recv"
    /\ UNCHANGED <<folder, inSelect, trigger, held, open, c2uVars, line, statsFolder,
                   upstreamVars, clientVars, dbVars, histVars>>

SyncNothing ==
    /\ open /\ stage = "sync" /\ Tagged(line) /\ ~EndsSelect
    /\ stage' = "recv"
    /\ UNCHANGED <<sessionVars, c2uVars, line, statsFolder, upstreamVars, clientVars, dbVars, histVars>>

-----------------------------------------------------------------------------
(* The end of the connection: when one task ends the other is cancelled       *)

ClientCloses ==
    /\ open /\ pc = "read" /\ open' = FALSE
    /\ UNCHANGED <<folder, folderId, inSelect, trigger, held, c2uVars, u2cVars, upstreamVars,
                   clientVars, dbVars, histVars>>

UpstreamCloses ==
    /\ open /\ stage = "recv" /\ open' = FALSE
    /\ UNCHANGED <<folder, folderId, inSelect, trigger, held, c2uVars, u2cVars, upstreamVars,
                   clientVars, dbVars, histVars>>

ClientToUpstream ==
    \/ \E f \in Folders : Select(f)
    \/ \E verb \in {"fetch", "noop"} : Read(verb)
    \/ Local \/ Positional \/ Store \/ Move \/ StageAsIs
    \/ \E set \in UidSets : Copy(set) \/ Trash(set) \/ Rewrite(set)

Staging == ApplyOptimistic \/ Stage

UpstreamToClient ==
    \/ Relay \/ Accumulate \/ BeginSelect \/ SyncFetch \/ SyncSelect \/ CacheFolderId \/ SyncNothing

Next ==
    \/ ClientToUpstream \/ Staging \/ UpstreamToClient \/ Upstream
    \/ ClientCloses \/ UpstreamCloses

Spec == Init /\ [][Next]_vars

\* The event loop runs both tasks, and the server answers.
FairSpec == Spec /\ WF_vars(Staging) /\ WF_vars(UpstreamToClient) /\ WF_vars(Upstream)

-----------------------------------------------------------------------------
(* Properties *)

\* A FETCH line is stored under the folder it came from, for a client that waits
\* for each answer (for one that sends ahead it is not), although the answer to a
\* SELECT is forwarded before the folder is synced; and none is taken for a part
\* of the answer to a SELECT, as long as new mail is announced with SELECT only
\* (_sync_upstream_line).
\* gateway/proxy.py:812 - "Track SELECT so the u2c pump knows which folder we're
\* in."
SyncedInItsFolder ==
    /\ ~eager => \A m \in mirror : m.rows = m.meant
    /\ ~news => swallowed = {}

\* COPY and STORE \Deleted become one operation or two, but no command of the
\* agent is staged twice, whatever comes between them (the held COPY is cleared
\* by the rewrite and by the flush); and while the connection lives, a change made
\* to the mirror ahead of its operation has one, is about to, or the database has
\* refused it.
StagedOnce ==
    /\ \A i \in Tags : Cardinality({s \in staged : i \in s.tags}) <= 1
    /\ open => \A c \in optimistic :
                   \/ c.tag \in failed \cup UNION {s.tags : s \in staged}
                   \/ pc = "stage" /\ cmd.tag = c.tag

\* A COPY answered OK is held or staged until the connection ends: another
\* COPY, another command or a failed match never drops it, a failure of the
\* database alone does.
CopyIsKept ==
    [][open' /\ Holding /\ held' # held =>
          \/ held.tag \in failed' \cup UNION {s.tags : s \in staged'}
          \/ pc' = "optimistic" /\ held.tag \in cmd'.tags]_vars

\* Every command is answered, by one task or the other, or the connection ends.
CommandsAreAnswered == \A i \in Tags : sent >= i ~> answers[i] > 0 \/ ~open

(* What comments say and the code does not keep to *)

\* gateway/proxy.py:1985 - session["folder_id"] is the "cached DB id for current
\* folder": a staged flag change touches the rows of the folder it was sent for.
OptimisticInItsFolder == \A c \in optimistic : c.rows = c.meant

\* gateway/proxy.py:978 - the pair is rewritten "as a single UID MOVE to the COPY
\* destination": out of the folder in which the agent copied.
MovedFromItsFolder == \A s \in staged : s.kind = "move" => s.from = s.issued

\* gateway/proxy.py:903 - "If we're holding a COPY intent and the next write is
\* NOT a matching STORE \Deleted, flush the held COPY as staged before processing
\* the new command."
HeldIsFlushed ==
    Holding => \A s \in staged : \A i \in s.tags : i <= held.tag

\* gateway/proxy.py:894 - "otherwise the held COPY is flushed as a normal staged
\* COPY op."
HeldIsNotLost == ~open => ~Holding

\* gateway/proxy.py:409 - "FETCH - parse UID/flags/envelope, upsert into messages
\* table".
FetchIsSynced == swallowed = {}

\* gateway/state_db.py:1297 - reverts are "picked up by the proxy on the AI's next
\* SELECT/NOOP/FETCH": reverts for the folder selected, when SELECT is answered.
SelectInjects ==
    stage = "sync" /\ line.kind = "ok" /\ line.verb = "select"
        => [tag |-> line.tag, rows |-> line.folder] \in injected

\* gateway/proxy.py:1009 - "The snapshot is stored in staged_operations for later
\* revert on rejection."
OptimisticIsBacked ==
    ~open => \A c \in optimistic : \E s \in staged : c.tag \in s.tags

\* SPEC.md:181 - "optimistic local update -> staged_operations record ... ->
\* OK [STAGED] to the agent": the answer comes when the record is there.
StagedIsTrue == \A i \in told : \E s \in staged : i \in s.tags

=============================================================================
