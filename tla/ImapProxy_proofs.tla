------------------------- MODULE ImapProxy_proofs --------------------------
(***************************************************************************)
(* Theorems about the parts of MCImapProxy: what becomes of the write        *)
(* commands of a connection, and in which folder its FETCH lines are stored *)
(* (ImapSession); what is read into a UID set (UidSetReaders); what reaches  *)
(* the client of the upstream's bytes (LineRelay) and what the proxy takes   *)
(* the agent's bytes for (CommandReader).  They hold for any number of      *)
(* commands, folders, UIDs and response units, and any size of chunk.        *)
(***************************************************************************)
EXTENDS MCImapProxy, Filters_proofs, FiniteSetTheorems, SequenceTheorems, TLAPS

\* The operations staged have no command in common.
StagedInv ==
    /\ sent \in Nat
    /\ \A s \in staged : s.tags \subseteq 1 .. sent
    /\ \A s, t \in staged : s # t => s.tags \cap t.tags = {}

\* The command in hand stands for commands that are not staged yet.
CmdInv ==
    pc # "read" => /\ cmd.tag \in cmd.tags /\ cmd.tags \subseteq 1 .. sent
                   /\ \A s \in staged : s.tags \cap cmd.tags = {}

\* The held COPY is neither staged nor in hand.
HeldInv ==
    Holding => /\ held.tag \in 1 .. sent
               /\ \A s \in staged : held.tag \notin s.tags
               /\ pc # "read" => held.tag \notin cmd.tags

Covered(i) == i \in failed \/ \E s \in staged : i \in s.tags

\* A change in the mirror has its operation, or is about to.
OptimisticInv ==
    \A c \in optimistic : Covered(c.tag) \/ (pc = "stage" /\ cmd.tag = c.tag)

WritesInv == StagedInv /\ CmdInv /\ HeldInv /\ OptimisticInv

-----------------------------------------------------------------------------

\* Nothing is staged, held or in hand.
LEMMA InitHolds == Init => WritesInv
BY DEF Init, WritesInv, StagedInv, CmdInv, HeldInv, OptimisticInv, Holding

\* One operation more, for commands that have none yet.
LEMMA CreateKeeps ==
    ASSUME StagedInv, sent' \in Nat, sent' >= sent, NEW op, Create(op),
           op.tags \subseteq 1 .. sent', \A s \in staged : s.tags \cap op.tags = {}
    PROVE  /\ StagedInv' /\ staged' \subseteq staged \cup {op}
           /\ \A i : Covered(i) \/ i \in op.tags => Covered(i)'
<1>1. CASE staged' = staged \cup {op} /\ UNCHANGED failed
  BY <1>1 DEF StagedInv, Covered
<1>2. CASE failed' = failed \cup op.tags /\ UNCHANGED staged
  BY <1>2 DEF StagedInv, Covered
<1> QED BY <1>1, <1>2 DEF Create

\* The held COPY is staged, or there is none.
LEMMA FlushKeeps ==
    ASSUME StagedInv, HeldInv, Flush, sent' = sent + 1
    PROVE  /\ StagedInv'
           /\ \A s \in staged' : s \in staged \/ (Holding /\ s.tags = {held.tag})
           /\ \A i : Covered(i) \/ (Holding /\ i = held.tag) => Covered(i)'
<1>1. CASE ~Holding
  BY <1>1 DEF Flush, StagedInv, Covered
<1>2. CASE Holding
  <2> DEFINE op == [kind |-> "copy", from |-> folder, tags |-> {held.tag}, issued |-> held.folder]
  <2>1. op.tags = {held.tag} /\ Create(op)
    BY <1>2 DEF Flush
  <2>2. op.tags \subseteq 1 .. sent' /\ (\A s \in staged : s.tags \cap op.tags = {})
        /\ sent' \in Nat /\ sent' >= sent
    BY <1>2, <2>1 DEF HeldInv, StagedInv
  <2> HIDE DEF op
  <2> QED BY <1>2, <2>1, <2>2, CreateKeeps
<1> QED BY <1>1, <1>2

\* A command that is not staged later, and what becomes of the held COPY with it.
LEMMA AnsweredKeeps ==
    ASSUME WritesInv,
           \/ \E f \in Folders : Select(f)
           \/ \E verb \in {"fetch", "noop"} : Read(verb)
           \/ Local \/ Positional \/ \E us \in UidSets : Copy(us)
    PROVE  WritesInv'
<1> USE DEF WritesInv, ReadLine, Tag, c2uVars, dbVars, sessionVars, Nothing
<1>1. pc = "read" /\ pc' = "read" /\ sent' = sent + 1 /\ optimistic' = optimistic
  BY DEF Select, Read, Local, Positional, Copy
<1>2. CASE (\E f \in Folders : Select(f)) \/ (\E verb \in {"fetch", "noop"} : Read(verb)) \/ Local
  <2>1. UNCHANGED <<staged, failed, held>>
    BY <1>2 DEF Select, Read, Local
  <2> QED
    BY <1>1, <2>1 DEF StagedInv, CmdInv, HeldInv, Holding, OptimisticInv, Covered
<1>3. CASE Positional \/ \E us \in UidSets : Copy(us)
  <2>1. Flush /\ (held' = Nothing \/ held'.tag = sent + 1)
    BY <1>3 DEF Positional, Copy
  <2>2. /\ StagedInv'
        /\ \A s \in staged' : s \in staged \/ (Holding /\ s.tags = {held.tag})
        /\ \A i : Covered(i) => Covered(i)'
    BY <1>1, <2>1, FlushKeeps
  <2>3. HeldInv'
    BY <1>1, <2>1, <2>2 DEF StagedInv, HeldInv, Holding
  <2> QED BY <1>1, <2>2, <2>3 DEF CmdInv, OptimisticInv
<1> QED BY <1>2, <1>3

\* A command that is taken in hand, the held COPY with it or flushed before or kept.
LEMMA TakenKeeps ==
    ASSUME WritesInv,
           Store \/ Move \/ StageAsIs \/ \E us \in UidSets : Trash(us) \/ Rewrite(us)
    PROVE  WritesInv'
<1> USE DEF WritesInv, ReadLine, Tag, dbVars, Nothing, InHand
<1>1. /\ pc = "read" /\ pc' \in {"optimistic", "stage"} /\ sent' = sent + 1 /\ sent \in Nat
      /\ optimistic' = optimistic /\ cmd'.tag = sent + 1
  BY DEF Store, Move, StageAsIs, Trash, Rewrite, StagedInv
<1>2. CASE Flush /\ held' = Nothing /\ cmd'.tags = {sent + 1}
  <2>1. /\ StagedInv'
        /\ \A s \in staged' : s \in staged \/ (Holding /\ s.tags = {held.tag})
        /\ \A i : Covered(i) => Covered(i)'
    BY <1>1, <1>2, FlushKeeps
  <2>2. CmdInv'
    BY <1>1, <1>2, <2>1 DEF StagedInv, CmdInv, HeldInv
  <2> QED BY <1>1, <1>2, <2>1, <2>2 DEF HeldInv, Holding, OptimisticInv
<1>3. CASE UNCHANGED <<staged, failed, held>> /\ cmd'.tags = {sent + 1}
  BY <1>1, <1>3 DEF StagedInv, CmdInv, HeldInv, Holding, OptimisticInv, Covered
<1>4. CASE UNCHANGED <<staged, failed>> /\ Holding /\ held' = Nothing /\ cmd'.tags = {sent + 1, held.tag}
  BY <1>1, <1>4 DEF StagedInv, CmdInv, HeldInv, Holding, OptimisticInv, Covered
<1> QED
  BY <1>1, <1>2, <1>3, <1>4 DEF Store, Move, StageAsIs, Trash, Rewrite

\* The command in hand changes the mirror, and is staged.
LEMMA StagingKeeps ==
    ASSUME WritesInv, Staging PROVE WritesInv'
<1> USE DEF WritesInv, sessionVars, clientVars
<1>1. CASE ApplyOptimistic
  <2>1. /\ pc = "optimistic" /\ pc' = "stage" /\ UNCHANGED <<sent, held, cmd, staged, failed>>
        /\ \A c \in optimistic' : c \in optimistic \/ c.tag = cmd.tag
    BY <1>1 DEF ApplyOptimistic
  <2> QED
    BY <2>1 DEF StagedInv, CmdInv, HeldInv, Holding, OptimisticInv, Covered
<1>2. CASE Stage
  <2>1. /\ pc = "stage" /\ pc' = "read" /\ UNCHANGED <<sent, held, optimistic>>
        /\ Create(InHandOp) /\ InHandOp.tags = cmd.tags
    BY <1>2 DEF Stage, Staged, InHandOp
  <2>2. sent' \in Nat /\ sent' >= sent
    BY <2>1 DEF StagedInv
  <2>3. cmd.tag \in cmd.tags /\ cmd.tags \subseteq 1 .. sent' /\ \A s \in staged : s.tags \cap cmd.tags = {}
    BY <2>1 DEF CmdInv
  <2>4. /\ StagedInv' /\ staged' \subseteq staged \cup {InHandOp}
        /\ \A i : Covered(i) \/ i \in cmd.tags => Covered(i)'
    BY <2>1, <2>2, <2>3, CreateKeeps
  <2>5. HeldInv'
    BY <2>1, <2>4 DEF HeldInv, Holding
  <2> QED BY <2>1, <2>3, <2>4, <2>5 DEF CmdInv, OptimisticInv
<1> QED BY <1>1, <1>2 DEF Staging

\* The other task, the server and the end of the connection stage nothing.
LEMMA OthersKeep ==
    ASSUME UpstreamToClient \/ Upstream \/ ClientCloses \/ UpstreamCloses \/ UNCHANGED vars
    PROVE  UNCHANGED <<pc, cmd, sent, held, optimistic, staged, failed>>
BY DEF UpstreamToClient, Relay, Accumulate, BeginSelect, SyncFetch, SyncSelect, CacheFolderId, SyncNothing,
       Upstream, ClientCloses, UpstreamCloses, vars, sessionVars, c2uVars, u2cVars, clientVars, dbVars

\* All the steps of Next.
LEMMA StepKeeps == WritesInv /\ [Next]_vars => WritesInv'
<1> SUFFICES ASSUME WritesInv, [Next]_vars PROVE WritesInv'
  OBVIOUS
<1>1. CASE UNCHANGED <<pc, cmd, sent, held, optimistic, staged, failed>>
  BY <1>1 DEF WritesInv, StagedInv, CmdInv, HeldInv, Holding, OptimisticInv, Covered
<1>2. CASE ClientToUpstream
  BY <1>2, AnsweredKeeps, TakenKeeps DEF ClientToUpstream
<1>3. CASE Staging
  BY <1>3, StagingKeeps
<1> QED BY <1>1, <1>2, <1>3, OthersKeep DEF Next

\* The inductive invariant behind both theorems.
LEMMA WritesInvAlways == Spec => []WritesInv
BY InitHolds, StepKeeps, PTL DEF Spec

-----------------------------------------------------------------------------

\* No command is staged twice, alone or with the COPY it completes, and a change
\* in the mirror has its operation (_client_to_upstream).
THEOREM AlwaysStagedOnce == Spec => []StagedOnce
<1>1. WritesInv => StagedOnce
  <2> SUFFICES ASSUME WritesInv PROVE StagedOnce
    OBVIOUS
  <2>1. ASSUME NEW i \in Tags PROVE Cardinality({s \in staged : i \in s.tags}) <= 1
    <3>1. CASE {s \in staged : i \in s.tags} = {}
      BY <3>1, FS_EmptySet
    <3>2. CASE {s \in staged : i \in s.tags} # {}
      <4>1. PICK s \in staged : i \in s.tags
        BY <3>2
      <4>2. {t \in staged : i \in t.tags} = {s}
        BY <4>1 DEF WritesInv, StagedInv
      <4>3. Cardinality({s}) = 1
        BY FS_Singleton
      <4> QED BY <4>2, <4>3
    <3> QED BY <3>1, <3>2
  <2>2. \A c \in optimistic : \/ c.tag \in failed \cup UNION {s.tags : s \in staged}
                              \/ pc = "stage" /\ cmd.tag = c.tag
    BY DEF WritesInv, OptimisticInv, Covered
  <2> QED BY <2>1, <2>2 DEF StagedOnce
<1> QED BY <1>1, WritesInvAlways, PTL

\* A held COPY that goes is staged, refused by the database, or part of the command
\* in hand (_flush_held_copy, _client_to_upstream).
THEOREM CopyAlwaysKept == Spec => CopyIsKept
<1>1. WritesInv /\ [Next]_vars =>
          (open' /\ Holding /\ held' # held =>
               \/ held.tag \in failed' \cup UNION {s.tags : s \in staged'}
               \/ pc' = "optimistic" /\ held.tag \in cmd'.tags)
  <2> SUFFICES ASSUME WritesInv, [Next]_vars, Holding, held' # held, NEW i, i = held.tag
               PROVE  Covered(i)' \/ (pc' = "optimistic" /\ i \in cmd'.tags)
    BY DEF Covered
  <2>1. ~(UpstreamToClient \/ Upstream \/ ClientCloses \/ UpstreamCloses \/ UNCHANGED vars)
    BY OthersKeep
  <2>2. ClientToUpstream
    BY <2>1 DEF Next, Staging, ApplyOptimistic, Stage, Staged, sessionVars
  <2>3. CASE Flush
    <3>1. sent' = sent + 1
      BY <2>2 DEF ClientToUpstream, ReadLine, Tag, Select, Read, Local, Positional, Store, Move, StageAsIs,
                  Copy, Trash, Rewrite
    <3> QED BY <2>3, <3>1, FlushKeeps DEF WritesInv
  <2>4. CASE \E us \in UidSets : Rewrite(us)
    BY <2>4 DEF Rewrite, InHand
  <2> QED
    BY <2>2, <2>3, <2>4 DEF ClientToUpstream, Select, Read, Local, Positional, Store, Move, StageAsIs,
                            Copy, Trash, sessionVars
<1>2. Spec => [][Next]_vars
  BY PTL DEF Spec
<1> QED BY <1>1, <1>2, WritesInvAlways, PTL DEF CopyIsKept


-----------------------------------------------------------------------------
(* The two streams of the connection. *)

Verbs == {"select", "fetch", "noop"}
Kinds == {"exists", "fetch", "ok", "no"}

Asked == [verb : Verbs, tag : Tags, folder : MaybeFolder]
Replies == [kind : Kinds, tag : Tags \cup {NoTag}, verb : Verbs, folder : MaybeFolder]

\* What is under way between the proxy and the server.
PipeTypes ==
    /\ sent \in 0 .. MaxCommands /\ answers \in [Tags -> Nat] /\ eager \in BOOLEAN
    /\ queue \in Seq(Asked)
    /\ wire \in Seq(Replies)
    /\ folder \in MaybeFolder /\ selected \in MaybeFolder
    /\ stage \in {"recv", "sync", "stats"}

EndOfSelect(l) == l.kind = "ok" /\ l.verb = "select"

\* No SELECT is under way or answered before the first one.
SelectedOnce ==
    folder = None => /\ \A i \in DOMAIN queue : queue[i].verb # "select"
                     /\ \A i \in DOMAIN wire : wire[i].verb # "select"
                     /\ line.verb # "select"

\* As long as new mail is announced with SELECT only, an EXISTS is followed by the end
\* of the answer, and this comes next while the answer is accumulated.
NewsInv ==
    ~news =>
        /\ swallowed = {}
        /\ \A i \in DOMAIN wire : wire[i].kind = "exists" =>
               i + 1 \in DOMAIN wire /\ EndOfSelect(wire[i + 1])
        /\ stage = "sync" /\ line.kind = "exists" => wire # <<>> /\ EndOfSelect(Head(wire))
        /\ inSelect => \/ stage = "sync" /\ EndOfSelect(line)
                       \/ stage = "recv" /\ wire # <<>> /\ EndOfSelect(Head(wire))

\* The folder of the session is the one selected, and its id is cached or will be by
\* the line in hand.
Settled ==
    selected # None =>
        /\ folder = selected
        /\ \/ stage = "stats" /\ statsFolder = selected
           \/ stage = "sync" /\ EndsSelect
           \/ stage # "stats" /\ folderId \in {None, selected}

\* The last command waits for its answer.
Unanswered == pc = "read" /\ sent > 0 /\ answers[sent] = 0

Sent(verb, f) == [verb |-> verb, tag |-> sent, folder |-> f]
Now(kind, tag, verb) == [kind |-> kind, tag |-> tag, verb |-> verb, folder |-> selected]

\* The rest of an answer to a command that selects nothing.
RestOf(verb) ==
    LET ok == Now("ok", sent, verb)
        fetched == Now("fetch", NoTag, verb)
        exists == Now("exists", NoTag, verb)
    IN  IF verb = "fetch" THEN {<<Now("no", sent, verb)>>, <<ok>>, <<fetched, ok>>, <<exists, fetched, ok>>}
        ELSE {<<ok>>, <<exists, ok>>}

\* The stages of a command of a client that waits for its answer.
Nowhere == queue = <<>> /\ wire = <<>> /\ Settled
ReadAsked(verb) == queue = <<Sent(verb, None)>> /\ wire = <<>> /\ Settled
ReadAnswered(verb) == queue = <<>> /\ wire \in RestOf(verb) /\ (selected = None => Len(wire) = 1) /\ Settled
SelectAsked == folder # None /\ queue = <<Sent("select", folder)>> /\ wire = <<>>
SelectRefused == queue = <<>> /\ wire = <<Now("no", sent, "select")>> /\ selected = None
SelectAnswered ==
    /\ queue = <<>> /\ selected # None /\ folder = selected
    /\ \/ wire = <<Now("exists", NoTag, "select"), Now("ok", sent, "select")>>
       \/ /\ wire = <<Now("ok", sent, "select")>>
          /\ (stage = "recv" /\ inSelect) \/ (stage = "sync" /\ line.kind = "exists")

Stages ==
    \/ Nowhere
    \/ Unanswered /\ \/ SelectAsked \/ SelectRefused \/ SelectAnswered
                     \/ \E verb \in {"fetch", "noop"} : ReadAsked(verb) \/ ReadAnswered(verb)

\* A FETCH line in hand is of the folder selected, and only its end is to come.
FetchInHand ==
    stage = "sync" /\ line.kind = "fetch" =>
        /\ line.folder = selected /\ selected # None /\ Unanswered
        /\ queue = <<>> /\ wire = <<Now("ok", sent, "fetch")>> /\ Settled

\* A client that waits has one command under way, and the lines that are fetched are
\* of the folder whose id is cached.
WaitingInv ==
    ~eager =>
        /\ \A i \in Tags : i > sent => answers[i] = 0
        /\ Stages /\ FetchInHand
        /\ \A m \in mirror : m.rows = m.meant

SyncInv == PipeTypes /\ SelectedOnce /\ NewsInv /\ WaitingInv

-----------------------------------------------------------------------------

\* Short sequences joined.
LEMMA Joined ==
    ASSUME NEW W, NEW a \in W, NEW b \in W, NEW c \in W
    PROVE  <<a>> \o <<b>> = <<a, b>> /\ <<a>> \o <<b, c>> = <<a, b, c>>
  <1>1. ASSUME NEW s \in Seq(W), NEW t \in Seq(W), Len(s) = Len(t), \A i \in 1 .. Len(s) : s[i] = t[i]
        PROVE  s = t
    BY <1>1, SeqEqual
  <1>2. <<a>> \o <<b>> = <<a, b>>
    <2> DEFINE s == <<a>> \o <<b>>
               t == <<a, b>>
    <2>1. s \in Seq(W) /\ t \in Seq(W)
      OBVIOUS
    <2>2. Len(s) = 2 /\ s[1] = a /\ s[2] = b /\ Len(t) = 2 /\ t[1] = a /\ t[2] = b
      OBVIOUS
    <2> HIDE DEF s, t
    <2>3. s = t
      BY <1>1, <2>1, <2>2
    <2> QED BY <2>3 DEF s, t
  <1>3. <<a>> \o <<b, c>> = <<a, b, c>>
    <2> DEFINE s == <<a>> \o <<b, c>>
               t == <<a, b, c>>
    <2>1. s \in Seq(W) /\ t \in Seq(W)
      OBVIOUS
    <2>2. /\ Len(s) = 3 /\ s[1] = a /\ s[2] = b /\ s[3] = c
          /\ Len(t) = 3 /\ t[1] = a /\ t[2] = b /\ t[3] = c
      OBVIOUS
    <2> HIDE DEF s, t
    <2>3. s = t
      BY <1>1, <2>1, <2>2
    <2> QED BY <2>3 DEF s, t
  <1> QED BY <1>2, <1>3

\* What a command of the client changes of the two streams and of the session.
LEMMA CommandTaken ==
    ASSUME ClientToUpstream
    PROVE  /\ ReadLine /\ UNCHANGED <<eager, wire, selected, line, stage, statsFolder, mirror, swallowed, news>>
           /\ sent' = sent + 1 /\ pc = "read"
           /\ \/ \E f \in Folders :
                    /\ folder' = f /\ folderId' = None /\ ~inSelect'
                    /\ queue' = Append(queue, [verb |-> "select", tag |-> sent + 1, folder |-> f])
                    /\ UNCHANGED <<pc, answers>>
              \/ \E verb \in {"fetch", "noop"} :
                    /\ queue' = Append(queue, [verb |-> verb, tag |-> sent + 1, folder |-> None])
                    /\ UNCHANGED <<folder, folderId, inSelect, pc, answers>>
              \/ /\ UNCHANGED <<folder, inSelect, queue>>
                 /\ folderId' = folderId \/ (folderId = None /\ folderId' = folder)
                 /\ answers' \in {answers, [answers EXCEPT ![sent + 1] = @ + 1]}
  <1> USE DEF Tag, ReadLine, c2uVars, u2cVars, upstreamVars, dbVars, sessionVars, histVars
  <1>1. CASE \E f \in Folders : Select(f)
    BY <1>1 DEF Select, Forward
  <1>2. CASE \E verb \in {"fetch", "noop"} : Read(verb)
    BY <1>2 DEF Read, Forward
  <1>3. CASE Local \/ Positional \/ \E us \in UidSets : Copy(us)
    BY <1>3 DEF Local, Positional, Copy, Answer
  <1>4. CASE Store \/ Move \/ StageAsIs
    BY <1>4 DEF Store, Move, StageAsIs, TakeFolderId
  <1>5. CASE \E us \in UidSets : Trash(us) \/ Rewrite(us)
    BY <1>5 DEF Trash, Rewrite, TakeFolderId
  <1> QED BY <1>1, <1>2, <1>3, <1>4, <1>5 DEF ClientToUpstream

\* What staging changes: a command is answered at most.
LEMMA StagingAnswers ==
    ASSUME Staging
    PROVE  /\ pc # "read" /\ UNCHANGED <<sessionVars, u2cVars, upstreamVars, eager, sent, mirror, swallowed, news>>
           /\ answers' \in {answers, [answers EXCEPT ![cmd.tag] = @ + 1]}
  <1>1. CASE ApplyOptimistic
    BY <1>1 DEF ApplyOptimistic, clientVars, histVars
  <1>2. CASE Stage
    BY <1>2 DEF Stage, Staged, Answer
  <1> QED BY <1>1, <1>2 DEF Staging

\* What the server answers to the first command.
LEMMA ServerAnswers ==
    ASSUME PipeTypes, Upstream
    PROVE  /\ UNCHANGED <<sessionVars, pc, cmd, u2cVars, clientVars, mirror, swallowed>>
           /\ queue # <<>> /\ queue' = Tail(queue)
           /\ news => news'
           /\ \E c, more :
                /\ c = Head(queue) /\ c \in Asked /\ more \in Seq(Replies) /\ wire' = wire \o more
                /\ \/ /\ c.verb = "select" /\ selected' = c.folder
                      /\ more = <<Line("exists", NoTag, c.verb), Line("ok", c.tag, c.verb)>>
                   \/ /\ c.verb = "select" /\ selected' = None /\ more = <<Line("no", c.tag, c.verb)>>
                   \/ /\ c.verb \in {"fetch", "noop"} /\ selected' = selected
                      /\ \/ more = <<Line("no", c.tag, c.verb)>> /\ c.verb = "fetch"
                         \/ more = <<Line("ok", c.tag, c.verb)>>
                         \/ more = <<Line("fetch", NoTag, c.verb), Line("ok", c.tag, c.verb)>>
                              /\ selected # None /\ c.verb = "fetch"
                         \/ /\ more = <<Line("exists", NoTag, c.verb), Line("ok", c.tag, c.verb)>>
                            /\ c.verb = "noop" /\ selected # None /\ news'
                         \/ /\ more = <<Line("exists", NoTag, c.verb), Line("fetch", NoTag, c.verb),
                                        Line("ok", c.tag, c.verb)>>
                            /\ c.verb = "fetch" /\ selected # None /\ news'
  <1> DEFINE c == Head(queue)
             ok == <<Line("ok", c.tag, c.verb)>>
             no == <<Line("no", c.tag, c.verb)>>
             exists == <<Line("exists", NoTag, c.verb)>>
             fetched == <<Line("fetch", NoTag, c.verb)>>
  <1>1. /\ queue # <<>> /\ queue' = Tail(queue) /\ c.verb \in Verbs
        /\ UNCHANGED <<sessionVars, pc, cmd, u2cVars, clientVars, mirror, swallowed>> /\ (news => news')
    <2>1. queue # <<>> /\ queue' = Tail(queue) /\ (news => news')
      BY DEF Upstream
    <2>2. UNCHANGED <<sessionVars, pc, cmd, u2cVars, clientVars, mirror, swallowed>>
      BY DEF Upstream, c2uVars, dbVars
    <2>3. c \in Asked
      <3>1. queue \in Seq(Asked)
        BY DEF PipeTypes
      <3> QED BY <2>1, <3>1, HeadTailProperties
    <2> QED BY <2>1, <2>2, <2>3 DEF Asked
  <1>2. wire \in Seq(Replies)
    BY DEF PipeTypes
  <1>3. \/ c.verb = "select" /\ selected' = c.folder /\ wire' = wire \o exists \o ok
        \/ c.verb = "select" /\ selected' = None /\ wire' = wire \o no
        \/ /\ c.verb = "fetch" /\ selected' = selected
           /\ wire' \in IF selected = None THEN {wire \o no}
                        ELSE {wire \o fetched \o ok, wire \o exists \o fetched \o ok}
        \/ /\ c.verb = "noop" /\ selected' = selected
           /\ wire' \in IF selected = None THEN {wire \o ok}
                        ELSE {wire \o ok, wire \o exists \o ok}
    BY <1>1 DEF Upstream, Verbs
  <1>4. /\ wire \o exists \o ok = wire \o <<Line("exists", NoTag, c.verb), Line("ok", c.tag, c.verb)>>
        /\ wire \o fetched \o ok = wire \o <<Line("fetch", NoTag, c.verb), Line("ok", c.tag, c.verb)>>
        /\ wire \o exists \o fetched \o ok =
              wire \o <<Line("exists", NoTag, c.verb), Line("fetch", NoTag, c.verb), Line("ok", c.tag, c.verb)>>
        /\ Line("exists", NoTag, c.verb) \in Replies /\ Line("fetch", NoTag, c.verb) \in Replies
        /\ Line("ok", c.tag, c.verb) \in Replies /\ Line("no", c.tag, c.verb) \in Replies
        /\ c \in Asked
    <2>1. c \in Asked /\ selected \in MaybeFolder
      <3>1. queue \in Seq(Asked) /\ selected \in MaybeFolder
        BY DEF PipeTypes
      <3> QED BY <1>1, <3>1, HeadTailProperties
    <2>2. selected' \in MaybeFolder
      BY <1>3, <2>1 DEF MaybeFolder, Asked
    <2>3. /\ Line("exists", NoTag, c.verb) \in Replies /\ Line("fetch", NoTag, c.verb) \in Replies
          /\ Line("ok", c.tag, c.verb) \in Replies /\ Line("no", c.tag, c.verb) \in Replies
      BY <2>1, <2>2 DEF Line, Kinds, Asked, Replies
    <2>4. ASSUME NEW e \in Replies, NEW f \in Replies, NEW o \in Replies
          PROVE  /\ wire \o <<e>> \o <<o>> = wire \o <<e, o>>
                 /\ wire \o <<e>> \o <<f>> \o <<o>> = wire \o <<e, f, o>>
      <3>1. wire \in Seq(Replies) /\ <<e>> \in Seq(Replies) /\ <<f>> \in Seq(Replies) /\ <<o>> \in Seq(Replies)
        BY <1>2
      <3>2. /\ <<f>> \o <<o>> = <<f, o>> /\ <<e>> \o <<o>> = <<e, o>>
            /\ <<e>> \o <<f, o>> = <<e, f, o>>
        BY Joined
      <3>7. <<f, o>> \in Seq(Replies)
        OBVIOUS
      <3>3. wire \o <<e>> \in Seq(Replies)
        BY <3>1, ConcatProperties
      <3>4. wire \o <<e>> \o <<o>> = wire \o (<<e>> \o <<o>>)
        BY <3>1, ConcatAssociative
      <3>5. wire \o <<e>> \o <<f>> \o <<o>> = wire \o <<e>> \o (<<f>> \o <<o>>)
        BY <3>1, <3>3, ConcatAssociative
      <3>6. wire \o <<e>> \o <<f, o>> = wire \o (<<e>> \o <<f, o>>)
        BY <3>1, <3>7, ConcatAssociative
      <3> QED BY <3>2, <3>4, <3>5, <3>6
    <2> QED BY <2>1, <2>3, <2>4
  <1>5. ASSUME c.verb # "select", wire' = wire \o exists \o ok \/ wire' = wire \o exists \o fetched \o ok
        PROVE  news'
    <2> DEFINE e == Line("exists", NoTag, c.verb)
    <2>0. \E rest : rest \in {<<e, Line("ok", c.tag, c.verb)>>, <<e, Line("fetch", NoTag, c.verb), Line("ok", c.tag, c.verb)>>}
                    /\ wire' = wire \o rest
      BY <1>4, <1>5
    <2> HIDE DEF e
    <2>1. Len(wire) + 1 \in DOMAIN wire' \ DOMAIN wire /\ wire'[Len(wire) + 1] = e
      <3>1. PICK rest : rest \in {<<e, Line("ok", c.tag, c.verb)>>, <<e, Line("fetch", NoTag, c.verb), Line("ok", c.tag, c.verb)>>}
                    /\ wire' = wire \o rest
        BY <2>0
      <3>2. Len(rest) >= 2 /\ rest[1] = e /\ Len(rest) \in Nat
        <4> DEFINE o == Line("ok", c.tag, c.verb)
                   f == Line("fetch", NoTag, c.verb)
        <4> HIDE DEF o, f
        <4>1. rest = <<e, o>> \/ rest = <<e, f, o>>
          BY <3>1 DEF o, f
        <4> QED BY <4>1
      <3>3. Len(wire') = Len(wire) + Len(rest) /\ wire'[Len(wire) + 1] = rest[1] /\ Len(wire) \in Nat
            /\ DOMAIN wire' = 1 .. Len(wire) + Len(rest) /\ DOMAIN wire = 1 .. Len(wire)
        BY <1>2, <3>1
      <3> QED BY <3>2, <3>3
    <2>2. wire'[Len(wire) + 1].kind = "exists" /\ wire'[Len(wire) + 1].verb # "select"
      BY <1>5, <2>1 DEF Line, e
    <2> QED BY <2>1, <2>2 DEF Upstream
  <1> HIDE DEF c, ok, no, exists, fetched
  <1>6. \E more :
                /\ wire' = wire \o more
                /\ \/ /\ c.verb = "select" /\ selected' = c.folder
                      /\ more = <<Line("exists", NoTag, c.verb), Line("ok", c.tag, c.verb)>>
                   \/ /\ c.verb = "select" /\ selected' = None /\ more = <<Line("no", c.tag, c.verb)>>
                   \/ /\ c.verb \in {"fetch", "noop"} /\ selected' = selected
                      /\ \/ more = <<Line("no", c.tag, c.verb)>> /\ c.verb = "fetch"
                         \/ more = <<Line("ok", c.tag, c.verb)>>
                         \/ more = <<Line("fetch", NoTag, c.verb), Line("ok", c.tag, c.verb)>>
                              /\ selected # None /\ c.verb = "fetch"
                         \/ /\ more = <<Line("exists", NoTag, c.verb), Line("ok", c.tag, c.verb)>>
                            /\ c.verb = "noop" /\ selected # None /\ news'
                         \/ /\ more = <<Line("exists", NoTag, c.verb), Line("fetch", NoTag, c.verb),
                                        Line("ok", c.tag, c.verb)>>
                            /\ c.verb = "fetch" /\ selected # None /\ news'
    BY <1>3, <1>4, <1>5 DEF ok, no, exists, fetched
  <1>7. Line("exists", NoTag, c.verb) \in Replies /\ Line("fetch", NoTag, c.verb) \in Replies
        /\ Line("ok", c.tag, c.verb) \in Replies /\ Line("no", c.tag, c.verb) \in Replies
    BY <1>4
  <1>8. \A x, y, z \in Replies : <<x>> \in Seq(Replies) /\ <<x, y>> \in Seq(Replies) /\ <<x, y, z>> \in Seq(Replies)
    OBVIOUS
  <1>9. c \in Asked
    BY <1>4
  <1> QED BY <1>1, <1>6, <1>7, <1>8, <1>9 DEF c

\* Nobody else touches the two streams but the task that relays.
LEMMA LineTaken ==
    ASSUME UpstreamToClient
    PROVE  /\ UNCHANGED <<eager, sent, pc, cmd, folder, queue, selected, news>>
           /\ \/ /\ stage = "recv" /\ stage' = "sync" /\ wire # <<>> /\ line' = Head(wire) /\ wire' = Tail(wire)
                 /\ answers' = IF Tagged(Head(wire)) THEN [answers EXCEPT ![Head(wire).tag] = @ + 1] ELSE answers
                 /\ UNCHANGED <<folderId, inSelect, statsFolder, mirror, swallowed>>
              \/ /\ stage = "sync" /\ UNCHANGED <<wire, answers, line, folderId>>
                 /\ \/ /\ stage' = "recv" /\ ~Tagged(line) /\ inSelect /\ inSelect' = inSelect
                       /\ swallowed' = IF line.kind = "fetch" THEN swallowed \cup {line.folder} ELSE swallowed
                       /\ UNCHANGED mirror
                    \/ /\ stage' = "recv" /\ line.kind = "exists" /\ ~inSelect /\ inSelect'
                       /\ UNCHANGED <<mirror, swallowed>>
                    \/ /\ stage' = "recv" /\ line.kind = "fetch" /\ ~inSelect /\ ~inSelect'
                       /\ mirror' = IF folderId = None THEN mirror
                                    ELSE mirror \cup {[rows |-> folderId, meant |-> line.folder]}
                       /\ UNCHANGED <<swallowed>>
                    \/ /\ stage' = "stats" /\ EndsSelect /\ ~inSelect' /\ statsFolder' = folder
                       /\ UNCHANGED <<mirror, swallowed>>
                    \/ /\ stage' = "recv" /\ Tagged(line) /\ ~EndsSelect
                       /\ UNCHANGED <<inSelect, mirror, swallowed>>
              \/ /\ stage = "stats" /\ stage' = "recv" /\ folderId' = statsFolder
                 /\ UNCHANGED <<wire, answers, line, inSelect, mirror, swallowed>>
  <1> USE DEF sessionVars, c2uVars, upstreamVars, clientVars, dbVars, histVars
  <1>1. CASE Relay
    BY <1>1 DEF Relay, Answer
  <1>2. CASE Accumulate \/ BeginSelect \/ SyncFetch
    BY <1>2 DEF Accumulate, BeginSelect, SyncFetch, Tagged
  <1>3. CASE SyncSelect \/ SyncNothing \/ CacheFolderId
    BY <1>3 DEF SyncSelect, SyncNothing, CacheFolderId, EndsSelect
  <1> QED BY <1>1, <1>2, <1>3 DEF UpstreamToClient

\* Nothing is under way.
LEMMA SyncInit == Init => SyncInv
  <1> SUFFICES ASSUME Init PROVE SyncInv
    OBVIOUS
  <1>1. PipeTypes
    BY SessionAssumption DEF Init, PipeTypes, MaybeFolder, Tags
  <1>2. SelectedOnce /\ NewsInv
    BY DEF Init, SelectedOnce, NewsInv, NoLine, None
  <1>3. WaitingInv
    BY DEF Init, WaitingInv, Stages, FetchInHand, Nowhere, Settled, NoLine, None
  <1> QED BY <1>1, <1>2, <1>3 DEF SyncInv

\* One answer more.
LEMMA OneAnswerMore ==
    ASSUME answers \in [Tags -> Nat], NEW i, answers' \in {answers, [answers EXCEPT ![i] = @ + 1]}
    PROVE  answers' \in [Tags -> Nat]
  OBVIOUS

\* The lines and commands under way keep their types.
LEMMA TypesStep == ASSUME PipeTypes, [Next]_vars PROVE PipeTypes'
  <1>1. CASE UNCHANGED <<sent, answers, eager, queue, wire, folder, selected, stage>>
    BY <1>1 DEF PipeTypes
  <1>2. CASE ClientToUpstream
    <2>1. /\ ReadLine /\ UNCHANGED <<eager, wire, selected, stage>> /\ sent' = sent + 1
          /\ answers' \in {answers, [answers EXCEPT ![sent + 1] = @ + 1]}
          /\ folder' \in MaybeFolder
          /\ \/ queue' = queue
             \/ \E verb \in Verbs, f \in MaybeFolder :
                    queue' = Append(queue, [verb |-> verb, tag |-> sent + 1, folder |-> f])
      BY <1>2, CommandTaken DEF PipeTypes, MaybeFolder, Verbs
    <2>2. sent' \in 0 .. MaxCommands /\ sent + 1 \in Tags
      BY <2>1, SessionAssumption DEF PipeTypes, ReadLine, Tags
    <2>3. answers' \in [Tags -> Nat]
      BY <2>1, OneAnswerMore DEF PipeTypes
    <2>4. queue' \in Seq(Asked)
      <3>1. queue \in Seq(Asked)
        BY DEF PipeTypes
      <3>2. \A verb \in Verbs, f \in MaybeFolder : [verb |-> verb, tag |-> sent + 1, folder |-> f] \in Asked
        BY <2>2 DEF Asked
        <3>3. \E c \in Asked : queue' \in {queue, Append(queue, c)}
        <4>1. CASE queue' = queue
          <5>1. [verb |-> "fetch", tag |-> sent + 1, folder |-> None] \in Asked
            BY <3>2 DEF Verbs, MaybeFolder
          <5> QED BY <4>1, <5>1
        <4>2. CASE queue' # queue
          <5>1. PICK verb \in Verbs, f \in MaybeFolder :
                    queue' = Append(queue, [verb |-> verb, tag |-> sent + 1, folder |-> f])
            BY <2>1, <4>2
          <5> QED BY <3>2, <5>1
        <4> QED BY <4>1, <4>2
      <3> QED BY <3>1, <3>3, AppendProperties
    <2> QED BY <2>1, <2>2, <2>3, <2>4 DEF PipeTypes
  <1>3. CASE Staging
    <2>1. answers' \in [Tags -> Nat]
      BY <1>3, StagingAnswers, OneAnswerMore DEF PipeTypes
    <2>2. UNCHANGED <<sent, eager, queue, wire, folder, selected, stage>>
      BY <1>3, StagingAnswers DEF sessionVars, upstreamVars, u2cVars
    <2> QED BY <2>1, <2>2 DEF PipeTypes
  <1>4. CASE Upstream
    <2>1. /\ queue # <<>> /\ queue' = Tail(queue) /\ queue \in Seq(Asked) /\ wire \in Seq(Replies)
          /\ UNCHANGED <<sent, answers, eager, folder, stage>>
      BY <1>4, ServerAnswers DEF PipeTypes, sessionVars, u2cVars, clientVars
    <2>2. Head(queue) \in Asked /\ queue' \in Seq(Asked)
      BY <2>1, HeadTailProperties
    <2>3. PICK c, more :
             /\ c \in Asked /\ more \in Seq(Replies) /\ wire' = wire \o more
             /\ selected' \in {c.folder, None, selected}
      <3>1. PICK c, more :
             /\ c \in Asked /\ more \in Seq(Replies) /\ wire' = wire \o more
             /\ \/ c.verb = "select" /\ selected' = c.folder
                \/ c.verb = "select" /\ selected' = None
                \/ c.verb \in {"fetch", "noop"} /\ selected' = selected
        BY <1>4, ServerAnswers
      <3> QED BY <3>1
    <2>4. selected' \in MaybeFolder
      BY <2>3 DEF PipeTypes, MaybeFolder, Asked
    <2>6. wire' \in Seq(Replies)
      BY <2>1, <2>3, ConcatProperties
    <2> QED BY <2>1, <2>2, <2>4, <2>6 DEF PipeTypes
  <1>5. CASE UpstreamToClient
    <2>1. /\ UNCHANGED <<eager, sent, folder, queue, selected>> /\ stage' \in {"recv", "sync", "stats"}
          /\ \/ /\ wire # <<>> /\ wire' = Tail(wire)
                /\ answers' \in {answers, [answers EXCEPT ![Head(wire).tag] = @ + 1]}
             \/ UNCHANGED <<wire, answers>>
      BY <1>5, LineTaken
    <2>2. wire \in Seq(Replies)
      BY DEF PipeTypes
    <2>3. wire' \in Seq(Replies)
      BY <2>1, <2>2, HeadTailProperties
    <2>4. answers' \in [Tags -> Nat]
      BY <2>1, OneAnswerMore DEF PipeTypes
    <2> QED BY <2>1, <2>3, <2>4 DEF PipeTypes
  <1>6. CASE ClientCloses \/ UpstreamCloses \/ UNCHANGED vars
    BY <1>1, <1>6 DEF ClientCloses, UpstreamCloses, vars, clientVars, upstreamVars, sessionVars, u2cVars
  <1> QED BY <1>2, <1>3, <1>4, <1>5, <1>6 DEF Next

\* The first SELECT of the session is the first that the server sees.
LEMMA OnceStep == ASSUME PipeTypes, SelectedOnce, [Next]_vars PROVE SelectedOnce'
  <1>0. queue \in Seq(Asked) /\ wire \in Seq(Replies)
    BY DEF PipeTypes
  <1>1. CASE UNCHANGED <<queue, wire, folder, line>>
    BY <1>1 DEF SelectedOnce
  <1>2. CASE ClientToUpstream
    <2>1. CASE \E f \in Folders : folder' = f
      BY <2>1, SessionAssumption DEF SelectedOnce
    <2>2. CASE folder' = folder /\ queue' = queue
      BY <1>1, <1>2, <2>2, CommandTaken
    <2>3. CASE folder' = folder /\ \E verb \in {"fetch", "noop"} :
                   queue' = Append(queue, [verb |-> verb, tag |-> sent + 1, folder |-> None])
      <3>1. PICK verb \in {"fetch", "noop"} :
                   queue' = Append(queue, [verb |-> verb, tag |-> sent + 1, folder |-> None])
        BY <2>3
      <3>2. \A i \in DOMAIN queue' : queue'[i].verb = verb \/ (i \in DOMAIN queue /\ queue'[i] = queue[i])
        BY <1>0, <3>1
      <3> QED BY <1>2, <2>3, <3>1, <3>2, CommandTaken DEF SelectedOnce
    <2> QED BY <1>2, <2>1, <2>2, <2>3, CommandTaken
  <1>3. CASE Staging
    BY <1>1, <1>3, StagingAnswers DEF sessionVars, u2cVars, upstreamVars
  <1>4. CASE Upstream
    <2>1. /\ queue # <<>> /\ queue' = Tail(queue) /\ UNCHANGED <<folder, line>>
      BY <1>4, ServerAnswers DEF sessionVars, u2cVars
    <2>2. PICK c, more :
                /\ c = Head(queue) /\ wire' = wire \o more /\ more \in Seq(Replies)
                /\ \A i \in 1 .. Len(more) : more[i].verb = c.verb
      <3>1. PICK c, more :
                /\ c = Head(queue) /\ wire' = wire \o more /\ more \in Seq(Replies)
                /\ more \in {<<Line("exists", NoTag, c.verb), Line("ok", c.tag, c.verb)>>,
                             <<Line("no", c.tag, c.verb)>>, <<Line("ok", c.tag, c.verb)>>,
                             <<Line("fetch", NoTag, c.verb), Line("ok", c.tag, c.verb)>>,
                             <<Line("exists", NoTag, c.verb), Line("fetch", NoTag, c.verb),
                               Line("ok", c.tag, c.verb)>>}
        BY <1>4, ServerAnswers
      <3>2. \A i \in 1 .. Len(more) : more[i].verb = c.verb
        <4>1. \A kind, tag : Line(kind, tag, c.verb).verb = c.verb
          BY DEF Line
        <4> DEFINE e == Line("exists", NoTag, c.verb)
                   f == Line("fetch", NoTag, c.verb)
                   o == Line("ok", c.tag, c.verb)
                   n == Line("no", c.tag, c.verb)
        <4>2. e.verb = c.verb /\ f.verb = c.verb /\ o.verb = c.verb /\ n.verb = c.verb
          BY <4>1
        <4>3. more \in {<<e, o>>, <<n>>, <<o>>, <<f, o>>, <<e, f, o>>}
          BY <3>1
        <4> HIDE DEF e, f, o, n
        <4> QED BY <4>2, <4>3
      <3> QED BY <3>1, <3>2
    <2>3. c = queue[1] /\ \A i \in DOMAIN queue' : i + 1 \in DOMAIN queue /\ queue'[i] = queue[i + 1]
      BY <1>0, <2>1, <2>2
    <2>4. \A i \in DOMAIN wire' : (i \in DOMAIN wire /\ wire'[i] = wire[i]) \/ wire'[i].verb = c.verb
      <3>1. /\ DOMAIN wire = 1 .. Len(wire) /\ DOMAIN wire' = 1 .. Len(wire) + Len(more)
            /\ Len(wire) \in Nat /\ Len(more) \in Nat
            /\ \A i \in 1 .. Len(wire) + Len(more) :
                   wire'[i] = IF i <= Len(wire) THEN wire[i] ELSE more[i - Len(wire)]
        BY <1>0, <2>2, ConcatProperties, LenProperties
      <3> TAKE i \in DOMAIN wire'
      <3>2. CASE i <= Len(wire)
        BY <3>1, <3>2
      <3>3. CASE i > Len(wire)
        <4>1. i - Len(wire) \in 1 .. Len(more) /\ wire'[i] = more[i - Len(wire)]
          BY <3>1, <3>3
        <4> QED BY <2>2, <4>1
      <3> QED BY <3>1, <3>2, <3>3
    <2>5. 1 \in DOMAIN queue
      BY <1>0, <2>1
    <2> QED BY <2>1, <2>3, <2>4, <2>5 DEF SelectedOnce
  <1>5. CASE UpstreamToClient
    <2>1. UNCHANGED <<folder, queue>> /\ (UNCHANGED <<wire, line>> \/
              (wire # <<>> /\ line' = Head(wire) /\ wire' = Tail(wire)))
      BY <1>5, LineTaken
    <2>2. CASE wire # <<>> /\ line' = Head(wire) /\ wire' = Tail(wire)
      <3>1. /\ 1 \in DOMAIN wire /\ line' = wire[1]
            /\ \A i \in DOMAIN wire' : i + 1 \in DOMAIN wire /\ wire'[i] = wire[i + 1]
        BY <1>0, <2>2
      <3> QED BY <2>1, <3>1 DEF SelectedOnce
    <2> QED BY <1>1, <2>1, <2>2
  <1>6. CASE ClientCloses \/ UpstreamCloses \/ UNCHANGED vars
    BY <1>1, <1>6 DEF ClientCloses, UpstreamCloses, vars, clientVars, upstreamVars, sessionVars, u2cVars
  <1> QED BY <1>2, <1>3, <1>4, <1>5, <1>6 DEF Next

\* What is taken for the answer to a SELECT ends with it.
LEMMA NewsStep == ASSUME PipeTypes, SelectedOnce, NewsInv, [Next]_vars PROVE NewsInv'
  <1> DEFINE Ended(w) == \A i \in DOMAIN w : w[i].kind = "exists" => i + 1 \in DOMAIN w /\ EndOfSelect(w[i + 1])
  <1>0. wire \in Seq(Replies) /\ queue \in Seq(Asked)
    BY DEF PipeTypes
  <1>1. CASE UNCHANGED <<news, swallowed, wire, stage, line, inSelect>>
    BY <1>1 DEF NewsInv, EndOfSelect
  <1>2. CASE ClientToUpstream
    <2>1. UNCHANGED <<news, swallowed, wire, stage, line>> /\ (inSelect' => inSelect)
      <3>1. UNCHANGED <<news, swallowed, wire, stage, line>>
        BY <1>2, CommandTaken
      <3>2. ~inSelect' \/ inSelect' = inSelect
        BY <1>2, CommandTaken
      <3> QED BY <3>1, <3>2
    <2> QED BY <2>1 DEF NewsInv, EndOfSelect
  <1>3. CASE Staging
    BY <1>1, <1>3, StagingAnswers DEF sessionVars, u2cVars, upstreamVars
  <1>4. CASE Upstream
    <2> SUFFICES ASSUME ~news' PROVE NewsInv'
      BY DEF NewsInv
    <2>1. ~news /\ UNCHANGED <<swallowed, stage, line, inSelect>>
      BY <1>4, ServerAnswers DEF sessionVars, u2cVars
    <2>2. Ended(wire)
      BY <2>1 DEF NewsInv
    <2>3. PICK more \in Seq(Replies) : wire' = wire \o more /\ Ended(more)
      <3>1. PICK c, more :
                /\ more \in Seq(Replies) /\ wire' = wire \o more
                /\ \/ /\ c.verb = "select"
                      /\ more = <<Line("exists", NoTag, c.verb), Line("ok", c.tag, c.verb)>>
                   \/ more \in {<<Line("no", c.tag, c.verb)>>, <<Line("ok", c.tag, c.verb)>>,
                                <<Line("fetch", NoTag, c.verb), Line("ok", c.tag, c.verb)>>}
        BY <1>4, ServerAnswers
      <3> DEFINE e == Line("exists", NoTag, c.verb)
                 f == Line("fetch", NoTag, c.verb)
                 o == Line("ok", c.tag, c.verb)
                 n == Line("no", c.tag, c.verb)
      <3>2. f.kind # "exists" /\ o.kind # "exists" /\ n.kind # "exists" /\ (c.verb = "select" => EndOfSelect(o))
        BY DEF Line, EndOfSelect
      <3>3. (c.verb = "select" /\ more = <<e, o>>) \/ more \in {<<n>>, <<o>>, <<f, o>>}
        BY <3>1
      <3> HIDE DEF e, f, o, n
      <3>4. CASE c.verb = "select" /\ more = <<e, o>>
        <4>1. DOMAIN more = {1, 2} /\ more[1] = e /\ more[2] = o
          BY <3>4
        <4>2. more[1].kind = "exists" => 1 + 1 \in DOMAIN more /\ EndOfSelect(more[1 + 1])
          BY <3>2, <3>4, <4>1
        <4>3. more[2].kind # "exists"
          BY <3>2, <4>1
        <4> QED BY <3>1, <4>1, <4>2, <4>3
      <3>5. CASE more \in {<<n>>, <<o>>, <<f, o>>}
        BY <3>1, <3>2, <3>5
      <3> QED BY <3>3, <3>4, <3>5
    <2>4. Ended(wire') /\ (wire # <<>> => wire' # <<>> /\ Head(wire') = Head(wire))
      <3>1. /\ DOMAIN wire = 1 .. Len(wire) /\ DOMAIN wire' = 1 .. Len(wire) + Len(more) /\ DOMAIN more = 1 .. Len(more)
            /\ Len(wire) \in Nat /\ Len(more) \in Nat /\ wire' \in Seq(Replies) /\ Len(wire') = Len(wire) + Len(more)
            /\ \A i \in 1 .. Len(wire) + Len(more) :
                   wire'[i] = IF i <= Len(wire) THEN wire[i] ELSE more[i - Len(wire)]
        BY <1>0, <2>3, ConcatProperties, LenProperties
      <3>2. ASSUME NEW i \in DOMAIN wire', wire'[i].kind = "exists"
            PROVE  i + 1 \in DOMAIN wire' /\ EndOfSelect(wire'[i + 1])
        <4>1. CASE i <= Len(wire)
          <5>1. i \in DOMAIN wire /\ wire[i].kind = "exists"
            BY <3>1, <3>2, <4>1
          <5>2. i + 1 \in DOMAIN wire /\ EndOfSelect(wire[i + 1])
            BY <2>2, <5>1
          <5>3. i + 1 \in DOMAIN wire' /\ wire'[i + 1] = wire[i + 1]
            BY <3>1, <5>2
          <5> QED BY <5>2, <5>3
        <4>2. CASE i > Len(wire)
          <5> DEFINE j == i - Len(wire)
          <5>1. j \in DOMAIN more /\ wire'[i] = more[j]
            BY <3>1, <4>2
          <5>2. j + 1 \in DOMAIN more /\ EndOfSelect(more[j + 1])
            BY <2>3, <3>2, <5>1
          <5>3. i + 1 \in DOMAIN wire' /\ wire'[i + 1] = more[j + 1]
            BY <3>1, <4>2, <5>2
          <5> QED BY <5>2, <5>3
        <4> QED BY <3>1, <4>1, <4>2
      <3>3. wire # <<>> => wire' # <<>> /\ Head(wire') = Head(wire)
        <4>1. wire # <<>> => Len(wire) >= 1
          BY <1>0
        <4>2. wire # <<>> => wire'[1] = wire[1] /\ Len(wire') >= 1
          BY <3>1, <4>1
        <4> QED BY <1>0, <3>1, <4>2
      <3> QED BY <3>2, <3>3
    <2> QED BY <2>1, <2>4 DEF NewsInv
  <1>5. CASE UpstreamToClient
    <2> SUFFICES ASSUME ~news' PROVE NewsInv'
      BY DEF NewsInv
    <2>0. ~news
      BY <1>5, LineTaken
    <2>1. CASE /\ stage = "recv" /\ stage' = "sync" /\ wire # <<>> /\ line' = Head(wire) /\ wire' = Tail(wire)
               /\ UNCHANGED <<inSelect, swallowed>>
      <3>1. /\ 1 \in DOMAIN wire /\ line' = wire[1] /\ wire' \in Seq(Replies) /\ Len(wire) \in Nat
            /\ DOMAIN wire = 1 .. Len(wire) /\ DOMAIN wire' = 1 .. Len(wire) - 1
            /\ \A i \in DOMAIN wire' : i + 1 \in DOMAIN wire /\ wire'[i] = wire[i + 1]
            /\ wire' # <<>> => Head(wire') = wire'[1]
        BY <1>0, <2>1
      <3>2. Ended(wire')
        <4> SUFFICES ASSUME NEW i \in DOMAIN wire', wire'[i].kind = "exists"
                     PROVE  i + 1 \in DOMAIN wire' /\ EndOfSelect(wire'[i + 1])
          OBVIOUS
        <4>1. i + 1 \in DOMAIN wire /\ wire[i + 1].kind = "exists"
          BY <3>1
        <4>2. (i + 1) + 1 \in DOMAIN wire /\ EndOfSelect(wire[(i + 1) + 1])
          BY <2>0, <4>1 DEF NewsInv
        <4>3. i + 1 \in DOMAIN wire' /\ wire'[i + 1] = wire[(i + 1) + 1]
          BY <3>1, <4>2
        <4> QED BY <4>2, <4>3
      <3>3. line'.kind = "exists" => wire' # <<>> /\ EndOfSelect(Head(wire'))
        <4> SUFFICES ASSUME wire[1].kind = "exists" PROVE wire' # <<>> /\ EndOfSelect(Head(wire'))
          BY <3>1
        <4>1. 1 + 1 \in DOMAIN wire /\ EndOfSelect(wire[1 + 1])
          BY <2>0, <3>1 DEF NewsInv
        <4>2. 1 \in DOMAIN wire' /\ wire'[1] = wire[1 + 1]
          BY <3>1, <4>1
        <4>3. wire' # <<>>
          BY <4>2
        <4> QED BY <3>1, <4>1, <4>2, <4>3
      <3>4. inSelect => EndOfSelect(line')
        BY <2>0, <2>1 DEF NewsInv
      <3>5. swallowed = {}
        BY <2>0 DEF NewsInv
      <3> QED BY <2>1, <3>2, <3>3, <3>4, <3>5 DEF NewsInv, EndOfSelect
    <2>2. CASE stage = "sync" /\ UNCHANGED <<wire, line>>
      <3>1. line.kind = "exists" => wire # <<>> /\ EndOfSelect(Head(wire))
        BY <2>0, <2>2 DEF NewsInv
      <3>2. inSelect => EndOfSelect(line)
        BY <2>0, <2>2 DEF NewsInv
      <3>3. inSelect => EndsSelect
        BY <3>2 DEF SelectedOnce, EndOfSelect, EndsSelect
      <3>4. stage' # "sync" /\ swallowed' = swallowed /\ (inSelect' => line.kind = "exists" /\ stage' = "recv")
        BY <1>5, <2>2, <3>2, <3>3, LineTaken DEF Tagged, EndOfSelect
      <3> QED BY <2>0, <2>2, <3>1, <3>4 DEF NewsInv, EndOfSelect
    <2>3. CASE stage = "stats" /\ stage' = "recv" /\ UNCHANGED <<wire, line, inSelect, swallowed>>
      BY <2>0, <2>3 DEF NewsInv
    <2> QED BY <1>5, <2>1, <2>2, <2>3, LineTaken
  <1>6. CASE ClientCloses \/ UpstreamCloses \/ UNCHANGED vars
    BY <1>1, <1>6 DEF ClientCloses, UpstreamCloses, vars, upstreamVars, sessionVars, u2cVars, histVars, dbVars
  <1> QED BY <1>2, <1>3, <1>4, <1>5, <1>6 DEF Next

\* The folder whose id is cached is the one selected, whatever line comes in.
LEMMA SettledStep == ASSUME Settled, UpstreamToClient PROVE Settled'
  <1> SUFFICES ASSUME selected # None PROVE Settled'
    BY LineTaken DEF Settled
  <1>1. folder = selected /\ UNCHANGED <<folder, selected>>
    BY LineTaken DEF Settled
  <1>2. CASE stage = "recv" /\ stage' = "sync" /\ folderId' = folderId
    BY <1>1, <1>2 DEF Settled
  <1>3. CASE stage = "sync" /\ folderId' = folderId
    <2>1. \/ stage' = "recv" /\ ~EndsSelect
          \/ stage' = "stats" /\ statsFolder' = folder
      BY <1>3, LineTaken DEF Tagged, EndsSelect
    <2> QED BY <1>1, <1>3, <2>1 DEF Settled
  <1>4. CASE stage = "stats" /\ stage' = "recv" /\ folderId' = statsFolder
    BY <1>1, <1>4 DEF Settled
  <1> QED BY <1>2, <1>3, <1>4, LineTaken

\* A client that waits sends its next command when nothing is under way.
LEMMA WaitingCommand == ASSUME PipeTypes, WaitingInv, ~eager, ClientToUpstream PROVE WaitingInv'
  <1>1. /\ UNCHANGED <<eager, wire, selected, line, stage, statsFolder, mirror>>
        /\ sent' = sent + 1 /\ pc = "read" /\ sent \in Nat /\ sent + 1 \in Tags
        /\ \A i \in 1 .. sent : answers[i] > 0
    BY CommandTaken, SessionAssumption DEF ReadLine, PipeTypes, Tags
  <1>2. ~Unanswered
    BY <1>1 DEF Unanswered
  <1>3. Nowhere /\ ~(stage = "sync" /\ line.kind = "fetch")
    BY <1>2 DEF WaitingInv, Stages, FetchInHand
  <1>4. answers[sent + 1] = 0 /\ \A i \in Tags : i > sent' => answers[i] = 0
    <2>1. \A i \in Tags : i > sent => answers[i] = 0
      BY DEF WaitingInv
    <2>2. \A i \in Tags : i \in Nat
      BY DEF Tags
    <2> QED BY <1>1, <2>1, <2>2
  <1>5. FetchInHand' /\ \A m \in mirror' : m.rows = m.meant
    BY <1>1, <1>3 DEF FetchInHand, WaitingInv
  <1>6. \A i \in Tags : i > sent' => answers'[i] = 0
    <2>1. answers' \in {answers, [answers EXCEPT ![sent + 1] = @ + 1]} /\ answers \in [Tags -> Nat]
      BY CommandTaken DEF PipeTypes
    <2>2. \A i \in Tags : i > sent + 1 => answers'[i] = answers[i]
      BY <1>1, <2>1, SessionAssumption DEF Tags
    <2> QED BY <1>1, <1>4, <2>2
  <1>7. CASE \E f \in Folders :
                    /\ folder' = f /\ folderId' = None /\ ~inSelect'
                    /\ queue' = Append(queue, [verb |-> "select", tag |-> sent + 1, folder |-> f])
                    /\ UNCHANGED <<pc, answers>>
    <2>1. PICK f \in Folders : /\ folder' = f
                               /\ queue' = <<[verb |-> "select", tag |-> sent + 1, folder |-> f]>>
                               /\ UNCHANGED <<pc, answers>>
      BY <1>3, <1>7 DEF Nowhere
    <2>2. SelectAsked'
      <3>1. folder' # None /\ wire' = <<>>
        BY <1>1, <1>3, <2>1, SessionAssumption DEF Nowhere
      <3> QED BY <1>1, <2>1, <3>1 DEF SelectAsked, Sent
    <2>3. Unanswered'
      BY <1>1, <1>4, <2>1 DEF Unanswered
    <2> QED BY <1>5, <1>6, <2>2, <2>3 DEF WaitingInv, Stages
  <1>8. CASE \E verb \in {"fetch", "noop"} :
                    /\ queue' = Append(queue, [verb |-> verb, tag |-> sent + 1, folder |-> None])
                    /\ UNCHANGED <<folder, folderId, inSelect, pc, answers>>
    <2>1. PICK verb \in {"fetch", "noop"} : /\ queue' = <<[verb |-> verb, tag |-> sent + 1, folder |-> None]>>
                                            /\ UNCHANGED <<folder, folderId, inSelect, pc, answers>>
      BY <1>3, <1>8 DEF Nowhere
    <2>2. Settled'
      BY <1>1, <1>3, <2>1 DEF Nowhere, Settled, EndsSelect
    <2>3. ReadAsked(verb)'
      BY <1>1, <1>3, <2>1, <2>2 DEF ReadAsked, Sent, Nowhere
    <2>4. Unanswered'
      BY <1>1, <1>4, <2>1 DEF Unanswered
    <2> QED BY <1>5, <1>6, <2>1, <2>3, <2>4 DEF WaitingInv, Stages
  <1>9. CASE /\ UNCHANGED <<folder, inSelect, queue>>
             /\ folderId' = folderId \/ (folderId = None /\ folderId' = folder)
    <2>1. Settled'
      BY <1>1, <1>3, <1>9 DEF Nowhere, Settled, EndsSelect
    <2>2. Nowhere'
      BY <1>1, <1>3, <1>9, <2>1 DEF Nowhere
    <2> QED BY <1>5, <1>6, <2>2 DEF WaitingInv, Stages
  <1> QED BY <1>7, <1>8, <1>9, CommandTaken

\* The command in hand is the one under way, and reaches no server.
LEMMA WaitingStaging == ASSUME PipeTypes, WritesInv, WaitingInv, ~eager, Staging PROVE WaitingInv'
  <1>1. /\ pc # "read" /\ UNCHANGED <<folder, folderId, inSelect, stage, line, statsFolder, queue, wire, selected>>
        /\ UNCHANGED <<eager, sent, mirror>> /\ answers' \in {answers, [answers EXCEPT ![cmd.tag] = @ + 1]}
    BY StagingAnswers DEF sessionVars, u2cVars, upstreamVars
  <1>2. Nowhere /\ ~(stage = "sync" /\ line.kind = "fetch")
    BY <1>1 DEF WaitingInv, Stages, FetchInHand, Unanswered
  <1>3. Nowhere'
    BY <1>1, <1>2 DEF Nowhere, Settled, EndsSelect
  <1>4. \A i \in Tags : i > sent' => answers'[i] = 0
    <2>1. cmd.tag \in 1 .. sent /\ answers \in [Tags -> Nat] /\ sent \in Nat
      BY <1>1 DEF WritesInv, CmdInv, StagedInv, PipeTypes
    <2>2. \A i \in Tags : i > sent => answers'[i] = answers[i]
      BY <1>1, <2>1, SessionAssumption DEF Tags
    <2> QED BY <1>1, <2>2 DEF WaitingInv
  <1>5. FetchInHand' /\ \A m \in mirror' : m.rows = m.meant
    BY <1>1, <1>2 DEF FetchInHand, WaitingInv
  <1> QED BY <1>3, <1>4, <1>5 DEF WaitingInv, Stages

\* The server answers the command under way.
LEMMA WaitingServer == ASSUME PipeTypes, WaitingInv, ~eager, Upstream PROVE WaitingInv'
  <1>1. /\ UNCHANGED <<folder, folderId, inSelect, stage, line, statsFolder, pc, cmd, eager, sent, answers, mirror>>
        /\ queue # <<>> /\ queue' = Tail(queue)
    BY ServerAnswers DEF sessionVars, u2cVars, clientVars
  <1>2. /\ \A i \in Tags : i > sent' => answers'[i] = 0
        /\ FetchInHand' /\ \A m \in mirror' : m.rows = m.meant
    BY <1>1 DEF WaitingInv, FetchInHand
  <1>3. Unanswered /\ (SelectAsked \/ \E verb \in {"fetch", "noop"} : ReadAsked(verb))
    BY <1>1 DEF WaitingInv, Stages, Nowhere, SelectRefused, SelectAnswered, ReadAnswered
  <1>4. Unanswered'
    BY <1>1, <1>3 DEF Unanswered
  <1>5. wire = <<>> /\ queue' = <<>> /\ \A w \in Seq(Replies) : wire \o w = w
    BY <1>1, <1>3 DEF SelectAsked, ReadAsked
  <1>6. \A kind, tag, verb : Line(kind, tag, verb) = Now(kind, tag, verb)'
    BY DEF Line, Now
  <1>7. CASE SelectAsked
    <2>1. Head(queue).verb = "select" /\ Head(queue).folder = folder /\ Head(queue).tag = sent /\ folder # None
      BY <1>7 DEF SelectAsked, Sent
    <2>2. \/ /\ selected' = folder
             /\ wire' = <<Line("exists", NoTag, "select"), Line("ok", sent, "select")>>
          \/ selected' = None /\ wire' = <<Line("no", sent, "select")>>
      BY <1>5, <2>1, ServerAnswers
    <2>3. SelectAnswered' \/ SelectRefused'
      BY <1>1, <1>5, <1>6, <2>1, <2>2 DEF SelectAnswered, SelectRefused
    <2> QED BY <1>2, <1>4, <2>3 DEF WaitingInv, Stages
  <1>8. ASSUME NEW verb \in {"fetch", "noop"}, ReadAsked(verb) PROVE WaitingInv'
    <2>1. Head(queue).verb = verb /\ Head(queue).tag = sent /\ Settled
      BY <1>8 DEF ReadAsked, Sent
    <2>2. /\ selected' = selected
          /\ \/ wire' = <<Line("no", sent, verb)>> /\ verb = "fetch"
             \/ wire' = <<Line("ok", sent, verb)>>
             \/ /\ wire' = <<Line("fetch", NoTag, verb), Line("ok", sent, verb)>>
                /\ selected # None /\ verb = "fetch"
             \/ /\ wire' = <<Line("exists", NoTag, verb), Line("ok", sent, verb)>>
                /\ selected # None /\ verb = "noop"
             \/ /\ wire' = <<Line("exists", NoTag, verb), Line("fetch", NoTag, verb), Line("ok", sent, verb)>>
                /\ selected # None /\ verb = "fetch"
      BY <1>5, <2>1, ServerAnswers
    <2>3. Settled'
      BY <1>1, <2>1, <2>2 DEF Settled, EndsSelect
    <2>4. wire' \in RestOf(verb)'
      BY <1>1, <1>6, <2>2 DEF RestOf
    <2>5. selected' = None => Len(wire') = 1
      BY <2>2
    <2>6. ReadAnswered(verb)'
      BY <1>5, <2>3, <2>4, <2>5 DEF ReadAnswered
    <2> QED BY <1>2, <1>4, <2>6 DEF WaitingInv, Stages
  <1> QED BY <1>3, <1>7, <1>8

\* The lines of an answer are relayed and synced one by one.
LEMMA WaitingRelay ==
    ASSUME PipeTypes, WaitingInv, ~eager, UpstreamToClient, stage = "recv" PROVE WaitingInv'
  <1>1. /\ UNCHANGED <<eager, sent, pc, folder, queue, selected, folderId, inSelect, statsFolder, mirror>>
        /\ stage' = "sync" /\ wire # <<>> /\ line' = Head(wire) /\ wire' = Tail(wire)
        /\ answers' = IF Tagged(Head(wire)) THEN [answers EXCEPT ![Head(wire).tag] = @ + 1] ELSE answers
    BY LineTaken
  <1>2. Unanswered /\ (SelectRefused \/ SelectAnswered \/ \E verb \in {"fetch", "noop"} : ReadAnswered(verb))
    BY <1>1 DEF WaitingInv, Stages, Nowhere, SelectAsked, ReadAsked
  <1>3. Settled => Settled'
    BY SettledStep
  <1>4. \A m \in mirror' : m.rows = m.meant
    BY <1>1 DEF WaitingInv
  <1>5. /\ \A kind, tag, verb : Now(kind, tag, verb)' = Now(kind, tag, verb)
        /\ \A kind, tag, verb : /\ Now(kind, tag, verb).kind = kind /\ Now(kind, tag, verb).tag = tag
                                /\ Now(kind, tag, verb).verb = verb /\ Now(kind, tag, verb).folder = selected
    BY <1>1 DEF Now
  <1>6. sent \in Nat /\ answers \in [Tags -> Nat] /\ \A i \in Tags : i > sent => answers[i] = 0
    BY DEF PipeTypes, WaitingInv
  <1>7. /\ \A verb : ~Tagged(Now("exists", NoTag, verb)) /\ ~Tagged(Now("fetch", NoTag, verb))
        /\ \A verb : Tagged(Now("no", sent, verb)) /\ Tagged(Now("ok", sent, verb))
    BY <1>5 DEF Tagged
  <1>8. ASSUME Head(wire).tag = sent PROVE \A i \in Tags : i > sent' => answers'[i] = 0
    <2>1. \A i \in Tags : i \in Nat
      BY SessionAssumption DEF Tags
    <2> QED BY <1>1, <1>6, <1>8, <2>1
  <1>9. ASSUME ~Tagged(Head(wire)) PROVE Unanswered' /\ \A i \in Tags : i > sent' => answers'[i] = 0
    BY <1>1, <1>2, <1>6, <1>9 DEF Unanswered
  <1>10. CASE SelectRefused
    <2> DEFINE no == Now("no", sent, "select")
    <2>1. wire = <<no>> /\ selected = None /\ no.tag = sent /\ no.kind = "no" /\ queue = <<>>
      BY <1>5, <1>10 DEF SelectRefused
    <2> HIDE DEF no
    <2>2. wire' = <<>> /\ line' = no /\ Head(wire) = no
      BY <1>1, <2>1
    <2>3. Nowhere'
      BY <1>1, <2>1, <2>2 DEF Nowhere, Settled
    <2>4. FetchInHand'
      BY <2>1, <2>2 DEF FetchInHand
    <2> QED BY <1>4, <1>8, <2>1, <2>2, <2>3, <2>4 DEF WaitingInv, Stages
  <1>11. CASE SelectAnswered
    <2> DEFINE ok == Now("ok", sent, "select")
               exists == Now("exists", NoTag, "select")
    <2>1. /\ ok.tag = sent /\ ok.kind = "ok" /\ ok.verb = "select" /\ exists.kind = "exists" /\ ~Tagged(exists)
      BY <1>5, <1>7
    <2>5. ok' = ok
      BY <1>1 DEF Now
    <2>2. /\ queue = <<>> /\ selected # None /\ folder = selected
          /\ wire = <<exists, ok>> \/ (wire = <<ok>> /\ inSelect)
      BY <1>1, <1>11 DEF SelectAnswered
    <2>3. CASE wire = <<exists, ok>>
      <3> HIDE DEF ok, exists
      <3>1. wire' = <<ok>> /\ line' = exists /\ Head(wire) = exists
        BY <1>1, <2>3
      <3> USE DEF ok
      <3>2. SelectAnswered'
        BY <1>1, <2>1, <2>2, <2>5, <3>1 DEF SelectAnswered
      <3>3. FetchInHand'
        BY <2>1, <3>1 DEF FetchInHand
      <3> QED BY <1>4, <1>9, <2>1, <3>1, <3>2, <3>3 DEF WaitingInv, Stages
    <2>4. CASE wire = <<ok>> /\ inSelect
      <3> HIDE DEF ok, exists
      <3>1. wire' = <<>> /\ line' = ok /\ Head(wire) = ok
        BY <1>1, <2>4
      <3>2. Settled'
        <4>1. line'.kind = "ok" /\ line'.verb = "select" /\ inSelect' /\ folder' # None
          BY <1>1, <2>1, <2>2, <2>4, <3>1
        <4> QED BY <1>1, <2>2, <4>1 DEF Settled, EndsSelect
      <3>3. Nowhere'
        BY <1>1, <2>2, <3>1, <3>2 DEF Nowhere
      <3>4. FetchInHand'
        BY <2>1, <3>1 DEF FetchInHand
      <3> QED BY <1>4, <1>8, <2>1, <3>1, <3>3, <3>4 DEF WaitingInv, Stages
    <2> QED BY <2>2, <2>3, <2>4
  <1>12. ASSUME NEW verb \in {"fetch", "noop"}, ReadAnswered(verb) PROVE WaitingInv'
    <2> DEFINE ok == Now("ok", sent, verb)
               no == Now("no", sent, verb)
               exists == Now("exists", NoTag, verb)
               fetched == Now("fetch", NoTag, verb)
    <2>1. /\ ok.tag = sent /\ ok.kind = "ok" /\ no.tag = sent /\ no.kind = "no"
          /\ exists.kind = "exists" /\ ~Tagged(exists) /\ fetched.kind = "fetch" /\ ~Tagged(fetched)
          /\ fetched.folder = selected
      BY <1>5, <1>7
    <2>2. queue = <<>> /\ wire \in RestOf(verb) /\ (selected = None => Len(wire) = 1) /\ Settled'
      BY <1>3, <1>12 DEF ReadAnswered
    <2>3. \/ wire \in {<<no>>, <<ok>>}
          \/ wire = <<fetched, ok>> /\ verb = "fetch"
          \/ wire = <<exists, fetched, ok>> /\ verb = "fetch"
          \/ wire = <<exists, ok>>
      BY <2>2 DEF RestOf
    <2>4. <<ok>> \in RestOf(verb)' /\ (verb = "fetch" => <<fetched, ok>> \in RestOf(verb)')
      <3>1. ok = Now("ok", sent, verb)' /\ fetched = Now("fetch", NoTag, verb)'
        BY <1>1 DEF Now
      <3> HIDE DEF ok, fetched
      <3> QED BY <3>1 DEF RestOf
    <2>5. ok = Now("ok", sent, verb)'
      BY <1>1 DEF Now
    <2> HIDE DEF ok, no, exists, fetched
    <2>6. CASE wire \in {<<no>>, <<ok>>}
      <3>1. wire' = <<>> /\ line' \in {no, ok} /\ Head(wire) \in {no, ok}
        BY <1>1, <2>6
      <3>2. Nowhere'
        BY <1>1, <2>2, <3>1 DEF Nowhere
      <3>3. FetchInHand'
        BY <2>1, <3>1 DEF FetchInHand
      <3> QED BY <1>4, <1>8, <2>1, <3>1, <3>2, <3>3 DEF WaitingInv, Stages
    <2>7. CASE wire = <<fetched, ok>> /\ verb = "fetch"
      <3>1. wire' = <<ok>> /\ line' = fetched /\ Head(wire) = fetched /\ Len(wire) = 2 /\ Len(wire') = 1
        BY <1>1, <2>7
      <3>2. ReadAnswered(verb)'
        BY <1>1, <2>2, <2>4, <3>1 DEF ReadAnswered
      <3>3. Unanswered' /\ \A i \in Tags : i > sent' => answers'[i] = 0
        BY <1>9, <2>1, <3>1
      <3>4. selected' # None /\ line'.folder = selected'
        BY <1>1, <2>1, <2>2, <3>1
      <3>5. FetchInHand'
        BY <1>1, <2>2, <2>5, <2>7, <3>1, <3>3, <3>4 DEF FetchInHand
      <3> QED BY <1>4, <3>2, <3>3, <3>5 DEF WaitingInv, Stages
    <2>8. CASE (wire = <<exists, fetched, ok>> /\ verb = "fetch") \/ wire = <<exists, ok>>
      <3>1. /\ (wire' = <<fetched, ok>> /\ verb = "fetch") \/ wire' = <<ok>>
            /\ line' = exists /\ Head(wire) = exists /\ Len(wire) # 1
        <4>1. CASE wire = <<exists, fetched, ok>> /\ verb = "fetch"
          BY <1>1, <4>1
        <4>2. CASE wire = <<exists, ok>>
          BY <1>1, <4>2
        <4> QED BY <2>8, <4>1, <4>2
      <3>2. ReadAnswered(verb)'
        BY <1>1, <2>2, <2>4, <3>1 DEF ReadAnswered
      <3>3. Unanswered' /\ \A i \in Tags : i > sent' => answers'[i] = 0
        BY <1>9, <2>1, <3>1
      <3>4. FetchInHand'
        BY <2>1, <3>1 DEF FetchInHand
      <3> QED BY <1>4, <3>2, <3>3, <3>4 DEF WaitingInv, Stages
    <2> QED BY <2>3, <2>6, <2>7, <2>8
  <1> QED BY <1>2, <1>10, <1>11, <1>12

\* The line in hand is synced, a FETCH under the folder selected.
LEMMA WaitingSync ==
    ASSUME PipeTypes, WaitingInv, ~eager, UpstreamToClient, stage # "recv" PROVE WaitingInv'
  <1>1. /\ UNCHANGED <<eager, sent, pc, folder, queue, selected, wire, line, answers>> /\ stage' # "sync"
    BY LineTaken
  <1>2. FetchInHand' /\ \A i \in Tags : i > sent' => answers'[i] = 0
    BY <1>1 DEF FetchInHand, WaitingInv
  <1>3. \A m \in mirror' : m.rows = m.meant
    <2>1. CASE mirror' = mirror
      BY <2>1 DEF WaitingInv
    <2>2. CASE mirror' # mirror
      <3>1. /\ stage = "sync" /\ line.kind = "fetch" /\ folderId # None
            /\ mirror' = mirror \cup {[rows |-> folderId, meant |-> line.folder]}
        BY <2>2, LineTaken
      <3>2. line.folder = selected /\ selected # None /\ Settled
        BY <3>1 DEF WaitingInv, FetchInHand
      <3>3. folderId = selected
        BY <3>1, <3>2 DEF Settled, EndsSelect
      <3> QED BY <3>1, <3>2, <3>3 DEF WaitingInv
    <2> QED BY <2>1, <2>2
  <1>4. Unanswered' = Unanswered
    BY <1>1 DEF Unanswered
  <1>5. Settled => Settled'
    BY SettledStep
  <1>6. Nowhere => Nowhere'
    BY <1>1, <1>5 DEF Nowhere
  <1>7. (SelectAsked => SelectAsked') /\ (SelectRefused => SelectRefused')
    BY <1>1 DEF SelectAsked, SelectRefused, Sent, Now
  <1>8. \A verb : ReadAsked(verb) => ReadAsked(verb)'
    BY <1>1, <1>5 DEF ReadAsked, Sent
  <1>9. \A verb : ReadAnswered(verb) => ReadAnswered(verb)'
    BY <1>1, <1>5 DEF ReadAnswered, RestOf, Now
  <1>10. SelectAnswered => SelectAnswered'
    <2> SUFFICES ASSUME SelectAnswered PROVE SelectAnswered'
      OBVIOUS
    <2>1. stage = "sync" /\ line.kind = "exists" => stage' = "recv" /\ inSelect'
      BY LineTaken DEF Tagged, EndsSelect
    <2>2. UNCHANGED <<Now("exists", NoTag, "select"), Now("ok", sent, "select")>>
      BY <1>1 DEF Now
    <2> QED BY <1>1, <2>1, <2>2 DEF SelectAnswered
  <1>11. Stages'
    BY <1>4, <1>6, <1>7, <1>8, <1>9, <1>10 DEF WaitingInv, Stages
  <1> QED BY <1>2, <1>3, <1>11 DEF WaitingInv

\* A client that waits finds its answers in the folder they come from.
LEMMA WaitingStep == ASSUME PipeTypes, WritesInv, WaitingInv, [Next]_vars PROVE WaitingInv'
  <1>1. eager' = eager
    BY CommandTaken, StagingAnswers, ServerAnswers, LineTaken
       DEF Next, ClientCloses, UpstreamCloses, vars, clientVars
  <1> SUFFICES ASSUME ~eager PROVE WaitingInv'
    BY <1>1 DEF WaitingInv
  <1>2. CASE ClientCloses \/ UpstreamCloses \/ UNCHANGED vars
    <2>1. UNCHANGED <<folder, folderId, inSelect, stage, line, statsFolder, queue, wire, selected, pc, sent,
                      answers, mirror, eager>>
      BY <1>2 DEF ClientCloses, UpstreamCloses, vars, clientVars, c2uVars, upstreamVars, sessionVars, u2cVars, dbVars
    <2>2. Settled' = Settled /\ Unanswered' = Unanswered
      BY <2>1 DEF Settled, EndsSelect, Unanswered
    <2>3. FetchInHand'
      BY <2>1, <2>2 DEF WaitingInv, FetchInHand, Now
    <2>4. /\ Nowhere' = Nowhere /\ SelectAsked' = SelectAsked /\ SelectRefused' = SelectRefused
          /\ \A verb : ReadAsked(verb)' = ReadAsked(verb) /\ ReadAnswered(verb)' = ReadAnswered(verb)
      BY <2>1, <2>2 DEF Nowhere, SelectAsked, SelectRefused, ReadAsked, ReadAnswered, RestOf, Sent, Now
    <2>5. SelectAnswered' = SelectAnswered
      BY <2>1 DEF SelectAnswered, Now
    <2>6. Stages'
      BY <2>2, <2>4, <2>5 DEF WaitingInv, Stages
    <2> QED BY <2>1, <2>3, <2>6 DEF WaitingInv
  <1>3. CASE UpstreamToClient
    BY <1>3, WaitingRelay, WaitingSync
  <1> QED BY <1>2, <1>3, WaitingCommand, WaitingStaging, WaitingServer DEF Next

\* The inductive invariant of the two streams.
LEMMA SyncInvAlways == Spec => []SyncInv
  <1>1. WritesInv /\ SyncInv /\ [Next]_vars => SyncInv'
    BY TypesStep, OnceStep, NewsStep, WaitingStep DEF SyncInv
  <1> QED BY <1>1, SyncInit, WritesInvAlways, PTL DEF Spec

\* A FETCH line is stored under the folder it came from for a client that waits for
\* its answers, and none is taken for a part of the answer to a SELECT as long as new
\* mail is announced with SELECT only (_sync_upstream_line).
THEOREM AlwaysSyncedInItsFolder == Spec => []SyncedInItsFolder
  <1>1. SyncInv => SyncedInItsFolder
    BY DEF SyncInv, WaitingInv, NewsInv, SyncedInItsFolder
  <1> QED BY <1>1, SyncInvAlways, PTL

-----------------------------------------------------------------------------

\* The mailbox has UIDs from 1 on, and a set's ends are numbers, Star among them.
SetsInv == uids \subseteq 1 .. MaxUid /\ set \subseteq Nat \X Nat

\* One element is one element.
LEMMA SetsCardinality == ASSUME NEW x PROVE Sets!Cardinality({x}) = 1
<1>1. Sets!Cardinality({x}) = Cardinality({x})
  BY DEF Sets!Cardinality, Cardinality
<1> QED BY <1>1, FS_Singleton

\* Some UIDs have a highest.
LEMMA HighestUid ==
    ASSUME NEW n \in Nat, NEW S \in SUBSET (1 .. n), S # {}
    PROVE  Sets!Max(S) \in S /\ \A y \in S : Sets!Max(S) >= y
<1> DEFINE P == {k \in Nat : \A T \in SUBSET (1 .. k) : T # {} => \E m \in T : \A y \in T : m >= y}
<1>1. 0 \in P
  BY 1 .. 0 = {}
<1>2. ASSUME NEW k \in Nat, k \in P PROVE k + 1 \in P
  <2>1. ASSUME NEW T \in SUBSET (1 .. k + 1), T # {} PROVE \E m \in T : \A y \in T : m >= y
    <3>1. CASE k + 1 \in T
      BY <3>1
    <3>2. CASE k + 1 \notin T
      <4>1. T \in SUBSET (1 .. k)
        BY <3>2
      <4> QED BY <4>1, <2>1, <1>2
    <3> QED BY <3>1, <3>2
  <2> QED BY <2>1
<1> HIDE DEF P
<1>3. n \in P
  BY <1>1, <1>2, NatSetInduction
<1>4. \E m \in S : \A y \in S : m >= y
  BY <1>3 DEF P
<1> QED BY <1>4 DEF Sets!Max

\* The part "a:b", with "*" for the highest UID, denotes what _expand_uid_set returns for it.
LEMMA PartIsMeant ==
    ASSUME SetsInv, uids # {}, NEW pt \in set
    PROVE  /\ Sets!ExpandPart(pt, uids) = {w \in uids : Sets!MeansBy(pt, w, uids)}
           /\ pt[1] # Sets!Star /\ pt[2] # Sets!Star =>
                  uids \cap pt[1] .. pt[2] \subseteq Sets!ExpandPart(pt, uids)
<1>1. uids \in SUBSET (1 .. MaxUid) /\ uids \subseteq Nat /\ MaxUid \in Nat
  BY UidsAssumption DEF SetsInv
<1>2. Sets!Max(uids) \in Nat
  BY <1>1, HighestUid
<1>3. pt[1] \in Nat /\ pt[2] \in Nat
  BY DEF SetsInv
<1> DEFINE low  == Sets!Denoted(pt[1], uids)
           high == Sets!Denoted(pt[2], uids)
<1>4. low \in Nat /\ high \in Nat
  BY <1>2, <1>3 DEF Sets!Denoted
<1>5. Sets!ExpandPart(pt, uids) = uids \cap (IF low > high THEN high .. low ELSE low .. high)
  BY DEF Sets!ExpandPart, Sets!Denoted
<1>6. \A w : Sets!MeansBy(pt, w, uids) <=> w \in low .. high \cup high .. low
  BY DEF Sets!MeansBy
<1>7. pt[1] # Sets!Star /\ pt[2] # Sets!Star => low = pt[1] /\ high = pt[2]
  BY DEF Sets!Denoted
<1> HIDE DEF low, high
<1> QED BY <1>1, <1>3, <1>4, <1>5, <1>6, <1>7

\* The set of an operation, read part by part.
LEMMA SetsInvReads == SetsInv => SetsAreRead
<1> SUFFICES ASSUME SetsInv PROVE SetsAreRead
  OBVIOUS
<1>1. Sets!ExpandIsMeaning
  BY PartIsMeant DEF Sets!ExpandIsMeaning, Sets!Expand, Sets!Meaning
<1>2. Sets!ShownOnlyIfMeant
  <2> SUFFICES ASSUME uids # {}, NEW w \in uids, NEW pt \in set, Sets!Understood(set),
                      w \in pt[1] .. pt[2]
               PROVE  w \in Sets!Meaning(set, uids)
    BY DEF Sets!ShownOnlyIfMeant, Sets!PendingUids, Sets!UidInSet, SetsInv
  <2> QED BY PartIsMeant DEF Sets!Understood, Sets!Meaning
<1>3. Sets!PlainSetsAgree
  <2> SUFFICES ASSUME NEW a \in uids, NEW b \in uids, a <= b
               PROVE  /\ Sets!PendingUids(Sets!Between(a, b)) \cap uids
                             = Sets!Expand(Sets!Between(a, b), uids)
                      /\ \A w \in uids : Sets!UidInSet(w, Sets!Between(a, b))
                                            <=> w \in Sets!PendingUids(Sets!Between(a, b))
    BY DEF Sets!PlainSetsAgree
  <2>1. a \in Nat \ {0} /\ b \in Nat \ {0} /\ uids \subseteq Nat
    BY UidsAssumption DEF SetsInv
  <2>2. Sets!Understood({<<a, b>>})
    <3>1. Sets!Cardinality({<<a, b>>}) = 1
      BY SetsCardinality
    <3> QED BY <2>1, <3>1 DEF Sets!Understood, Sets!Star
  <2>3. Sets!PendingUids({<<a, b>>}) = a .. b
    BY <2>2 DEF Sets!PendingUids
  <2>4. Sets!Expand({<<a, b>>}, uids) = uids \cap a .. b
    BY <2>1 DEF Sets!Expand, Sets!ExpandPart, Sets!Star
  <2>5. \A w \in uids : Sets!UidInSet(w, {<<a, b>>}) <=> w \in a .. b
    BY <2>1, <2>2 DEF Sets!UidInSet
  <2> QED BY <2>3, <2>4, <2>5 DEF Sets!Between
<1> QED BY <1>1, <1>2, <1>3 DEF SetsAreRead

\* The readers of UID sets agree with what the set denotes, in every mailbox
\* (_expand_uid_set, get_pending_move_uids_for_folder, _uid_in_set).
THEOREM SetsAlwaysRead == ProxySpec => []SetsAreRead
<1>1. ProxyInit => SetsInv
  BY UidsAssumption
     DEF ProxyInit, SetsStand, Sets!Init, Sets!UidSetsOf, Sets!Ends, Sets!Star, SetsInv
<1>2. SetsInv /\ [ProxyNext]_<<part, vars, relayVars, setVars, readVars>> => SetsInv'
  BY DEF ProxyNext, Sets!Next, Sets!Change, setVars, SetsInv
<1> QED BY <1>1, <1>2, SetsInvReads, PTL DEF ProxySpec

-----------------------------------------------------------------------------
(* The upstream's bytes (LineRelay) *)

\* What `flatten` of FlattenSeq is, up to n.
IsFlat(f, u, n) ==
    f = [i \in 1 .. n |-> IF i = 1 THEN u[i] ELSE f[i - 1] \o u[i]]

\* There is such a function.
LEMMA FlatExists == ASSUME NEW u PROVE \A n \in Nat : \E f : IsFlat(f, u, n)
<1> DEFINE P == {n \in Nat : \E f : IsFlat(f, u, n)}
<1>1. 0 \in P
  <2>1. IsFlat([i \in 1 .. 0 |-> u[i]], u, 0)
    BY DEF IsFlat
  <2> QED BY <2>1
<1>2. ASSUME NEW n \in Nat, n \in P PROVE n + 1 \in P
  <2>1. PICK f : IsFlat(f, u, n)
    BY <1>2
  <2> DEFINE new == IF n + 1 = 1 THEN u[n + 1] ELSE f[n] \o u[n + 1]
             g == [i \in 1 .. n + 1 |-> IF i = n + 1 THEN new ELSE f[i]]
  <2>2. ASSUME NEW i \in 1 .. n + 1
        PROVE  g[i] = IF i = 1 THEN u[i] ELSE g[i - 1] \o u[i]
    <3>1. CASE i = n + 1
      <4>1. n # 0 => n \in 1 .. n + 1 /\ n # n + 1 /\ (n + 1) - 1 = n
        OBVIOUS
      <4> QED BY <3>1, <4>1
    <3>2. CASE i # n + 1
      <4>1. i \in 1 .. n /\ g[i] = f[i] /\ (i # 1 => g[i - 1] = f[i - 1])
        BY <3>2
      <4> HIDE DEF g
      <4> QED BY <2>1, <4>1 DEF IsFlat
    <3> QED BY <3>1, <3>2
  <2>3. IsFlat(g, u, n + 1)
    BY <2>2 DEF IsFlat
  <2> QED BY <2>3
<1> HIDE DEF P
<1>3. Nat \subseteq P
  BY <1>1, <1>2, NatSetInduction
<1> QED BY <1>3 DEF P

\* What is put together of elements of a set that is closed under it is in the set.
LEMMA FlatIsIn ==
    ASSUME NEW P, \A s, t \in P : s \o t \in P,
           NEW n \in Nat, NEW u, \A i \in 1 .. n : u[i] \in P, NEW f, IsFlat(f, u, n)
    PROVE  \A i \in 1 .. n : f[i] \in P
<1> DEFINE Q == {i \in Nat : i \in 1 .. n => f[i] \in P}
<1>1. 0 \in Q
  OBVIOUS
<1>2. ASSUME NEW i \in Nat, i \in Q PROVE i + 1 \in Q
  <2> SUFFICES ASSUME i + 1 \in 1 .. n PROVE f[i + 1] \in P
    OBVIOUS
  <2>1. f[i + 1] = IF i + 1 = 1 THEN u[i + 1] ELSE f[i] \o u[i + 1]
    <3>1. (i + 1) - 1 = i
      OBVIOUS
    <3> QED BY <3>1 DEF IsFlat
  <2>2. i + 1 # 1 => f[i] \in P
    BY <1>2
  <2> QED BY <2>1, <2>2
<1> HIDE DEF Q
<1>3. Nat \subseteq Q
  BY <1>1, <1>2, NatSetInduction
<1> QED BY <1>3 DEF Q

\* FlattenSeq is its last value.
LEMMA PumpFlat ==
    ASSUME NEW u, Len(u) \in Nat, Len(u) # 0
    PROVE  \E f : IsFlat(f, u, Len(u)) /\ Pump!FlattenSeq(u) = f[Len(u)]
<1> DEFINE f == CHOOSE g : IsFlat(g, u, Len(u))
<1>1. IsFlat(f, u, Len(u))
  BY FlatExists
<1>2. Pump!FlattenSeq(u) = f[Len(u)]
  BY DEF Pump!FlattenSeq, IsFlat
<1> QED BY <1>1, <1>2

-----------------------------------------------------------------------------

\* The line announces a literal.
Announced(f) == f.part = "end" /\ ~f.body /\ f.line \in Pump!Announcing

\* A line is a head and its end, a literal comes after a line that announces it.
Fits(s, i) ==
    /\ s[i].part = "head" => /\ i < Len(s) /\ s[i + 1].part = "end"
                             /\ s[i + 1].line = s[i].line /\ (s[i + 1].body <=> s[i].body)
    /\ s[i].part = "end"  => i > 1 /\ s[i - 1].part = "head"
    /\ s[i].body => s[i].line = "exists"
    /\ s[i].body /\ s[i].part = "head" => i > 1 /\ Announced(s[i - 1])
    /\ Announced(s[i]) => i < Len(s) /\ s[i + 1].body

Shape(s) == \A i \in 1 .. Len(s) : Fits(s, i)

Responses == Pump!Announcing \cup {"data", "exists", "moved"}
Fragments == [line : Responses, part : {"head", "end"}, body : BOOLEAN]
Shaped == {s \in Seq(Fragments) : Shape(s)}

\* One response after the other.
LEMMA ShapedJoin == \A s, t \in Shaped : s \o t \in Shaped
<1> TAKE s, t \in Shaped
<1> DEFINE j == s \o t
<1>1. /\ s \in Seq(Fragments) /\ t \in Seq(Fragments) /\ j \in Seq(Fragments)
      /\ Len(s) \in Nat /\ Len(t) \in Nat /\ Len(j) = Len(s) + Len(t)
      /\ \A i \in 1 .. Len(s) : j[i] = s[i]
      /\ \A i \in 1 .. Len(t) : j[Len(s) + i] = t[i]
  BY DEF Shaped
<1> HIDE DEF j
<1>2. ASSUME NEW i \in 1 .. Len(j) PROVE Fits(j, i)
  <2>1. CASE i \in 1 .. Len(s)
    <3>1. j[i] = s[i] /\ (i < Len(s) => j[i + 1] = s[i + 1]) /\ (i > 1 => j[i - 1] = s[i - 1])
      <4>1. i < Len(s) => i + 1 \in 1 .. Len(s)
        BY <1>1, <2>1
      <4>2. i > 1 => i - 1 \in 1 .. Len(s)
        BY <1>1, <2>1
      <4> QED BY <1>1, <2>1, <4>1, <4>2
    <3>2. Shape(s)
      BY DEF Shaped
    <3>3. i < Len(s) => i < Len(j)
      BY <1>1, <2>1
    <3> QED BY <2>1, <3>1, <3>2, <3>3 DEF Shape, Fits
  <2>2. CASE i \notin 1 .. Len(s)
    <3>1. PICK k \in 1 .. Len(t) : i = Len(s) + k
      <4>1. i - Len(s) \in 1 .. Len(t) /\ i = Len(s) + (i - Len(s))
        BY <1>1, <2>2
      <4> QED BY <4>1
    <3>2. j[i] = t[k] /\ (k < Len(t) => j[i + 1] = t[k + 1]) /\ (k > 1 => j[i - 1] = t[k - 1])
      <4>1. k < Len(t) => k + 1 \in 1 .. Len(t) /\ i + 1 = Len(s) + (k + 1)
        BY <1>1, <3>1
      <4>2. k > 1 => k - 1 \in 1 .. Len(t) /\ i - 1 = Len(s) + (k - 1)
        BY <1>1, <3>1
      <4> QED BY <1>1, <3>1, <4>1, <4>2
    <3>3. (k < Len(t) <=> i < Len(j)) /\ (k > 1 => i > 1)
      BY <1>1, <3>1
    <3>4. Shape(t)
      BY DEF Shaped
    <3> QED BY <3>2, <3>3, <3>4 DEF Shape, Fits
  <2> QED BY <2>1, <2>2
<1> QED BY <1>1, <1>2 DEF j, Shaped, Shape

\* Two fragments and two more.
LEMMA TwoAndTwo ==
    ASSUME NEW S, NEW x \in Seq(S), NEW y \in Seq(S)
    PROVE  Len(x) = 2 /\ Len(y) = 2 =>
               /\ x \o y \in Seq(S) /\ Len(x \o y) = 4
               /\ (x \o y)[1] = x[1] /\ (x \o y)[2] = x[2]
               /\ (x \o y)[3] = y[1] /\ (x \o y)[4] = y[2]
<1> DEFINE j == x \o y
<1>1. /\ j \in Seq(S) /\ Len(j) = Len(x) + Len(y)
      /\ \A i \in 1 .. Len(x) : j[i] = x[i]
      /\ \A i \in 1 .. Len(y) : j[Len(x) + i] = y[i]
  OBVIOUS
<1> HIDE DEF j
<1> HAVE Len(x) = 2 /\ Len(y) = 2
<1>2. 1 \in 1 .. Len(x) /\ 2 \in 1 .. Len(x) /\ 1 \in 1 .. Len(y) /\ 2 \in 1 .. Len(y)
  OBVIOUS
<1>3. j[1] = x[1] /\ j[2] = x[2] /\ j[Len(x) + 1] = y[1] /\ j[Len(x) + 2] = y[2]
  BY <1>1, <1>2
<1>4. Len(x) + 1 = 3 /\ Len(x) + 2 = 4 /\ Len(x) + Len(y) = 4
  OBVIOUS
<1> QED BY <1>1, <1>3, <1>4 DEF j

\* Each response of the upstream has that shape.
LEMMA UnitsShaped == Pump!Units \subseteq Shaped
<1> DEFINE L(kind) == Pump!Line(kind)
<1>1. ASSUME NEW kind \in Responses
      PROVE  /\ L(kind) \in Seq(Fragments) /\ Len(L(kind)) = 2
             /\ L(kind)[1].part = "head" /\ ~L(kind)[1].body /\ L(kind)[1].line = kind
             /\ L(kind)[2].part = "end"  /\ ~L(kind)[2].body /\ L(kind)[2].line = kind
  BY DEF Pump!Line, Fragments
<1>2. /\ Pump!Literal \in Seq(Fragments) /\ Len(Pump!Literal) = 2
      /\ Pump!Literal[1].part = "head" /\ Pump!Literal[1].body
      /\ Pump!Literal[1].line = "exists"
      /\ Pump!Literal[2].part = "end" /\ Pump!Literal[2].body
      /\ Pump!Literal[2].line = "exists"
  BY DEF Pump!Literal, Fragments, Responses
<1> HIDE DEF L
<1>3. ASSUME NEW kind \in {"data", "exists", "moved"} PROVE L(kind) \in Shaped
  <2>1. kind \in Responses /\ kind \notin Pump!Announcing
    BY DEF Pump!Announcing, Responses
  <2> DEFINE a == L(kind)
  <2>2. a \in Seq(Fragments) /\ Len(a) = 2
    BY <1>1, <2>1
  <2>3. a[1].part = "head" /\ ~a[1].body
    BY <1>1, <2>1
  <2>4. a[2].part = "end" /\ ~a[2].body /\ a[1].line = a[2].line /\ a[2].line = kind
    BY <1>1, <2>1
  <2> HIDE DEF a
  <2>5. ~Announced(a[1]) /\ ~Announced(a[2])
    BY <2>1, <2>3, <2>4 DEF Announced
  <2>6. Shape(a)
    <3>1. Fits(a, 1)
      BY <2>2, <2>3, <2>4, <2>5 DEF Fits
    <3>2. Fits(a, 2)
      BY <2>2, <2>3, <2>4, <2>5 DEF Fits
    <3> QED BY <2>2, <3>1, <3>2 DEF Shape
  <2> QED BY <2>2, <2>6 DEF a, Shaped
<1>4. ASSUME NEW kind \in Pump!Announcing
      PROVE  L(kind) \o Pump!Literal \in Shaped
  <2> DEFINE a == L(kind) \o Pump!Literal
  <2>1. kind \in Responses /\ kind # "exists"
    BY DEF Pump!Announcing, Responses
  <2>2. /\ a \in Seq(Fragments) /\ Len(a) = 4
        /\ a[1] = L(kind)[1] /\ a[2] = L(kind)[2]
        /\ a[3] = Pump!Literal[1] /\ a[4] = Pump!Literal[2]
    <3>1. L(kind) \in Seq(Fragments) /\ Len(L(kind)) = 2
      BY <1>1, <2>1
    <3> QED BY <1>2, <3>1, TwoAndTwo
  <2> HIDE DEF a
  <2>3. /\ a[1].part = "head" /\ ~a[1].body /\ a[1].line = kind
        /\ a[2].part = "end" /\ ~a[2].body /\ a[2].line = kind
    BY <1>1, <2>1, <2>2
  <2>4. Shape(a)
    <3>1. ~Announced(a[1]) /\ Announced(a[2]) /\ ~Announced(a[3]) /\ ~Announced(a[4])
      BY <1>2, <2>1, <2>2, <2>3 DEF Announced
    <3>2. Fits(a, 1)
      BY <2>2, <2>3, <3>1 DEF Fits
    <3>3. Fits(a, 2)
      BY <1>2, <2>2, <2>3, <3>1 DEF Fits
    <3>4. Fits(a, 3)
      BY <1>2, <2>2, <2>3, <3>1 DEF Fits
    <3>5. Fits(a, 4)
      BY <1>2, <2>2, <2>3, <3>1 DEF Fits
    <3> QED BY <2>2, <3>2, <3>3, <3>4, <3>5 DEF Shape
  <2> QED BY <2>2, <2>4 DEF a, Shaped
<1>5. L("data") \in Shaped /\ L("exists") \in Shaped /\ L("moved") \in Shaped
  BY <1>3
<1>6. /\ L("announce") \o Pump!Literal \in Shaped
      /\ L("fetch_literal") \o Pump!Literal \in Shaped
      /\ L("moved_literal") \o Pump!Literal \in Shaped
  BY <1>4 DEF Pump!Announcing
<1>7. /\ L("announce") \o Pump!Literal \o L("data") \in Shaped
      /\ L("fetch_literal") \o Pump!Literal \o L("data") \in Shaped
      /\ L("moved_literal") \o Pump!Literal \o L("data") \in Shaped
  BY <1>5, <1>6, ShapedJoin
<1>8. L("announce") \o Pump!Literal \o L("announce") \o Pump!Literal \o L("data") \in Shaped
  <2>1. L("announce") \o Pump!Literal \in Seq(Fragments) /\ L("announce") \in Seq(Fragments)
    BY <1>1, <1>2 DEF Responses, Pump!Announcing
  <2>2. L("announce") \o Pump!Literal \o L("announce") \o Pump!Literal
           = (L("announce") \o Pump!Literal) \o (L("announce") \o Pump!Literal)
    BY <1>2, <2>1, ConcatAssociative
  <2> QED BY <2>2, <1>5, <1>6, ShapedJoin
<1> QED BY <1>5, <1>7, <1>8 DEF L, Pump!Units

\* So has a stream of them.
LEMMA StreamShaped ==
    ASSUME NEW n \in Nat \ {0}, NEW u \in [1 .. n -> Pump!Units]
    PROVE  Pump!FlattenSeq(u) \in Shaped
<1>1. Len(u) = n /\ \A i \in 1 .. n : u[i] \in Shaped
  BY UnitsShaped
<1>2. PICK f : IsFlat(f, u, n) /\ Pump!FlattenSeq(u) = f[n]
  BY <1>1, PumpFlat
<1>3. \A i \in 1 .. n : f[i] \in Shaped
  BY <1>1, <1>2, ShapedJoin, FlatIsIn
<1> QED BY <1>2, <1>3

-----------------------------------------------------------------------------

\* Where the pump is in the stream.
CutInv ==
    /\ stream \in Shaped /\ splits \in BOOLEAN
    /\ got \in 0 .. Len(stream) /\ done \in 0 .. got /\ literal \in 0 .. 2

\* What it has sent on.
SentInv ==
    /\ out \in Seq([at : Nat, rewritten : BOOLEAN])
    /\ \A k \in DOMAIN out : out[k].at \in 1 .. done
    /\ Pump!NothingLost

\* As long as no chunk ends inside a line, no line is begun before it has been received,
\* and a literal is relayed as one.
WholeInv ==
    ~splits =>
        /\ got = 0 \/ stream[got].part = "end" \/ stream[got].body
        /\ literal = 0 /\ done < Len(stream) =>
               stream[done + 1].part = "head" /\ ~stream[done + 1].body
        /\ literal > 0 => done < Len(stream) /\ stream[done + 1].body
        /\ literal = 1 => stream[done + 1].part = "end"
        /\ literal = 2 => stream[done + 1].part = "head"

RelayInv == CutInv /\ SentInv /\ WholeInv /\ Pump!LiteralsVerbatim /\ Pump!FiltersApply

\* Some numbers have a lowest.
LEMMA LowestOf == ASSUME NEW S \in SUBSET Nat, S # {} PROVE \E m \in S : \A y \in S : m <= y
<1>1. PICK m \in S : \A y \in S : ~ (<<y, m>> \in OpToRel(<, Nat))
  BY NatLessThanWellFounded, WFMin
<1>2. ASSUME NEW y \in S PROVE m <= y
  <2>1. ~(y < m)
    BY <1>1 DEF OpToRel
  <2> QED BY <2>1
<1> QED BY <1>2

\* The first end in the buffer, which is the next fragment but one where a line begins.
LEMMA LineEnds ==
    ASSUME CutInv, Pump!Ends # {}
    PROVE  /\ Pump!FirstEnd \in done + 1 .. got /\ stream[Pump!FirstEnd].part = "end"
           /\ stream[done + 1].part = "head" =>
                  /\ Pump!FirstEnd = done + 2
                  /\ stream[done + 2].line = stream[done + 1].line
                  /\ stream[done + 2].body <=> stream[done + 1].body
<1> DEFINE first == Pump!FirstEnd
<1>1. Pump!Ends \in SUBSET Nat /\ done \in Nat /\ got \in Nat /\ Len(stream) \in Nat
  BY DEF CutInv, Shaped, Pump!Ends
<1>2. first \in Pump!Ends /\ \A j \in Pump!Ends : first <= j
  BY <1>1, LowestOf DEF Pump!FirstEnd
<1> HIDE DEF first
<1>3. first \in done + 1 .. got /\ stream[first].part = "end"
  BY <1>2 DEF Pump!Ends
<1>4. ASSUME stream[done + 1].part = "head"
      PROVE  /\ first = done + 2 /\ stream[done + 2].line = stream[done + 1].line
             /\ stream[done + 2].body <=> stream[done + 1].body
  <2>1. first # done + 1
    BY <1>3, <1>4
  <2>2. done + 2 <= first /\ done + 2 <= got /\ done + 1 \in 1 .. Len(stream)
    BY <1>1, <1>3, <2>1 DEF CutInv
  <2>3. Fits(stream, done + 1)
    BY <2>2 DEF CutInv, Shaped, Shape
  <2>4. (done + 1) + 1 = done + 2
    BY <1>1
  <2>5. /\ stream[done + 2].part = "end" /\ stream[done + 2].line = stream[done + 1].line
        /\ stream[done + 2].body <=> stream[done + 1].body
    BY <1>4, <2>3, <2>4 DEF Fits
  <2>6. done + 2 \in Pump!Ends
    BY <1>1, <2>2, <2>5 DEF Pump!Ends
  <2> QED BY <1>1, <1>2, <1>3, <2>2, <2>5, <2>6
<1> QED BY <1>3, <1>4 DEF first

\* What is sent on next goes after what was.
LEMMA Forwarded ==
    ASSUME CutInv, SentInv, NEW to \in done .. Len(stream), NEW again \in BOOLEAN,
           Pump!Forward(to, again), done' = to, stream' = stream
    PROVE  /\ SentInv'
           /\ \A k \in DOMAIN out : k \in DOMAIN out' /\ out'[k] = out[k]
           /\ \A k \in DOMAIN out' : \/ k \in DOMAIN out /\ out'[k] = out[k]
                                     \/ out'[k].at \in done + 1 .. to /\ out'[k].rewritten = again
           /\ \A i \in done + 1 .. to : [at |-> i, rewritten |-> again] \in Pump!ToSet(out')
<1> DEFINE more == [k \in 1 .. to - done |-> [at |-> done + k, rewritten |-> again]]
           Sent_ == [at : Nat, rewritten : BOOLEAN]
<1>1. done \in Nat /\ to \in Nat /\ done <= to
  BY DEF CutInv, Shaped
<1>2. more \in Seq(Sent_) /\ Len(more) = to - done
  BY <1>1
<1>3. \A k \in 1 .. Len(more) : more[k].at = done + k /\ more[k].rewritten = again
  BY <1>1, <1>2
<1>4. \A k \in 1 .. Len(more) : more[k] = [at |-> done + k, rewritten |-> again]
  BY <1>1, <1>2
<1>5. out' = out \o more /\ out \in Seq(Sent_)
  BY DEF Pump!Forward, SentInv
<1> HIDE DEF more
<1>6. /\ out' \in Seq(Sent_) /\ Len(out') = Len(out) + Len(more) /\ Len(out) \in Nat
      /\ \A k \in 1 .. Len(out) : out'[k] = out[k]
      /\ \A k \in 1 .. Len(more) : out'[Len(out) + k] = more[k]
  BY <1>2, <1>5
<1>7. DOMAIN out = 1 .. Len(out) /\ DOMAIN out' = 1 .. Len(out')
  BY <1>5, <1>6
<1>8. ASSUME NEW k \in 1 .. Len(out'), k \notin 1 .. Len(out)
      PROVE  k - Len(out) \in 1 .. Len(more) /\ out'[k] = more[k - Len(out)]
  <2>1. k - Len(out) \in 1 .. Len(more) /\ Len(out) + (k - Len(out)) = k
    BY <1>1, <1>2, <1>6, <1>8
  <2> QED BY <1>6, <2>1
<1>9. ASSUME NEW k \in 1 .. Len(out'), k \notin 1 .. Len(out)
      PROVE  /\ out'[k].at = done + (k - Len(out)) /\ out'[k].rewritten = again
             /\ out'[k].at \in done + 1 .. to
  <2>1. out'[k].at = done + (k - Len(out)) /\ out'[k].rewritten = again
    BY <1>3, <1>8, <1>9
  <2> QED BY <1>1, <1>2, <1>8, <1>9, <2>1
<1>10. ASSUME NEW i \in done + 1 .. to
       PROVE  \E k \in 1 .. Len(out') : /\ out'[k] = [at |-> i, rewritten |-> again]
                                         /\ out'[k].at = i
  <2>1. i - done \in 1 .. Len(more) /\ done + (i - done) = i
    BY <1>1, <1>2
  <2>2. more[i - done] = [at |-> i, rewritten |-> again] /\ more[i - done].at = i
    BY <1>3, <1>4, <2>1
  <2>3. Len(out') = Len(out) + Len(more) /\ Len(out) \in Nat
    BY <1>6
  <2>4. Len(out) + (i - done) \in 1 .. Len(out')
    BY <1>1, <1>2, <2>1, <2>3
  <2> QED BY <1>6, <2>1, <2>2, <2>4
<1>11. \A k \in 1 .. Len(out) : k \in 1 .. Len(out') /\ out'[k].at \in 1 .. done
  <2>1. Len(out') = Len(out) + Len(more) /\ Len(out) \in Nat /\ Len(more) \in Nat
    BY <1>1, <1>2, <1>6
  <2>2. \A k \in 1 .. Len(out) : k \in 1 .. Len(out')
    BY <2>1
  <2> QED BY <1>6, <1>7, <2>2 DEF SentInv
<1>12. \A k \in 1 .. Len(out') : out'[k].at \in 1 .. to
  <2> TAKE k \in 1 .. Len(out')
  <2>1. CASE k \in 1 .. Len(out)
    BY <1>1, <1>11, <2>1
  <2>2. CASE k \notin 1 .. Len(out)
    BY <1>1, <1>9, <2>2
  <2> QED BY <2>1, <2>2
<1>13. \A k \in 2 .. Len(out') : out'[k - 1].at < out'[k].at
  <2> TAKE k \in 2 .. Len(out')
  <2>1. k - 1 \in 1 .. Len(out') /\ k \in 1 .. Len(out')
    BY <1>6
  <2>2. CASE k \in 1 .. Len(out)
    <3>1. k \in 2 .. Len(out) /\ k - 1 \in 1 .. Len(out)
      BY <1>6, <2>2
    <3>2. out[k - 1].at < out[k].at
      BY <3>1 DEF SentInv, Pump!NothingLost
    <3> QED BY <1>6, <2>2, <3>1, <3>2
  <2>3. CASE k \notin 1 .. Len(out) /\ k - 1 \in 1 .. Len(out)
    <3>1. out'[k].at \in done + 1 .. to /\ out'[k - 1].at \in 1 .. done
      BY <1>9, <1>11, <2>1, <2>3
    <3> QED BY <1>1, <3>1
  <2>4. CASE k - 1 \notin 1 .. Len(out)
    <3>1. k \notin 1 .. Len(out)
      BY <1>6, <2>4
    <3>2. out'[k].at = done + (k - Len(out)) /\ out'[k - 1].at = done + ((k - 1) - Len(out))
      BY <1>9, <2>1, <2>4, <3>1
    <3> QED BY <1>1, <1>6, <3>2
  <2> QED BY <2>2, <2>3, <2>4
<1>14. \A i \in 1 .. to : stream[i].line = "moved" \/ \E k \in 1 .. Len(out') : out'[k].at = i
  <2> TAKE i \in 1 .. to
  <2>1. CASE i \in 1 .. done
    BY <1>6, <1>7, <1>11, <2>1 DEF SentInv, Pump!NothingLost
  <2>2. CASE i \in done + 1 .. to
    BY <1>10, <2>2
  <2> QED BY <1>1, <2>1, <2>2
<1>15. SentInv'
  BY <1>6, <1>7, <1>12, <1>13, <1>14 DEF SentInv, Pump!NothingLost
<1>16. \A i \in done + 1 .. to : [at |-> i, rewritten |-> again] \in Pump!ToSet(out')
  BY <1>7, <1>10 DEF Pump!ToSet
<1>17. \A k \in DOMAIN out : k \in DOMAIN out' /\ out'[k] = out[k]
  BY <1>6, <1>7, <1>11
<1>18. \A k \in DOMAIN out' : \/ k \in DOMAIN out /\ out'[k] = out[k]
                              \/ out'[k].at \in done + 1 .. to /\ out'[k].rewritten = again
  <2> TAKE k \in DOMAIN out'
  <2>1. CASE k \in DOMAIN out
    BY <1>17, <2>1
  <2>2. CASE k \notin 1 .. Len(out)
    BY <1>7, <1>9, <2>2
  <2> QED BY <1>7, <2>1, <2>2
<1> QED BY <1>15, <1>16, <1>17, <1>18

-----------------------------------------------------------------------------
(* The steps of the pump *)

\* After an end comes the literal it announces, or another line.
LEMMA AfterEnd ==
    ASSUME CutInv, NEW i \in 1 .. Len(stream) - 1, stream[i].part = "end"
    PROVE  /\ stream[i + 1].part = "head"
           /\ stream[i + 1].body <=> Announced(stream[i])
<1>1. i \in 1 .. Len(stream) /\ i + 1 \in 1 .. Len(stream) /\ (i + 1) - 1 = i
  BY DEF CutInv, Shaped
<1>2. Fits(stream, i) /\ Fits(stream, i + 1) /\ stream[i + 1] \in Fragments
  BY <1>1 DEF CutInv, Shaped, Shape
<1>3. stream[i + 1].part \in {"head", "end"}
  BY <1>2 DEF Fragments
<1>4. stream[i + 1].part = "head"
  BY <1>1, <1>2, <1>3 DEF Fits
<1> QED BY <1>1, <1>2, <1>4 DEF Fits

\* A literal is relayed as far as it has come.
LEMMA LiteralRelayed == RelayInv /\ Pump!RelayLiteral => RelayInv'
<1> SUFFICES ASSUME RelayInv, Pump!RelayLiteral PROVE RelayInv'
  OBVIOUS
<1> DEFINE n == IF got - done < literal THEN got - done ELSE literal
<1>0. CutInv /\ SentInv /\ WholeInv
  BY DEF RelayInv
<1>1. /\ done \in Nat /\ got \in Nat /\ Len(stream) \in Nat /\ got <= Len(stream) /\ done < got
      /\ literal \in {1, 2} /\ n \in {1, 2} /\ n <= literal /\ done + n <= got
  BY <1>0 DEF CutInv, Shaped, Pump!RelayLiteral
<1>2. /\ Pump!Forward(done + n, FALSE) /\ done' = done + n /\ literal' = literal - n
      /\ stream' = stream /\ splits' = splits /\ got' = got
  BY DEF Pump!RelayLiteral
<1> HIDE DEF n
<1>3. CutInv'
  BY <1>0, <1>1, <1>2 DEF CutInv
<1>4. done + n \in done .. Len(stream)
  BY <1>1
<1>5. /\ SentInv'
      /\ \A k \in DOMAIN out : k \in DOMAIN out' /\ out'[k] = out[k]
      /\ \A k \in DOMAIN out' : \/ k \in DOMAIN out /\ out'[k] = out[k]
                                \/ out'[k].at \in done + 1 .. done + n /\ out'[k].rewritten = FALSE
      /\ \A i \in done + 1 .. done + n : [at |-> i, rewritten |-> FALSE] \in Pump!ToSet(out')
  BY <1>0, <1>2, <1>4, Forwarded
<1>6. ASSUME ~splits
      PROVE  /\ \A i \in done + 1 .. done + n : stream[i].body /\ stream[i].line = "exists"
             /\ WholeInv'
  <2>1. /\ stream[done + 1].body
        /\ literal = 1 => stream[done + 1].part = "end"
        /\ literal = 2 => stream[done + 1].part = "head"
    BY <1>0, <1>1, <1>6 DEF WholeInv
  <2>2. Fits(stream, done + 1)
    BY <1>0, <1>1 DEF CutInv, Shaped, Shape
  <2>3. stream[done + 1].line = "exists" /\ (done + 1) + 1 = done + 2 /\ (done + 2) + 1 = done + 3
    BY <1>1, <2>1, <2>2 DEF Fits
  <2>4. literal = 2 => /\ done + 2 <= Len(stream) /\ stream[done + 2].part = "end"
                       /\ stream[done + 2].body /\ stream[done + 2].line = "exists"
    BY <1>1, <2>1, <2>2, <2>3 DEF Fits
  <2>5. CASE literal = 1
    <3>1. n = 1
      BY <1>1, <2>5
    <3>2. done + 1 < Len(stream) => stream[done + 2].part = "head" /\ ~stream[done + 2].body
      <4> SUFFICES ASSUME done + 1 < Len(stream)
                   PROVE  stream[done + 2].part = "head" /\ ~stream[done + 2].body
        OBVIOUS
      <4>1. done + 1 \in 1 .. Len(stream) - 1
        BY <1>1
      <4> QED BY <1>0, <2>1, <2>3, <2>5, <4>1, AfterEnd DEF Announced
    <3>3. \A i \in done + 1 .. done + n : i = done + 1
      BY <1>1, <3>1
    <3> QED BY <1>0, <1>1, <1>2, <1>6, <2>1, <2>3, <2>5, <3>1, <3>2, <3>3 DEF WholeInv
  <2>6. CASE literal = 2 /\ n = 1
    <3>1. \A i \in done + 1 .. done + n : i = done + 1
      BY <1>1, <2>6
    <3> QED BY <1>0, <1>1, <1>2, <1>6, <2>1, <2>3, <2>4, <2>6, <3>1 DEF WholeInv
  <2>7. CASE literal = 2 /\ n = 2
    <3>1. \A i \in done + 1 .. done + n : i = done + 1 \/ i = done + 2
      BY <1>1, <2>7
    <3>2. done + 2 < Len(stream) => stream[done + 3].part = "head" /\ ~stream[done + 3].body
      <4> SUFFICES ASSUME done + 2 < Len(stream)
                   PROVE  stream[done + 3].part = "head" /\ ~stream[done + 3].body
        OBVIOUS
      <4>1. done + 2 \in 1 .. Len(stream) - 1
        BY <1>1
      <4> QED BY <1>0, <2>3, <2>4, <2>7, <4>1, AfterEnd DEF Announced
    <3> QED BY <1>0, <1>1, <1>2, <1>6, <2>1, <2>3, <2>4, <2>7, <3>1, <3>2 DEF WholeInv
  <2> QED BY <1>1, <2>5, <2>6, <2>7
<1>7. WholeInv'
  BY <1>2, <1>6 DEF WholeInv
<1>8. Pump!LiteralsVerbatim'
  <2> SUFFICES ASSUME ~splits, NEW i \in 1 .. done', stream[i].body
               PROVE  [at |-> i, rewritten |-> FALSE] \in Pump!ToSet(out')
    BY <1>2 DEF Pump!LiteralsVerbatim
  <2>1. CASE i \in 1 .. done
    BY <1>5, <2>1 DEF RelayInv, Pump!LiteralsVerbatim, Pump!ToSet
  <2>2. CASE i \in done + 1 .. done + n
    BY <1>5, <2>2
  <2> QED BY <1>1, <1>2, <2>1, <2>2
<1>9. Pump!FiltersApply'
  <2> SUFFICES ASSUME ~splits, NEW k \in DOMAIN out'
               PROVE  /\ stream[out'[k].at].line # "moved"
                      /\ stream[out'[k].at].line = "exists" /\ ~stream[out'[k].at].body
                             => out'[k].rewritten
    BY <1>2 DEF Pump!FiltersApply
  <2>1. CASE k \in DOMAIN out /\ out'[k] = out[k]
    BY <2>1 DEF RelayInv, Pump!FiltersApply
  <2>2. CASE out'[k].at \in done + 1 .. done + n
    BY <1>6, <2>2
  <2> QED BY <1>5, <2>1, <2>2
<1> QED BY <1>3, <1>5, <1>7, <1>8, <1>9 DEF RelayInv

\* Nothing is relayed when a chunk arrives.
LEMMA ChunkRead == RelayInv /\ Pump!ReadChunk => RelayInv'
<1> SUFFICES ASSUME RelayInv, Pump!ReadChunk PROVE RelayInv'
  OBVIOUS
<1>1. PICK n \in 1 .. MaxChunk :
        /\ got + n <= Len(stream) /\ got' = got + n
        /\ splits \/ stream[got + n].part = "end" \/ stream[got + n].body
  BY DEF Pump!ReadChunk
<1>2. UNCHANGED <<stream, splits, done, literal, out>>
  BY DEF Pump!ReadChunk
<1>3. CutInv /\ SentInv /\ WholeInv
  BY DEF RelayInv
<1>4. CutInv'
  <2>1. got \in Nat /\ done \in 0 .. got /\ Len(stream) \in Nat /\ n \in Nat
    BY <1>3, PumpAssumption DEF CutInv, Shaped, Pump!RelayAssumption
  <2> QED BY <1>1, <1>2, <1>3, <2>1 DEF CutInv
<1>5. SentInv'
  BY <1>2, <1>3 DEF SentInv, Pump!NothingLost
<1>6. WholeInv'
  BY <1>1, <1>2, <1>3 DEF WholeInv
<1> QED BY <1>2, <1>4, <1>5, <1>6 DEF RelayInv, Pump!LiteralsVerbatim, Pump!FiltersApply, Pump!ToSet

\* The fragments of one line, where a line begins in the buffer.
LEMMA LineOf ==
    ASSUME CutInv, Pump!Ends # {}, stream[done + 1].part = "head", ~stream[done + 1].body
    PROVE  /\ Pump!FirstEnd = done + 2 /\ done + 2 <= Len(stream)
           /\ \A i \in done + 1 .. done + 2 :
                 ~stream[i].body /\ stream[i].line = stream[done + 1].line
           /\ stream[done + 1].line \in Responses
           /\ done + 2 < Len(stream) =>
                 /\ stream[done + 3].part = "head"
                 /\ stream[done + 3].body <=> stream[done + 1].line \in Pump!Announcing
           /\ stream[done + 1].line \in Pump!Announcing => done + 2 < Len(stream)
<1>1. done \in Nat /\ got \in Nat /\ Len(stream) \in Nat /\ got <= Len(stream)
  BY DEF CutInv, Shaped
<1>2. /\ Pump!FirstEnd \in done + 1 .. got /\ stream[Pump!FirstEnd].part = "end"
      /\ Pump!FirstEnd = done + 2 /\ stream[done + 2].line = stream[done + 1].line
      /\ ~stream[done + 2].body
  BY LineEnds
<1>3. done + 2 <= Len(stream) /\ done + 2 \in 1 .. Len(stream) /\ done + 1 \in 1 .. Len(stream)
  BY <1>1, <1>2
<1>4. \A i \in done + 1 .. done + 2 : i = done + 1 \/ i = done + 2
  BY <1>1
<1>5. \A i \in done + 1 .. done + 2 : ~stream[i].body /\ stream[i].line = stream[done + 1].line
  BY <1>2, <1>4
<1>6. stream[done + 1].line \in Responses
  <2>1. stream[done + 1] \in Fragments
    BY <1>3 DEF CutInv, Shaped
  <2> QED BY <2>1 DEF Fragments
<1>7. stream[done + 2].part = "end" /\ (Announced(stream[done + 2]) <=> stream[done + 1].line \in Pump!Announcing)
  BY <1>2 DEF Announced
<1>8. ASSUME done + 2 < Len(stream)
      PROVE  /\ stream[done + 3].part = "head"
             /\ stream[done + 3].body <=> stream[done + 1].line \in Pump!Announcing
  <2>1. done + 2 \in 1 .. Len(stream) - 1 /\ (done + 2) + 1 = done + 3
    BY <1>1, <1>8
  <2>2. /\ stream[(done + 2) + 1].part = "head"
        /\ stream[(done + 2) + 1].body <=> Announced(stream[done + 2])
    BY <1>7, <2>1, AfterEnd
  <2> QED BY <1>7, <2>1, <2>2
<1>9. stream[done + 1].line \in Pump!Announcing => done + 2 < Len(stream)
  <2>1. Fits(stream, done + 2)
    BY <1>3 DEF CutInv, Shaped, Shape
  <2> QED BY <1>7, <2>1 DEF Fits
<1> QED BY <1>2, <1>3, <1>5, <1>6, <1>8, <1>9

\* A line that is suppressed has no literal.
LEMMA LineSuppressed == RelayInv /\ Pump!SuppressFetch => RelayInv'
<1> SUFFICES ASSUME RelayInv, Pump!SuppressFetch PROVE RelayInv'
  OBVIOUS
<1>1. /\ literal = 0 /\ Pump!Ends # {} /\ stream[done + 1].part = "head"
      /\ stream[done + 1].line = "moved"
      /\ UNCHANGED <<stream, splits, got, literal, out>> /\ done' = Pump!FirstEnd
  BY DEF Pump!SuppressFetch, Pump!LineKind
<1>2. CutInv /\ SentInv /\ WholeInv
  BY DEF RelayInv
<1>3. done \in Nat /\ got \in Nat /\ Len(stream) \in Nat
  BY <1>2 DEF CutInv, Shaped
<1>4. Pump!FirstEnd \in done + 1 .. got
  BY <1>1, <1>2, LineEnds
<1>5. ~stream[done + 1].body
  <2>1. done + 1 \in 1 .. Len(stream)
    BY <1>2, <1>3, <1>4 DEF CutInv
  <2>2. Fits(stream, done + 1)
    BY <1>2, <2>1 DEF CutInv, Shaped, Shape
  <2> QED BY <1>1, <2>2 DEF Fits
<1>6. /\ done' = done + 2 /\ done + 2 <= Len(stream)
      /\ \A i \in done + 1 .. done + 2 : ~stream[i].body /\ stream[i].line = "moved"
      /\ done + 2 < Len(stream) => stream[done + 3].part = "head" /\ ~stream[done + 3].body
  BY <1>1, <1>2, <1>5, LineOf DEF Pump!Announcing
<1>7. CutInv'
  BY <1>1, <1>2, <1>3, <1>4 DEF CutInv
<1>8. \A i \in 1 .. done + 2 : i \in 1 .. done \/ i \in done + 1 .. done + 2
  BY <1>3
<1>9. SentInv'
  <2>1. \A k \in DOMAIN out : out[k].at \in 1 .. done + 2
    BY <1>2, <1>3 DEF SentInv
  <2>2. \A i \in 1 .. done + 2 : stream[i].line = "moved" \/ \E k \in DOMAIN out : out[k].at = i
    BY <1>2, <1>6, <1>8 DEF SentInv, Pump!NothingLost
  <2>3. \A k \in 2 .. Len(out) : out[k - 1].at < out[k].at
    BY <1>2 DEF SentInv, Pump!NothingLost
  <2> QED BY <1>1, <1>2, <1>6, <2>1, <2>2, <2>3 DEF SentInv, Pump!NothingLost
<1>10. WholeInv'
  <2>1. (done + 2) + 1 = done + 3
    BY <1>3
  <2> QED BY <1>1, <1>2, <1>6, <2>1 DEF WholeInv
<1>11. Pump!LiteralsVerbatim'
  BY <1>1, <1>6, <1>8 DEF RelayInv, Pump!LiteralsVerbatim, Pump!ToSet
<1>12. Pump!FiltersApply'
  BY <1>1 DEF RelayInv, Pump!FiltersApply
<1> QED BY <1>7, <1>9, <1>10, <1>11, <1>12 DEF RelayInv

\* A line goes through the filters, and its literal is counted.
LEMMA LineForwarded == RelayInv /\ Pump!ForwardLine => RelayInv'
<1> SUFFICES ASSUME RelayInv, Pump!ForwardLine PROVE RelayInv'
  OBVIOUS
<1> DEFINE last == Pump!FirstEnd
           exists == Pump!LineKind = "exists"
<1>1. /\ literal = 0 /\ Pump!Ends # {} /\ Pump!LineKind # "moved"
      /\ UNCHANGED <<stream, splits, got>> /\ done' = last
      /\ Pump!Forward(last, exists)
      /\ literal' = IF Pump!Announces(last) THEN 2 ELSE 0
  BY DEF Pump!ForwardLine, Pump!LiteralSize
<1>2. CutInv /\ SentInv /\ WholeInv
  BY DEF RelayInv
<1>3. done \in Nat /\ got \in Nat /\ Len(stream) \in Nat /\ got <= Len(stream)
  BY <1>2 DEF CutInv, Shaped
<1>4. last \in done + 1 .. got /\ exists \in BOOLEAN
  BY <1>1, <1>2, LineEnds
<1> HIDE DEF last, exists
<1>5. last \in done .. Len(stream)
  BY <1>3, <1>4
<1>6. /\ SentInv'
      /\ \A k \in DOMAIN out : k \in DOMAIN out' /\ out'[k] = out[k]
      /\ \A k \in DOMAIN out' : \/ k \in DOMAIN out /\ out'[k] = out[k]
                                \/ out'[k].at \in done + 1 .. last /\ out'[k].rewritten = exists
  BY <1>1, <1>2, <1>4, <1>5, Forwarded
<1>7. CutInv'
  BY <1>1, <1>2, <1>3, <1>4 DEF CutInv
<1>8. ASSUME ~splits
      PROVE  /\ \A i \in done + 1 .. last : /\ ~stream[i].body /\ stream[i].line # "moved"
                                            /\ stream[i].line = "exists" => exists
             /\ WholeInv'
  <2>1. stream[done + 1].part = "head" /\ ~stream[done + 1].body
    <3>1. done < Len(stream)
      BY <1>3, <1>4
    <3> QED BY <1>1, <1>2, <1>8, <3>1 DEF WholeInv
  <2> DEFINE kind == stream[done + 1].line
  <2>2. /\ last = done + 2 /\ done + 2 <= Len(stream)
        /\ \A i \in done + 1 .. done + 2 : ~stream[i].body /\ stream[i].line = kind
        /\ kind \in Responses
        /\ done + 2 < Len(stream) => /\ stream[done + 3].part = "head"
                                     /\ stream[done + 3].body <=> kind \in Pump!Announcing
        /\ kind \in Pump!Announcing => done + 2 < Len(stream)
    BY <1>1, <1>2, <2>1, LineOf DEF last
  <2>3. Pump!LineKind = kind /\ kind # "moved" /\ kind # "rest" /\ (kind = "exists" => exists)
    BY <1>1, <2>1, <2>2 DEF Pump!LineKind, exists, Responses, Pump!Announcing
  <2>4. /\ kind \in Pump!Announcing => literal' = 2
        /\ kind \notin Pump!Announcing => literal' = 0
    <3>1. stream[last].line = kind
      BY <1>3, <2>2
    <3> QED BY <1>1, <2>3, <3>1 DEF Pump!Announces
  <2>5. got = 0 \/ stream[got].part = "end" \/ stream[got].body
    BY <1>2, <1>8 DEF WholeInv
  <2>6. WholeInv'
    <3>1. (done + 2) + 1 = done + 3
      BY <1>3
    <3> HIDE DEF kind
    <3> QED BY <1>1, <2>2, <2>4, <2>5, <3>1 DEF WholeInv
  <2> QED BY <2>2, <2>3, <2>6
<1>9. WholeInv'
  BY <1>1, <1>8 DEF WholeInv
<1>10. Pump!LiteralsVerbatim'
  <2> SUFFICES ASSUME ~splits, NEW i \in 1 .. last, stream[i].body
               PROVE  [at |-> i, rewritten |-> FALSE] \in Pump!ToSet(out')
    BY <1>1 DEF Pump!LiteralsVerbatim
  <2>1. CASE i \in 1 .. done
    BY <1>6, <2>1 DEF RelayInv, Pump!LiteralsVerbatim, Pump!ToSet
  <2>2. CASE i \in done + 1 .. last
    BY <1>8, <2>2
  <2> QED BY <1>3, <1>4, <2>1, <2>2
<1>11. Pump!FiltersApply'
  <2> SUFFICES ASSUME ~splits, NEW k \in DOMAIN out'
               PROVE  /\ stream[out'[k].at].line # "moved"
                      /\ stream[out'[k].at].line = "exists" /\ ~stream[out'[k].at].body
                             => out'[k].rewritten
    BY <1>1 DEF Pump!FiltersApply
  <2>1. CASE k \in DOMAIN out /\ out'[k] = out[k]
    BY <2>1 DEF RelayInv, Pump!FiltersApply
  <2>2. CASE out'[k].at \in done + 1 .. last /\ out'[k].rewritten = exists
    BY <1>8, <2>2
  <2> QED BY <1>6, <2>1, <2>2
<1> QED BY <1>6, <1>7, <1>9, <1>10, <1>11 DEF RelayInv

\* The beginning of a line is sent on only when chunks end inside lines.
LEMMA PartialForwarded == RelayInv /\ Pump!ForwardPartial => RelayInv'
<1> SUFFICES ASSUME RelayInv, Pump!ForwardPartial PROVE RelayInv'
  OBVIOUS
<1>1. /\ literal = 0 /\ Pump!Ends = {} /\ got > done
      /\ Pump!Forward(got, FALSE) /\ done' = got
      /\ UNCHANGED <<stream, splits, got, literal>>
  BY DEF Pump!ForwardPartial
<1>2. CutInv /\ SentInv /\ WholeInv
  BY DEF RelayInv
<1>3. done \in Nat /\ got \in Nat /\ Len(stream) \in Nat /\ got <= Len(stream)
  BY <1>2 DEF CutInv, Shaped
<1>4. splits
  <2> SUFFICES ASSUME ~splits PROVE FALSE
    OBVIOUS
  <2>1. \A i \in done + 1 .. got : stream[i].part # "end"
    BY <1>1 DEF Pump!Ends
  <2>2. stream[got].body /\ stream[done + 1].part = "head" /\ ~stream[done + 1].body
    BY <1>1, <1>2, <1>3, <2>1 DEF WholeInv
  <2>3. Fits(stream, done + 1) /\ (done + 1) + 1 = done + 2
    BY <1>1, <1>2, <1>3 DEF CutInv, Shaped, Shape
  <2>4. stream[done + 2].part = "end"
    BY <2>2, <2>3 DEF Fits
  <2>5. got # done + 1
    BY <2>2
  <2>6. done + 2 \in done + 1 .. got
    BY <1>1, <1>3, <2>5
  <2> QED BY <2>1, <2>4, <2>6
<1>5. got \in done .. Len(stream)
  BY <1>1, <1>3
<1>6. SentInv'
  BY <1>1, <1>2, <1>5, Forwarded
<1>7. CutInv'
  BY <1>1, <1>2, <1>3 DEF CutInv
<1> QED BY <1>1, <1>4, <1>6, <1>7 DEF RelayInv, WholeInv, Pump!LiteralsVerbatim, Pump!FiltersApply

\* Before anything was received.
LEMMA RelayStarts == RelayStands \/ Pump!Init => RelayInv
<1>1. ASSUME stream \in Shaped, splits \in BOOLEAN, got = 0, done = 0, literal = 0, out = <<>>
      PROVE  RelayInv
  <2>1. Len(stream) \in Nat
    BY <1>1 DEF Shaped
  <2>2. CutInv
    BY <1>1, <2>1 DEF CutInv
  <2>3. SentInv
    BY <1>1 DEF SentInv, Pump!NothingLost
  <2>4. 0 < Len(stream) => stream[1].part = "head" /\ ~stream[1].body
    <3> SUFFICES ASSUME 0 < Len(stream) PROVE stream[1].part = "head" /\ ~stream[1].body
      OBVIOUS
    <3>1. 1 \in 1 .. Len(stream)
      BY <2>1
    <3>2. Fits(stream, 1) /\ stream[1] \in Fragments
      BY <1>1, <3>1 DEF Shaped, Shape
    <3>3. stream[1].part \in {"head", "end"}
      BY <3>2 DEF Fragments
    <3> QED BY <3>2, <3>3 DEF Fits
  <2>5. WholeInv
    BY <1>1, <2>4 DEF WholeInv
  <2> QED BY <1>1, <2>2, <2>3, <2>5 DEF RelayInv, Pump!LiteralsVerbatim, Pump!FiltersApply
<1>2. RelayStands => stream \in Shaped /\ splits \in BOOLEAN
  <2>1. <<>> \in Seq(Fragments) /\ Len(<<>>) = 0
    OBVIOUS
  <2>2. <<>> \in Shaped
    BY <2>1 DEF Shaped, Shape
  <2> QED BY <2>2 DEF RelayStands
<1>3. Pump!Init => stream \in Shaped
  <2> SUFFICES ASSUME Pump!Init PROVE stream \in Shaped
    OBVIOUS
  <2>1. PICK n \in 1 .. MaxUnits : \E u \in [1 .. n -> Pump!Units] : stream = Pump!FlattenSeq(u)
    BY DEF Pump!Init
  <2>2. PICK u \in [1 .. n -> Pump!Units] : stream = Pump!FlattenSeq(u)
    BY <2>1
  <2>3. n \in Nat \ {0}
    BY PumpAssumption DEF Pump!RelayAssumption
  <2> QED BY <2>2, <2>3, StreamShaped
<1> QED BY <1>1, <1>2, <1>3 DEF RelayStands, Pump!Init

\* All of it.
LEMMA RelayStep ==
    /\ RelayInv /\ Pump!Next => RelayInv'
    /\ RelayInv /\ UNCHANGED relayVars => RelayInv'
<1>1. RelayInv /\ Pump!Next => RelayInv'
  BY ChunkRead, LiteralRelayed, LineSuppressed, LineForwarded, PartialForwarded DEF Pump!Next
<1>2. RelayInv /\ UNCHANGED relayVars => RelayInv'
  <2> SUFFICES ASSUME RelayInv, UNCHANGED relayVars PROVE RelayInv'
    OBVIOUS
  <2>1. /\ stream' = stream /\ splits' = splits /\ got' = got /\ done' = done
        /\ literal' = literal /\ out' = out
    BY DEF relayVars
  <2>2. CutInv' /\ SentInv' /\ WholeInv'
    BY <2>1 DEF RelayInv, CutInv, SentInv, WholeInv, Pump!NothingLost
  <2> QED BY <2>1, <2>2 DEF RelayInv, Pump!LiteralsVerbatim, Pump!FiltersApply, Pump!ToSet
<1> QED BY <1>1, <1>2

-----------------------------------------------------------------------------
(* The agent's bytes (CommandReader) *)

\* A piece of what the agent sends: a line of a command, or the literal after it.
Pieces == [what : {"line", "data"}, cmd : Nat, part : Nat, whole : BOOLEAN]

IsLine(t, i, p) == t.what = "line" /\ t.cmd = i /\ t.part = p
IsData(t, i, p) == t.what = "data" /\ t.cmd = i /\ t.part = p
Begins(t) == t.what = "line" /\ t.part = 1

\* x comes after the line p, which announces a literal; x comes after t.
AfterLine(c, i, p, x) ==
    IF c.lits[p].size = "empty" THEN IsLine(x, i, p + 1) ELSE IsData(x, i, p)
Follows(c, t, x) ==
    /\ t.what = "data" => IsLine(x, t.cmd, t.part + 1)
    /\ t.what = "line" /\ t.part = Len(c.lits) + 1 => IsLine(x, t.cmd + 1, 1)
    /\ t.what = "line" /\ t.part # Len(c.lits) + 1 => ~c.lits[t.part].sync /\ AfterLine(c, t.cmd, t.part, x)

\* A piece of command c.
IsPart(c, t) ==
    /\ t.part \in 1 .. Len(c.lits) + 1
    /\ t.what = "data" => t.part <= Len(c.lits)

-----------------------------------------------------------------------------
(* What the client sends *)

\* The literals a command may have.
LEMMA CommandLits ==
    ASSUME NEW c \in Commands!Commands
    PROVE  /\ c.lits \in Seq(Commands!Literals) /\ Len(c.lits) \in 0 .. 2
           /\ c.verb = "bad" => Len(c.lits) < 2
           /\ c.verb = "other" => Len(c.lits) = 1
           /\ c.verb \in {"append", "sent"} => c.lits # <<>>
           /\ c.verb = "sent" => c.lits = <<Commands!Sync("fits")>>
           /\ c.verb \in {"read", "write", "local"} => c.lits = <<>>
<1> DEFINE Fit == {Commands!Sync("fits"), [sync |-> FALSE, size |-> "fits"]}
           Bare == {Commands!Command(v, <<>>) : v \in {"read", "write", "local", "bad"}}
           Single == {Commands!Command(v, <<l>>) : v \in {"append", "other", "bad"}, l \in Commands!Literals}
           Double == {Commands!Command("append", <<l, m>>) : l \in Fit, m \in Commands!Literals}
<1>1. /\ Commands!Sync("fits") \in Commands!Literals
      /\ \A l \in Fit : l \in Commands!Literals
  BY DEF Commands!Sync, Commands!Literals
<1>2. \/ c \in Bare \/ c \in Single \/ c \in Double
      \/ c = Commands!Command("sent", <<Commands!Sync("fits")>>)
  <2>1. Commands!Commands = Bare \cup Single \cup Double \cup {Commands!Command("sent", <<Commands!Sync("fits")>>)}
    BY DEF Commands!Commands
  <2> HIDE DEF Bare, Single, Double
  <2> QED BY <2>1
<1> HIDE DEF Fit
<1>3. CASE c \in Bare
  <2>1. c.lits = <<>> /\ c.verb \in {"read", "write", "local", "bad"}
    BY <1>3 DEF Commands!Command
  <2>2. <<>> \in Seq(Commands!Literals) /\ Len(<<>>) = 0
    OBVIOUS
  <2> QED BY <2>1, <2>2
<1>4. CASE c \in Single
  <2>1. \E l \in Commands!Literals : c.lits = <<l>> /\ c.verb \in {"append", "other", "bad"}
    BY <1>4 DEF Commands!Command
  <2>2. PICK l \in Commands!Literals : c.lits = <<l>> /\ c.verb \in {"append", "other", "bad"}
    BY <2>1
  <2>3. <<l>> \in Seq(Commands!Literals) /\ Len(<<l>>) = 1 /\ <<l>> # <<>>
    OBVIOUS
  <2> QED BY <2>2, <2>3
<1>5. CASE c \in Double
  <2>1. \E l \in Commands!Literals, k \in Commands!Literals : c.lits = <<l, k>> /\ c.verb = "append"
    BY <1>1, <1>5 DEF Commands!Command
  <2>2. PICK l \in Commands!Literals, k \in Commands!Literals :
           c.lits = <<l, k>> /\ c.verb = "append"
    BY <2>1
  <2>3. <<l, k>> \in Seq(Commands!Literals) /\ Len(<<l, k>>) = 2 /\ <<l, k>> # <<>>
    OBVIOUS
  <2> QED BY <2>2, <2>3
<1>6. CASE c = Commands!Command("sent", <<Commands!Sync("fits")>>)
  <2>1. c.lits = <<Commands!Sync("fits")>> /\ c.verb = "sent"
    BY <1>6 DEF Commands!Command
  <2>2. \A l \in Commands!Literals : <<l>> \in Seq(Commands!Literals) /\ Len(<<l>>) = 1 /\ <<l>> # <<>>
    OBVIOUS
  <2> QED BY <1>1, <2>1, <2>2
<1> HIDE DEF Bare, Single, Double
<1> QED BY <1>2, <1>3, <1>4, <1>5, <1>6

\* The pieces of command i from line p to line q, and the literal before line p.
Stretch(c, i, p, q, s) ==
    /\ s \in Seq(Pieces) /\ Len(s) > 0
    /\ \A k \in 1 .. Len(s) : s[k].cmd = i /\ s[k].whole /\ IsPart(c, s[k])
    /\ \A k \in 2 .. Len(s) : ~Begins(s[k])
    /\ \A k \in 1 .. Len(s) - 1 : Follows(c, s[k], s[k + 1])
    /\ p = 1 => IsLine(s[1], i, 1)
    /\ p > 1 => ~Begins(s[1]) /\ AfterLine(c, i, p - 1, s[1])
    /\ IsLine(s[Len(s)], i, q)

\* One after the other.
LEMMA StretchJoin ==
    ASSUME NEW c, Len(c.lits) \in Nat, NEW i \in Nat,
           NEW p \in Nat \ {0}, NEW q \in Nat \ {0}, NEW r \in Nat, NEW s, NEW t,
           Stretch(c, i, p, q, s), Stretch(c, i, q + 1, r, t),
           q <= Len(c.lits), ~c.lits[q].sync
    PROVE  Stretch(c, i, p, r, s \o t)
<1> DEFINE j == s \o t
<1>1. s \in Seq(Pieces) /\ t \in Seq(Pieces) /\ Len(s) > 0 /\ Len(t) > 0
  BY DEF Stretch
<1>2. /\ Len(s) \in Nat /\ Len(t) \in Nat
      /\ j \in Seq(Pieces) /\ Len(j) = Len(s) + Len(t)
      /\ \A k \in 1 .. Len(s) : j[k] = s[k]
      /\ \A k \in 1 .. Len(t) : j[Len(s) + k] = t[k]
  BY <1>1
<1> HIDE DEF j
<1>3. \A k \in 1 .. Len(j) : k \in 1 .. Len(s) \/ (k - Len(s) \in 1 .. Len(t) /\ k = Len(s) + (k - Len(s)))
  BY <1>2
<1>4. \A k \in 1 .. Len(j) : j[k].cmd = i /\ j[k].whole /\ IsPart(c, j[k])
  <2>1. /\ \A k \in 1 .. Len(s) : s[k].cmd = i /\ s[k].whole /\ IsPart(c, s[k])
        /\ \A k \in 1 .. Len(t) : t[k].cmd = i /\ t[k].whole /\ IsPart(c, t[k])
    BY DEF Stretch
  <2>2. TAKE k \in 1 .. Len(j)
  <2>3. CASE k \in 1 .. Len(s)
    BY <1>2, <2>1, <2>3
  <2>4. CASE k - Len(s) \in 1 .. Len(t) /\ k = Len(s) + (k - Len(s))
    <3>1. j[k] = t[k - Len(s)]
      BY <1>2, <2>4
    <3> QED BY <2>1, <2>4, <3>1
  <2> QED BY <1>3, <2>3, <2>4
<1>5. /\ 1 \in 1 .. Len(s) /\ 1 \in 1 .. Len(t) /\ Len(s) \in 1 .. Len(s) /\ Len(t) \in 1 .. Len(t)
      /\ (q + 1) - 1 = q /\ q + 1 > 1 /\ q # Len(c.lits) + 1
  BY <1>1, <1>2
<1>6. j[1] = s[1] /\ j[Len(s)] = s[Len(s)] /\ j[Len(s) + 1] = t[1] /\ j[Len(j)] = t[Len(t)]
  BY <1>2, <1>5
<1>7. ~Begins(t[1]) /\ AfterLine(c, i, q, t[1]) /\ IsLine(s[Len(s)], i, q)
  BY <1>5 DEF Stretch
<1>8. Follows(c, s[Len(s)], t[1])
  BY <1>5, <1>7 DEF Follows, IsLine
<1>9. \A k \in 2 .. Len(j) : ~Begins(j[k])
  <2>1. TAKE k \in 2 .. Len(j)
  <2>2. CASE k \in 1 .. Len(s)
    <3>1. k \in 2 .. Len(s) /\ j[k] = s[k]
      BY <1>2, <2>2
    <3> QED BY <3>1 DEF Stretch
  <2>3. CASE k = Len(s) + 1
    BY <1>6, <1>7, <2>3
  <2>4. CASE k \notin 1 .. Len(s) /\ k # Len(s) + 1
    <3>1. k - Len(s) \in 2 .. Len(t) /\ k = Len(s) + (k - Len(s))
      BY <1>2, <2>4
    <3>2. j[k] = t[k - Len(s)]
      <4>1. k - Len(s) \in 1 .. Len(t)
        BY <3>1
      <4> QED BY <1>2, <3>1, <4>1
    <3> QED BY <3>1, <3>2 DEF Stretch
  <2> QED BY <2>2, <2>3, <2>4
<1>10. \A k \in 1 .. Len(j) - 1 : Follows(c, j[k], j[k + 1])
  <2>1. TAKE k \in 1 .. Len(j) - 1
  <2>2. CASE k \in 1 .. Len(s) - 1
    <3>1. k \in 1 .. Len(s) /\ k + 1 \in 1 .. Len(s)
      BY <1>2, <2>2
    <3>2. j[k] = s[k] /\ j[k + 1] = s[k + 1]
      BY <1>2, <3>1
    <3> QED BY <2>2, <3>2 DEF Stretch
  <2>3. CASE k = Len(s)
    BY <1>6, <1>8, <2>3
  <2>4. CASE k \notin 1 .. Len(s)
    <3>1. /\ k - Len(s) \in 1 .. Len(t) - 1 /\ k = Len(s) + (k - Len(s))
          /\ (k - Len(s)) + 1 \in 1 .. Len(t) /\ k + 1 = Len(s) + ((k - Len(s)) + 1)
      <4> DEFINE a == Len(s)
                 b == Len(t)
      <4>1. a \in Nat /\ b \in Nat /\ k \in 1 .. a + b - 1 /\ k \notin 1 .. a
        BY <1>2, <2>4
      <4> HIDE DEF a, b
      <4>2. /\ k - a \in 1 .. b - 1 /\ k = a + (k - a)
            /\ (k - a) + 1 \in 1 .. b /\ k + 1 = a + ((k - a) + 1)
        BY ONLY <4>1
      <4> QED BY <4>2 DEF a, b
    <3>2. j[k] = t[k - Len(s)]
      <4>1. k - Len(s) \in 1 .. Len(t)
        BY <1>2, <3>1
      <4> QED BY <1>2, <3>1, <4>1
    <3>3. j[k + 1] = t[(k - Len(s)) + 1]
      <4>1. j[Len(s) + ((k - Len(s)) + 1)] = t[(k - Len(s)) + 1]
        BY <1>2, <3>1
      <4> QED BY <3>1, <4>1
    <3> QED BY <3>1, <3>2, <3>3 DEF Stretch
  <2> QED BY <1>2, <2>2, <2>3, <2>4
<1>11. /\ p = 1 => IsLine(j[1], i, 1)
       /\ p > 1 => ~Begins(j[1]) /\ AfterLine(c, i, p - 1, j[1])
       /\ IsLine(j[Len(j)], i, r)
  BY <1>6 DEF Stretch
<1>12. j \in Seq(Pieces) /\ Len(j) > 0
  BY <1>1, <1>2
<1> QED BY <1>4, <1>9, <1>10, <1>11, <1>12 DEF Stretch, j

\* One piece and another.
LEMMA OneAndOne ==
    ASSUME NEW S, NEW x \in Seq(S), NEW y \in Seq(S)
    PROVE  Len(x) = 1 /\ Len(y) = 1 =>
               /\ x \o y \in Seq(S) /\ Len(x \o y) = 2
               /\ (x \o y)[1] = x[1] /\ (x \o y)[2] = y[1]
<1> DEFINE j == x \o y
<1>1. /\ j \in Seq(S) /\ Len(j) = Len(x) + Len(y)
      /\ \A i \in 1 .. Len(x) : j[i] = x[i]
      /\ \A i \in 1 .. Len(y) : j[Len(x) + i] = y[i]
  OBVIOUS
<1> HIDE DEF j
<1> HAVE Len(x) = 1 /\ Len(y) = 1
<1>2. 1 \in 1 .. Len(x) /\ 1 \in 1 .. Len(y)
  OBVIOUS
<1>3. j[1] = x[1] /\ j[Len(x) + 1] = y[1]
  BY <1>1, <1>2
<1>4. Len(x) + 1 = 2 /\ Len(x) + Len(y) = 2
  OBVIOUS
<1> QED BY <1>1, <1>3, <1>4 DEF j

\* A line and the literal before it.
Unit(c, i, q) ==
    (IF q = 1 THEN <<>> ELSE Commands!Data(c, i, q - 1)) \o Commands!Token("line", i, q)

\* It is all of the pieces from that line to that line.
LEMMA UnitIsStretch ==
    ASSUME NEW c \in Commands!Commands, NEW i \in Nat, NEW q \in 1 .. Len(c.lits) + 1
    PROVE  Stretch(c, i, q, q, Unit(c, i, q))
<1>1. Len(c.lits) \in Nat
  BY CommandLits
<1> DEFINE a == [what |-> "line", cmd |-> i, part |-> q, whole |-> TRUE]
           d == [what |-> "data", cmd |-> i, part |-> q - 1, whole |-> TRUE]
<1>2. a \in Pieces /\ IsLine(a, i, q) /\ a.whole /\ a.cmd = i /\ IsPart(c, a) /\ (q # 1 => ~Begins(a))
  BY <1>1 DEF Pieces, IsLine, IsPart, Begins
<1>3. q # 1 => /\ d \in Pieces /\ IsData(d, i, q - 1) /\ d.whole /\ d.cmd = i
               /\ IsPart(c, d) /\ ~Begins(d)
  BY <1>1 DEF Pieces, IsData, IsPart, Begins
<1>4. q # 1 => Follows(c, d, a)
  BY <1>1 DEF Follows, IsLine
<1> HIDE DEF a, d
<1>5. CASE q = 1 \/ c.lits[q - 1].size = "empty"
  <2>1. Unit(c, i, q) = <<a>>
    <3>1. Unit(c, i, q) = <<>> \o <<a>>
      BY <1>5 DEF Unit, Commands!Data, Commands!Token, a
    <3> QED BY <3>1
  <2> DEFINE s == Unit(c, i, q)
  <2>2. s \in Seq(Pieces) /\ Len(s) = 1 /\ s[1] = a
    BY <1>2, <2>1
  <2> HIDE DEF s
  <2>3. \A k \in 1 .. Len(s) : k = 1
    BY <2>2
  <2>4. /\ \A k \in 2 .. Len(s) : FALSE
        /\ \A k \in 1 .. Len(s) - 1 : FALSE
    BY <2>2
  <2>5. q > 1 => AfterLine(c, i, q - 1, a)
    BY <1>1, <1>2, <1>5 DEF AfterLine
  <2> QED BY <1>1, <1>2, <2>2, <2>3, <2>4, <2>5 DEF Stretch, s
<1>6. CASE q # 1 /\ c.lits[q - 1].size # "empty"
  <2>1. Unit(c, i, q) = <<d>> \o <<a>>
    BY <1>6 DEF Unit, Commands!Data, Commands!Token, a, d
  <2> DEFINE s == Unit(c, i, q)
  <2>2. s \in Seq(Pieces) /\ Len(s) = 2 /\ s[1] = d /\ s[2] = a
    <3> DEFINE x == <<d>>
               y == <<a>>
    <3>1. /\ x \in Seq(Pieces) /\ Len(x) = 1 /\ x[1] = d
          /\ y \in Seq(Pieces) /\ Len(y) = 1 /\ y[1] = a
      BY <1>2, <1>3, <1>6
    <3>2. s = x \o y
      BY <2>1
    <3> HIDE DEF x, y, s
    <3>3. /\ x \o y \in Seq(Pieces) /\ Len(x \o y) = 2
          /\ (x \o y)[1] = x[1] /\ (x \o y)[2] = y[1]
      BY <3>1, OneAndOne
    <3> QED BY <3>1, <3>2, <3>3
  <2> HIDE DEF s
  <2>3. \A k \in 1 .. Len(s) : k = 1 \/ k = 2
    BY <2>2
  <2>4. /\ \A k \in 2 .. Len(s) : k = 2
        /\ \A k \in 1 .. Len(s) - 1 : k = 1
    BY <2>2
  <2>5. \A k \in 1 .. Len(s) - 1 : Follows(c, s[k], s[k + 1])
    BY <1>4, <1>6, <2>2, <2>4
  <2>6. \A k \in 1 .. Len(s) : s[k].cmd = i /\ s[k].whole /\ IsPart(c, s[k])
    BY <1>2, <1>3, <1>6, <2>2, <2>3
  <2>7. \A k \in 2 .. Len(s) : ~Begins(s[k])
    BY <1>2, <1>6, <2>2, <2>4
  <2>8. q > 1 /\ ~Begins(s[1]) /\ AfterLine(c, i, q - 1, s[1])
    BY <1>1, <1>3, <1>6, <2>2 DEF AfterLine
  <2>9. IsLine(s[Len(s)], i, q) /\ Len(s) > 0
    BY <1>2, <2>2
  <2> QED BY <1>6, <2>2, <2>5, <2>6, <2>7, <2>8, <2>9 DEF Stretch, s
<1> QED BY <1>5, <1>6

\* The client stops at a literal it must ask for, or at the end of the command.
LEMMA StopsAt ==
    ASSUME NEW c \in Commands!Commands, NEW p \in 1 .. Len(c.lits) + 1
    PROVE  /\ Commands!Stop(c, p) \in p .. Len(c.lits) + 1
           /\ Commands!Stop(c, p) = Len(c.lits) + 1 \/ c.lits[Commands!Stop(c, p)].sync
           /\ \A q \in p .. Commands!Stop(c, p) - 1 : q <= Len(c.lits) /\ ~c.lits[q].sync
<1> DEFINE n == Len(c.lits) + 1
           S == {q \in p .. n : q = n \/ c.lits[q].sync}
           m == Commands!Stop(c, p)
<1>1. Len(c.lits) \in Nat
  BY CommandLits
<1>2. S \in SUBSET Nat /\ n \in S
  BY <1>1
<1>3. m = CHOOSE x \in S : \A y \in S : x <= y
  BY DEF Commands!Stop, Commands!Min, Commands!Parts
<1> HIDE DEF m
<1>4. m \in S /\ \A y \in S : m <= y
  <2> HIDE DEF S
  <2> QED BY <1>2, <1>3, LowestOf
<1>5. ASSUME NEW q \in p .. m - 1 PROVE q <= Len(c.lits) /\ ~c.lits[q].sync
  <2>1. q \in p .. n /\ q < m /\ q < n
    BY <1>1, <1>4
  <2>2. q \notin S
    BY <1>2, <1>4, <2>1
  <2> QED BY <1>1, <2>1, <2>2
<1> QED BY <1>4, <1>5 DEF m

\* FlattenSeq is the last value of its function.
LEMMA CommandsFlat ==
    ASSUME NEW u, Len(u) \in Nat, Len(u) # 0
    PROVE  \E f : IsFlat(f, u, Len(u)) /\ Commands!FlattenSeq(u) = f[Len(u)]
<1> DEFINE f == CHOOSE g : IsFlat(g, u, Len(u))
<1>1. IsFlat(f, u, Len(u))
  BY FlatExists
<1>2. Commands!FlattenSeq(u) = f[Len(u)]
  BY DEF Commands!FlattenSeq, IsFlat
<1> QED BY <1>1, <1>2

\* It sends the lines from p to where it stops, and the literals between them.
LEMMA LinesSent ==
    ASSUME NEW c \in Commands!Commands, NEW i \in Nat, NEW p \in 1 .. Len(c.lits) + 1
    PROVE  Stretch(c, i, p, Commands!Stop(c, p), Commands!Lines(c, i, p))
<1> DEFINE m == Commands!Stop(c, p)
           n == m - p + 1
           u == [k \in 1 .. n |-> Unit(c, i, p + k - 1)]
<1>1. Len(c.lits) \in Nat /\ c.lits \in Seq(Commands!Literals)
  BY CommandLits
<1>2. /\ m \in p .. Len(c.lits) + 1
      /\ \A q \in p .. m - 1 : q <= Len(c.lits) /\ ~c.lits[q].sync
  BY StopsAt
<1>3. Commands!Lines(c, i, p) = Commands!FlattenSeq(u)
  BY DEF Commands!Lines, Unit
<1> HIDE DEF m
<1>4. m \in Nat /\ p \in Nat \ {0} /\ n \in Nat /\ n # 0 /\ Len(u) = n
  BY <1>1, <1>2
<1>5. PICK f : IsFlat(f, u, n) /\ Commands!FlattenSeq(u) = f[n]
  BY <1>4, CommandsFlat
<1>6. \A k \in 1 .. n : u[k] = Unit(c, i, p + k - 1) /\ p + k - 1 \in 1 .. Len(c.lits) + 1
  BY <1>1, <1>2, <1>4
<1> HIDE DEF u
<1> DEFINE Q == {k \in Nat : k \in 1 .. n => Stretch(c, i, p, p + k - 1, f[k])}
<1>7. 0 \in Q
  OBVIOUS
<1>8. ASSUME NEW k \in Nat, k \in Q PROVE k + 1 \in Q
  <2> SUFFICES ASSUME k + 1 \in 1 .. n PROVE Stretch(c, i, p, p + (k + 1) - 1, f[k + 1])
    OBVIOUS
  <2>1. p + (k + 1) - 1 = p + k /\ (k + 1) - 1 = k /\ p + k \in 1 .. Len(c.lits) + 1
    BY <1>4, <1>6
  <2>2. f[k + 1] = IF k + 1 = 1 THEN u[k + 1] ELSE f[k] \o u[k + 1]
    BY <1>5, <2>1 DEF IsFlat
  <2>3. Stretch(c, i, p + k, p + k, u[k + 1])
    BY <1>6, <2>1, UnitIsStretch
  <2>4. CASE k = 0
    <3>1. p + k = p /\ f[k + 1] = u[k + 1]
      BY <1>4, <2>2, <2>4
    <3> QED BY <2>1, <2>3, <3>1
  <2>5. CASE k # 0
    <3>1. /\ k \in 1 .. n /\ p + k - 1 \in p .. m - 1 /\ p + k - 1 \in Nat \ {0}
          /\ (p + k - 1) + 1 = p + k /\ p + k \in Nat /\ k + 1 # 1
      BY <1>4, <2>5
    <3>2. Stretch(c, i, p, p + k - 1, f[k])
      BY <1>8, <3>1
    <3>3. p + k - 1 <= Len(c.lits) /\ ~c.lits[p + k - 1].sync
      BY <1>2, <3>1
    <3>4. Stretch(c, i, p, p + k, f[k] \o u[k + 1])
      BY <1>1, <1>4, <2>3, <3>1, <3>2, <3>3, StretchJoin
    <3> QED BY <2>1, <2>2, <3>1, <3>4
  <2> QED BY <2>4, <2>5
<1> HIDE DEF Q
<1>9. Nat \subseteq Q
  BY <1>7, <1>8, NatSetInduction
<1>10. Stretch(c, i, p, p + n - 1, f[n])
  BY <1>4, <1>9 DEF Q
<1>11. p + n - 1 = m
  BY <1>4
<1> QED BY <1>3, <1>5, <1>10, <1>11 DEF m

-----------------------------------------------------------------------------
(* The invariant of the reader *)

Reading == reading \notin {"lost", "closed"}
Midway == reading \in {"body", "rest", "discard", "tail", "stage"}

\* A command that the proxy rejects although its literal is sent after it.
Spoils(c) == c.verb = "bad" /\ c.lits # <<>>
Spoilt == \E i \in DOMAIN script : Spoils(script[i])

AskedFor(w) ==
    \E l \in DOMAIN replies :
        replies[l].cmd = Len(script) /\ replies[l].kind = "plus" /\ replies[l].part = w

\* The client waits at a literal of its last command.
ClientInv ==
    /\ script \in Seq(Commands!Commands) /\ gone \in BOOLEAN /\ waiting \in Nat
    /\ waiting > 0 => /\ Len(script) > 0 /\ waiting <= Len(script[Len(script)].lits)
                      /\ script[Len(script)].lits[waiting].sync

\* What was sent and has not been read.
Sound(sc, s) ==
    /\ s \in Seq(Pieces)
    /\ \A k \in 1 .. Len(s) : s[k].cmd \in 1 .. Len(sc) /\ IsPart(sc[s[k].cmd], s[k])
    /\ \A k \in 1 .. Len(s) - 1 : Follows(sc[s[k].cmd], s[k], s[k + 1])
    /\ \A k, l \in 1 .. Len(s) :
          k < l => s[k].cmd <= s[l].cmd /\ (Begins(s[l]) => s[k].cmd < s[l].cmd)
InputInv ==
    /\ Sound(script, input)
    /\ \A k \in 1 .. Len(input) : input[k].whole \/ (gone /\ k = Len(input))
    /\ ~gone /\ input # <<>> =>
          IsLine(input[Len(input)], Len(script),
                 IF waiting = 0 THEN Len(script[Len(script)].lits) + 1 ELSE waiting)

\* The line in hand.
HandInv ==
    Midway =>
        /\ hand \in Pieces /\ hand.what = "line" /\ hand.cmd \in 1 .. Len(script)
        /\ IsPart(script[hand.cmd], hand)
        /\ hand.whole \/ (gone /\ input = <<>>)
        /\ \A k \in 1 .. Len(input) : Begins(input[k]) => hand.cmd < input[k].cmd
        /\ reading # "stage" => hand.part <= Len(script[hand.cmd].lits)
        /\ reading \in {"body", "rest", "stage"} =>
               /\ script[hand.cmd].verb \in {"append", "sent"}
               /\ script[hand.cmd].lits # <<>> /\ script[hand.cmd].lits[1].sync
        /\ reading \in {"body", "rest"} => hand.part = 1
        /\ reading = "body" => script[hand.cmd].lits[1].size # "empty"
        /\ reading = "stage" => gone \/ Len(script[hand.cmd].lits) = 1
        /\ reading \in {"discard", "tail"} => ~script[hand.cmd].lits[hand.part].sync
        /\ reading = "discard" => script[hand.cmd].lits[hand.part].size = "fits"

\* What is read next is what the client sent next, or will send.
Awaited(t) ==
    /\ reading = "command" => Begins(t) \/ Spoilt
    /\ reading \in {"body", "discard"} => IsData(t, hand.cmd, hand.part)
    /\ reading \in {"rest", "tail"} => IsLine(t, hand.cmd, hand.part + 1)
    /\ reading = "stage" => IsLine(t, hand.cmd + 1, 1)
NextInv ==
    /\ input # <<>> => Awaited(input[1])
    /\ input = <<>> /\ ~gone =>
         /\ reading \notin {"discard", "tail"}
         /\ Midway => hand.cmd = Len(script)
         /\ reading \in {"body", "rest"} =>
               waiting = 1 /\ (reading = "body" <=> script[Len(script)].lits[1].size # "empty")
         /\ reading = "stage" => waiting = 0
         /\ waiting > 0 => Midway \/ ~AskedFor(waiting)

\* No command is answered before it has been read, but a rejected one.
Unread(sc, r, t) ==
    \/ r.cmd < t.cmd
    \/ r.cmd = t.cmd /\ ~Begins(t) /\ (r.kind = "plus" \/ Spoils(sc[t.cmd]))
Replied == [cmd : Nat, kind : {"plus", "ok", "no", "bad", "bye"}, part : Nat]
RepliesInv ==
    /\ replies \in Seq(Replied)
    /\ \A l \in 1 .. Len(replies) :
          replies[l].cmd \in 1 .. Len(script) /\ (replies[l].kind = "plus" => replies[l].part = 1)
    /\ Reading => \A k \in 1 .. Len(input), l \in 1 .. Len(replies) : Unread(script, replies[l], input[k])
    /\ Midway => \A l \in 1 .. Len(replies) :
           \/ replies[l].cmd < hand.cmd
           \/ replies[l].cmd = hand.cmd /\ replies[l].kind = "plus"

KeptInv ==
    /\ forwarded \subseteq 1 .. Len(script)
    /\ \A o \in kept : o.cmd \in 1 .. Len(script)
    /\ Commands!AppendIsWhole

StepInv == reading = "lost" => Spoilt

ReaderInv ==
    /\ ClientInv /\ RepliesInv /\ KeptInv /\ StepInv
    /\ reading \in {"command", "body", "rest", "discard", "tail", "stage", "lost", "closed"}
    /\ Reading => InputInv /\ HandInv /\ NextInv

-----------------------------------------------------------------------------
(* The next piece is taken *)

\* What is left of the input, and what comes after the piece that was taken.
LEMMA SoundTail ==
    ASSUME NEW sc, NEW s, Sound(sc, s), s # <<>>, NEW r, r = Tail(s)
    PROVE  /\ Len(s) \in Nat \ {0} /\ Len(r) \in Nat /\ Len(r) = Len(s) - 1
           /\ \A k \in 1 .. Len(r) : k + 1 \in 1 .. Len(s) /\ r[k] = s[k + 1]
           /\ s[1] \in Pieces /\ s[1].cmd \in 1 .. Len(sc) /\ IsPart(sc[s[1].cmd], s[1])
           /\ Sound(sc, r)
           /\ \A k \in 1 .. Len(r) : s[1].cmd <= r[k].cmd /\ (Begins(r[k]) => s[1].cmd < r[k].cmd)
           /\ Len(r) > 0 => Follows(sc[s[1].cmd], s[1], r[1])
           /\ s[1].what = "line" /\ s[1].part = Len(sc[s[1].cmd].lits) + 1 =>
                 \A k \in 1 .. Len(r) : s[1].cmd < r[k].cmd
<1>1. s \in Seq(Pieces)
  BY DEF Sound
<1>2. Len(s) \in Nat \ {0} /\ r \in Seq(Pieces) /\ Len(r) = Len(s) - 1 /\ Len(r) \in Nat
  BY <1>1
<1>3. \A k \in 1 .. Len(r) : k + 1 \in 1 .. Len(s) /\ r[k] = s[k + 1]
  BY <1>1, <1>2
<1>4. 1 \in 1 .. Len(s) /\ s[1] \in Pieces
  BY <1>1, <1>2
<1>5. s[1].cmd \in 1 .. Len(sc) /\ IsPart(sc[s[1].cmd], s[1])
  BY <1>4 DEF Sound
<1>6. \A k, l \in 1 .. Len(s) :
          k < l => s[k].cmd <= s[l].cmd /\ (Begins(s[l]) => s[k].cmd < s[l].cmd)
  BY DEF Sound
<1>7. Sound(sc, r)
  <2>1. \A k \in 1 .. Len(r) : r[k].cmd \in 1 .. Len(sc) /\ IsPart(sc[r[k].cmd], r[k])
    BY <1>3 DEF Sound
  <2>2. \A k \in 1 .. Len(r) - 1 : Follows(sc[r[k].cmd], r[k], r[k + 1])
    <3> TAKE k \in 1 .. Len(r) - 1
    <3>1. k \in 1 .. Len(r) /\ k + 1 \in 1 .. Len(r) /\ k + 1 \in 1 .. Len(s) - 1
      BY <1>2
    <3>2. r[k] = s[k + 1] /\ r[k + 1] = s[(k + 1) + 1]
      BY <1>3, <3>1
    <3>3. Follows(sc[s[k + 1].cmd], s[k + 1], s[(k + 1) + 1])
      BY <3>1 DEF Sound
    <3> QED BY <3>2, <3>3
  <2>3. \A k, l \in 1 .. Len(r) :
            k < l => r[k].cmd <= r[l].cmd /\ (Begins(r[l]) => r[k].cmd < r[l].cmd)
    <3> TAKE k, l \in 1 .. Len(r)
    <3>1. k + 1 \in 1 .. Len(s) /\ l + 1 \in 1 .. Len(s) /\ (k < l => k + 1 < l + 1)
          /\ r[k] = s[k + 1] /\ r[l] = s[l + 1]
      BY <1>2, <1>3
    <3> QED BY <1>6, <3>1
  <2> QED BY <1>2, <2>1, <2>2, <2>3 DEF Sound
<1>8. \A k \in 1 .. Len(r) : s[1].cmd <= r[k].cmd /\ (Begins(r[k]) => s[1].cmd < r[k].cmd)
  <2> TAKE k \in 1 .. Len(r)
  <2>1. k + 1 \in 1 .. Len(s) /\ 1 < k + 1 /\ r[k] = s[k + 1]
    BY <1>3
  <2> QED BY <1>4, <1>6, <2>1
<1>9. Len(r) > 0 => Follows(sc[s[1].cmd], s[1], r[1])
  <2> SUFFICES ASSUME Len(r) > 0 PROVE Follows(sc[s[1].cmd], s[1], r[1])
    OBVIOUS
  <2>1. 1 \in 1 .. Len(r) /\ 1 \in 1 .. Len(s) - 1
    BY <1>2
  <2>2. r[1] = s[1 + 1]
    BY <1>3, <2>1
  <2>3. Follows(sc[s[1].cmd], s[1], s[1 + 1])
    BY <2>1 DEF Sound
  <2> QED BY <2>2, <2>3
<1>10. ASSUME s[1].what = "line", s[1].part = Len(sc[s[1].cmd].lits) + 1, NEW k \in 1 .. Len(r)
       PROVE  s[1].cmd < r[k].cmd
  <2>1. Len(r) > 0 /\ 1 \in 1 .. Len(r)
    BY <1>2
  <2>2. r[1].cmd = s[1].cmd + 1
    BY <1>9, <1>10, <2>1 DEF Follows, IsLine
  <2>3. k = 1 \/ 1 < k
    OBVIOUS
  <2>4. r[1].cmd <= r[k].cmd
    <3>1. r[1] \in Pieces
      BY <1>2, <2>1
    <3>2. r[1].cmd \in Nat
      BY <3>1 DEF Pieces
    <3>3. \A l \in 1 .. Len(r) : 1 < l => r[1].cmd <= r[l].cmd
      BY <1>7, <2>1 DEF Sound
    <3>4. CASE k = 1
      BY <3>2, <3>4
    <3>5. CASE 1 < k
      BY <3>3, <3>5
    <3> QED BY <2>3, <3>4, <3>5
  <2>5. s[1].cmd \in Nat /\ r[k].cmd \in Nat
    <3>1. r[k] \in Pieces
      BY <1>2
    <3> QED BY <1>4, <3>1 DEF Pieces
  <2> QED BY <2>2, <2>4, <2>5
<1> QED BY <1>2, <1>3, <1>4, <1>5, <1>7, <1>8, <1>9, <1>10

\* The piece that is taken, and what is known of the rest.
TakenAs(t) ==
    /\ input # <<>> /\ t = input[1]
    /\ input' = Tail(input) /\ UNCHANGED <<script, waiting, gone>>

\* When a piece is taken, what remains is as it was before, and what follows is known.
LEMMA Taken ==
    ASSUME ReaderInv, Reading, NEW t, TakenAs(t)
    PROVE  /\ InputInv' /\ Len(input') \in Nat
           /\ \A k \in 1 .. Len(input') : k + 1 \in 1 .. Len(input) /\ input'[k] = input[k + 1]
           /\ t \in Pieces /\ t.cmd \in 1 .. Len(script) /\ IsPart(script[t.cmd], t)
           /\ t.whole \/ (gone /\ input' = <<>>)
           /\ \A k \in 1 .. Len(input') :
                 t.cmd <= input'[k].cmd /\ (Begins(input'[k]) => t.cmd < input'[k].cmd)
           /\ input' # <<>> => Follows(script[t.cmd], t, input'[1])
           /\ t.what = "line" /\ t.part = Len(script[t.cmd].lits) + 1 =>
                 \A k \in 1 .. Len(input') : t.cmd < input'[k].cmd
           /\ input' = <<>> /\ ~gone =>
                 IsLine(t, Len(script), IF waiting = 0 THEN Len(script[Len(script)].lits) + 1 ELSE waiting)
<1>1. /\ input # <<>> /\ t = input[1] /\ input' = Tail(input)
      /\ script' = script /\ waiting' = waiting /\ gone' = gone
  BY DEF TakenAs
<1>2. InputInv /\ Sound(script, input)
  BY DEF ReaderInv, InputInv
<1> DEFINE r == Tail(input)
<1>3. /\ Len(input) \in Nat \ {0} /\ Len(r) \in Nat /\ Len(r) = Len(input) - 1
      /\ \A k \in 1 .. Len(r) : k + 1 \in 1 .. Len(input) /\ r[k] = input[k + 1]
      /\ t \in Pieces /\ t.cmd \in 1 .. Len(script) /\ IsPart(script[t.cmd], t)
      /\ Sound(script, r)
      /\ \A k \in 1 .. Len(r) : t.cmd <= r[k].cmd /\ (Begins(r[k]) => t.cmd < r[k].cmd)
      /\ Len(r) > 0 => Follows(script[t.cmd], t, r[1])
      /\ t.what = "line" /\ t.part = Len(script[t.cmd].lits) + 1 =>
            \A k \in 1 .. Len(r) : t.cmd < r[k].cmd
  <2>1. Sound(script, input) /\ input # <<>> /\ r = Tail(input)
    BY <1>1, <1>2
  <2> HIDE DEF r
  <2>2. /\ Len(input) \in Nat \ {0} /\ Len(r) \in Nat /\ Len(r) = Len(input) - 1
        /\ \A k \in 1 .. Len(r) : k + 1 \in 1 .. Len(input) /\ r[k] = input[k + 1]
    <3>1. input \in Seq(Pieces)
      BY <2>1 DEF Sound
    <3> QED BY <2>1, <3>1
  <2>3. /\ input[1] \in Pieces /\ input[1].cmd \in 1 .. Len(script)
        /\ IsPart(script[input[1].cmd], input[1])
        /\ Sound(script, r)
    BY ONLY <2>1, SoundTail
  <2>4. \A k \in 1 .. Len(r) : input[1].cmd <= r[k].cmd /\ (Begins(r[k]) => input[1].cmd < r[k].cmd)
    BY ONLY <2>1, SoundTail
  <2>5. /\ Len(r) > 0 => Follows(script[input[1].cmd], input[1], r[1])
        /\ input[1].what = "line" /\ input[1].part = Len(script[input[1].cmd].lits) + 1 =>
              \A k \in 1 .. Len(r) : input[1].cmd < r[k].cmd
    BY ONLY <2>1, SoundTail
  <2>6. t = input[1]
    BY <1>1
  <2> QED BY <2>2, <2>3, <2>4, <2>5, <2>6
<1> HIDE DEF r
<1>4. input' = r /\ (r # <<>> => Len(r) > 0) /\ r \in Seq(Pieces)
  BY <1>1, <1>3 DEF r, Sound
<1>5. \A k \in 1 .. Len(r) : r[k].whole \/ (gone /\ k = Len(r))
  <2> TAKE k \in 1 .. Len(r)
  <2>1. k + 1 \in 1 .. Len(input) /\ r[k] = input[k + 1] /\ (k + 1 = Len(input) => k = Len(r))
    BY <1>3
  <2> QED BY <1>2, <2>1 DEF InputInv
<1>6. t.whole \/ (gone /\ r = <<>>)
  <2>1. 1 \in 1 .. Len(input) /\ (1 = Len(input) => Len(r) = 0)
    BY <1>3
  <2>2. Len(r) = 0 => r = <<>>
    BY <1>4
  <2> QED BY <1>1, <1>2, <2>1, <2>2 DEF InputInv
<1>7. ~gone => IsLine(input[Len(input)], Len(script),
                      IF waiting = 0 THEN Len(script[Len(script)].lits) + 1 ELSE waiting)
  BY <1>1, <1>2 DEF InputInv
<1>8. r = <<>> => Len(input) = 1
  BY <1>3
<1>9. r # <<>> => r[Len(r)] = input[Len(input)]
  <2> SUFFICES ASSUME r # <<>> PROVE r[Len(r)] = input[Len(input)]
    OBVIOUS
  <2>1. Len(r) \in 1 .. Len(r) /\ Len(r) + 1 = Len(input)
    BY <1>3, <1>4
  <2> QED BY <1>3, <2>1
<1>10. InputInv'
  BY <1>1, <1>3, <1>4, <1>5, <1>7, <1>9 DEF InputInv
<1> QED BY <1>1, <1>3, <1>4, <1>6, <1>7, <1>8, <1>10

\* What an operation that was staged says of its command.
StagedAsSent(o) ==
    /\ script[o.cmd].lits # <<>> =>
          /\ script[o.cmd].verb = "append" /\ Len(script[o.cmd].lits) = 1
          /\ script[o.cmd].lits[1].sync
    /\ o.body <=> script[o.cmd].lits = <<Commands!Sync("fits")>>

\* An answer in its turn disturbs no operation that was staged before it, and one that
\* is staged with it was answered OK.
LEMMA Replying ==
    ASSUME ReaderInv, UNCHANGED <<script, gone, forwarded>>,
           NEW r \in Replied, replies' = Append(replies, r),
           r.cmd \in 1 .. Len(script), r.kind = "plus" => r.part = 1,
           \A l \in 1 .. Len(replies) :
              replies[l].cmd < r.cmd \/ (replies[l].cmd = r.cmd /\ replies[l].kind = "plus"),
           \A o \in kept' : o \in kept \/ (o.cmd = r.cmd /\ r.kind = "ok" /\ (gone \/ StagedAsSent(o)))
    PROVE  /\ replies' \in Seq(Replied) /\ Len(replies) \in Nat /\ Len(replies') = Len(replies) + 1
           /\ \A l \in 1 .. Len(replies') :
                 (l \in 1 .. Len(replies) /\ replies'[l] = replies[l]) \/ (l = Len(replies') /\ replies'[l] = r)
           /\ \A l \in 1 .. Len(replies') :
                 replies'[l].cmd \in 1 .. Len(script) /\ (replies'[l].kind = "plus" => replies'[l].part = 1)
           /\ KeptInv'
<1> DEFINE n == Len(replies)
<1>1. replies \in Seq(Replied) /\ n \in Nat
  BY DEF ReaderInv, RepliesInv
<1>2. /\ replies' \in Seq(Replied) /\ Len(replies') = n + 1
      /\ \A l \in 1 .. n : replies'[l] = replies[l]
      /\ replies'[n + 1] = r
  BY <1>1
<1> HIDE DEF n
<1>3. \A l \in 1 .. Len(replies') : l \in 1 .. n \/ l = n + 1
  BY <1>1, <1>2
<1>4. \A l \in 1 .. n : l \in 1 .. Len(replies') /\ l < n + 1
  BY <1>1, <1>2
<1>5. n + 1 \in 1 .. Len(replies')
  BY <1>1, <1>2
<1>6. \A l \in 1 .. Len(replies') :
          replies'[l].cmd \in 1 .. Len(script) /\ (replies'[l].kind = "plus" => replies'[l].part = 1)
  BY <1>2, <1>3 DEF ReaderInv, RepliesInv, n
<1>7. DOMAIN replies = 1 .. n /\ DOMAIN replies' = 1 .. Len(replies')
  BY <1>1, <1>2 DEF n
<1>8. \A k, l \in 1 .. Len(replies') :
          k < l => \/ replies'[k].cmd < replies'[l].cmd
                   \/ replies'[k].cmd = replies'[l].cmd /\ replies'[k].kind = "plus"
  <2> TAKE k, l \in 1 .. Len(replies')
  <2> HAVE k < l
  <2>1. CASE l \in 1 .. n
    <3>1. k \in 1 .. n /\ k \in DOMAIN replies /\ l \in DOMAIN replies
      BY <1>1, <1>7, <2>1
    <3> QED BY <1>2, <2>1, <3>1 DEF ReaderInv, KeptInv, Commands!AppendIsWhole
  <2>2. CASE l = n + 1
    <3>1. k \in 1 .. n
      BY <1>1, <1>2, <2>2
    <3> QED BY <1>2, <2>2, <3>1 DEF n
  <2> QED BY <1>3, <2>1, <2>2
<1>9. ASSUME NEW i
      PROVE  \A x : x \in Commands!Answers(i) <=>
                 \E l \in 1 .. n : x = replies[l] /\ x.cmd = i /\ x.kind # "plus"
  BY <1>7 DEF Commands!Answers, Commands!ToSet
<1>10. ASSUME NEW i
       PROVE  \A x : x \in Commands!Answers(i)' <=>
                  \E l \in 1 .. Len(replies') : x = replies'[l] /\ x.cmd = i /\ x.kind # "plus"
  BY <1>7 DEF Commands!Answers, Commands!ToSet
<1>11. ASSUME NEW o \in kept', ~gone
       PROVE  /\ Commands!Answers(o.cmd)' # {}
              /\ \A x \in Commands!Answers(o.cmd)' : x.kind = "ok"
              /\ o.cmd \in 1 .. Len(script) /\ StagedAsSent(o)
  <2>1. CASE o \in kept
    <3>1. /\ Commands!Answers(o.cmd) # {}
          /\ \A x \in Commands!Answers(o.cmd) : x.kind = "ok"
          /\ o.cmd \in 1 .. Len(script) /\ StagedAsSent(o)
      BY <1>11, <2>1 DEF ReaderInv, KeptInv, Commands!AppendIsWhole, StagedAsSent, Commands!Verb
    <3>2. PICK l \in 1 .. n : replies[l].cmd = o.cmd /\ replies[l].kind # "plus"
      BY <1>9, <3>1
    <3>3. o.cmd # r.cmd
      <4>1. replies[l].cmd < r.cmd /\ r.cmd \in Nat
        BY <3>2 DEF n, Replied
      <4> QED BY <3>2, <4>1
    <3>4. replies[l] \in Commands!Answers(o.cmd)'
      <4>1. l \in 1 .. Len(replies') /\ replies'[l] = replies[l]
        BY <1>2, <1>4
      <4> QED BY <1>10, <3>2, <4>1
    <3>5. \A x \in Commands!Answers(o.cmd)' : x.kind = "ok"
      <4> TAKE x \in Commands!Answers(o.cmd)'
      <4>1. PICK k \in 1 .. Len(replies') : x = replies'[k] /\ x.cmd = o.cmd /\ x.kind # "plus"
        BY <1>10
      <4>2. k \in 1 .. n /\ x = replies[k]
        BY <1>2, <1>3, <3>3, <4>1
      <4> QED BY <1>9, <3>1, <4>1, <4>2
    <3> QED BY <3>1, <3>4, <3>5
  <2>2. CASE o.cmd = r.cmd /\ r.kind = "ok" /\ StagedAsSent(o)
    <3>1. r \in Commands!Answers(o.cmd)'
      BY <1>2, <1>5, <1>10, <2>2
    <3>2. \A x \in Commands!Answers(o.cmd)' : x.kind = "ok"
      <4> TAKE x \in Commands!Answers(o.cmd)'
      <4>1. PICK k \in 1 .. Len(replies') : x = replies'[k] /\ x.cmd = o.cmd /\ x.kind # "plus"
        BY <1>10
      <4>2. k \notin 1 .. n
        <5> SUFFICES ASSUME k \in 1 .. n PROVE FALSE
          OBVIOUS
        <5>1. x = replies[k] /\ replies[k].cmd < r.cmd /\ replies[k].cmd = r.cmd /\ r.cmd \in Nat
          BY <1>2, <2>2, <4>1 DEF n, Replied
        <5> QED BY <5>1
      <4> QED BY <1>2, <1>3, <2>2, <4>1, <4>2
    <3> QED BY <2>2, <3>1, <3>2
  <2> QED BY <1>11, <2>1, <2>2
<1>12. Commands!AppendIsWhole'
  <2>1. /\ \A o \in kept' :
              ~gone => /\ Commands!Answers(o.cmd)' # {}
                       /\ \A x \in Commands!Answers(o.cmd)' : x.kind = "ok"
                       /\ StagedAsSent(o)
        /\ ~gone => \A i \in forwarded : script[i].lits = <<>>
    BY <1>11 DEF ReaderInv, KeptInv, Commands!AppendIsWhole
  <2> QED BY <1>7, <1>8, <2>1 DEF Commands!AppendIsWhole, StagedAsSent, Commands!Verb
<1>13. KeptInv'
  <2>1. \A o \in kept' : o.cmd \in 1 .. Len(script)
    BY DEF ReaderInv, KeptInv
  <2>2. forwarded \subseteq 1 .. Len(script)
    BY DEF ReaderInv, KeptInv
  <2> QED BY <1>12, <2>1, <2>2 DEF KeptInv
<1>14. \A l \in 1 .. Len(replies') :
          (l \in 1 .. n /\ replies'[l] = replies[l]) \/ (l = Len(replies') /\ replies'[l] = r)
  BY <1>2, <1>3
<1> QED BY <1>1, <1>2, <1>6, <1>13, <1>14 DEF n

\* What is left unread is not answered.
LEMMA StillUnread ==
    ASSUME ReaderInv, Reading, NEW t, TakenAs(t)
    PROVE  /\ \A k \in 1 .. Len(input'), l \in 1 .. Len(replies) : Unread(script, replies[l], input'[k])
           /\ Begins(t) => \A l \in 1 .. Len(replies) : replies[l].cmd < t.cmd
<1>1. /\ Len(input') \in Nat
      /\ \A k \in 1 .. Len(input') : k + 1 \in 1 .. Len(input) /\ input'[k] = input[k + 1]
  BY Taken
<1>2. \A k \in 1 .. Len(input), l \in 1 .. Len(replies) : Unread(script, replies[l], input[k])
  BY DEF ReaderInv, RepliesInv
<1>3. 1 \in 1 .. Len(input) /\ t = input[1]
  <2>1. input \in Seq(Pieces) /\ input # <<>>
    BY DEF TakenAs, ReaderInv, InputInv, Sound
  <2>2. Len(input) \in Nat \ {0}
    BY <2>1
  <2> QED BY <2>2 DEF TakenAs
<1>4. \A k \in 1 .. Len(input'), l \in 1 .. Len(replies) : Unread(script, replies[l], input'[k])
  BY <1>1, <1>2
<1>5. \A l \in 1 .. Len(replies) : Unread(script, replies[l], t)
  BY <1>2, <1>3
<1> QED BY <1>4, <1>5 DEF Unread

\* The proxy waits for the next command.
LEMMA ToCommand ==
    ASSUME ReaderInv, UNCHANGED <<script, waiting, gone>>, reading' = "command",
           InputInv', KeptInv', replies' \in Seq(Replied),
           \A l \in 1 .. Len(replies') :
              replies'[l].cmd \in 1 .. Len(script) /\ (replies'[l].kind = "plus" => replies'[l].part = 1),
           \A k \in 1 .. Len(input'), l \in 1 .. Len(replies') : Unread(script, replies'[l], input'[k]),
           input' # <<>> => Begins(input'[1]) \/ Spoilt,
           input' = <<>> /\ ~gone /\ waiting > 0 =>
              \A l \in 1 .. Len(replies') :
                 ~(replies'[l].cmd = Len(script) /\ replies'[l].kind = "plus" /\ replies'[l].part = waiting)
    PROVE  ReaderInv'
<1>1. ClientInv'
  BY DEF ReaderInv, ClientInv
<1>2. ~Midway' /\ Reading' /\ StepInv' /\ HandInv'
  BY DEF Midway, Reading, StepInv, HandInv
<1>3. RepliesInv'
  BY <1>2 DEF RepliesInv
<1>4. NextInv'
  <2>1. input' # <<>> => Awaited(input[1])'
    BY DEF Awaited, Spoilt
  <2>2. DOMAIN replies' = 1 .. Len(replies')
    OBVIOUS
  <2>3. input' = <<>> /\ ~gone /\ waiting > 0 => ~AskedFor(waiting)'
    BY <2>2 DEF AskedFor
  <2> QED BY <1>2, <2>1, <2>3 DEF NextInv
<1> QED BY <1>1, <1>2, <1>3, <1>4 DEF ReaderInv

\* The connection is closed.
LEMMA ToClosed ==
    ASSUME ReaderInv, UNCHANGED <<script, waiting, gone>>, reading' = "closed",
           KeptInv', replies' \in Seq(Replied),
           \A l \in 1 .. Len(replies') :
              replies'[l].cmd \in 1 .. Len(script) /\ (replies'[l].kind = "plus" => replies'[l].part = 1)
    PROVE  ReaderInv'
<1>1. ClientInv'
  BY DEF ReaderInv, ClientInv
<1>2. ~Midway' /\ ~Reading' /\ StepInv'
  BY DEF Midway, Reading, StepInv
<1> QED BY <1>1, <1>2 DEF ReaderInv, RepliesInv

\* Nothing is answered.
LEMMA NoReply ==
    ASSUME ReaderInv, UNCHANGED <<script, gone, forwarded, kept, replies>>
    PROVE  /\ KeptInv' /\ replies' \in Seq(Replied)
           /\ \A l \in 1 .. Len(replies') :
                 replies'[l].cmd \in 1 .. Len(script) /\ (replies'[l].kind = "plus" => replies'[l].part = 1)
<1>1. Commands!AppendIsWhole'
  BY DEF ReaderInv, KeptInv, Commands!AppendIsWhole, Commands!Answers, Commands!ToSet, Commands!Verb
<1> QED BY <1>1 DEF ReaderInv, KeptInv, RepliesInv

\* The proxy is in the middle of a command.
LEMMA ToMidway ==
    ASSUME ReaderInv, UNCHANGED <<script, waiting, gone>>,
           reading' \in {"body", "rest", "discard", "tail", "stage"},
           InputInv', HandInv', NextInv', KeptInv', replies' \in Seq(Replied),
           \A l \in 1 .. Len(replies') :
              replies'[l].cmd \in 1 .. Len(script) /\ (replies'[l].kind = "plus" => replies'[l].part = 1),
           \A k \in 1 .. Len(input'), l \in 1 .. Len(replies') : Unread(script, replies'[l], input'[k]),
           \A l \in 1 .. Len(replies') :
              replies'[l].cmd < hand'.cmd \/ (replies'[l].cmd = hand'.cmd /\ replies'[l].kind = "plus")
    PROVE  ReaderInv'
<1>1. ClientInv'
  BY DEF ReaderInv, ClientInv
<1>2. Reading' /\ StepInv'
  BY DEF Reading, StepInv
<1>3. RepliesInv'
  BY DEF RepliesInv
<1> QED BY <1>1, <1>2, <1>3 DEF ReaderInv

\* A piece is read.
LEMMA TakeIs ==
    ASSUME NEW q, Commands!Take(q)
    PROVE  reading = q /\ TakenAs(input[1]) /\ Head(input) = input[1] /\ Commands!InPlace(input[1])
BY DEF Commands!Take, TakenAs

\* What the client sends after a line.
LEMMA LineRead ==
    ASSUME ReaderInv, Reading, NEW t, TakenAs(t), t.what = "line"
    PROVE  /\ script[t.cmd] \in Commands!Commands /\ Len(script[t.cmd].lits) \in Nat
           /\ Commands!Ends(t) =>
                 /\ \A k \in 1 .. Len(input') : t.cmd < input'[k].cmd
                 /\ input' # <<>> => IsLine(input'[1], t.cmd + 1, 1)
                 /\ input' = <<>> /\ ~gone => waiting = 0 /\ t.cmd = Len(script)
           /\ ~Commands!Ends(t) => t.whole /\ t.part \in 1 .. Len(script[t.cmd].lits)
           /\ Commands!AsksFirst(t) =>
                 input' = <<>> /\ (~gone => waiting = t.part /\ t.cmd = Len(script))
           /\ Commands!SendsOn(t) =>
                 /\ input' # <<>> => AfterLine(script[t.cmd], t.cmd, t.part, input'[1])
                 /\ gone \/ input' # <<>>
<1> DEFINE lits == script[t.cmd].lits
<1>1. /\ t.cmd \in 1 .. Len(script) /\ IsPart(script[t.cmd], t)
      /\ t.whole \/ (gone /\ input' = <<>>)
      /\ input' # <<>> => Follows(script[t.cmd], t, input'[1])
      /\ t.what = "line" /\ t.part = Len(lits) + 1 => \A k \in 1 .. Len(input') : t.cmd < input'[k].cmd
      /\ input' = <<>> /\ ~gone =>
            IsLine(t, Len(script), IF waiting = 0 THEN Len(script[Len(script)].lits) + 1 ELSE waiting)
  BY Taken
<1>2. script[t.cmd] \in Commands!Commands
  BY <1>1 DEF ReaderInv, ClientInv
<1>3. Len(lits) \in Nat /\ lits \in Seq(Commands!Literals)
  BY <1>2, CommandLits
<1>4. t.part \in 1 .. Len(lits) + 1
  BY <1>1 DEF IsPart
<1>5. ASSUME input' = <<>>, ~gone
      PROVE  /\ t.cmd = Len(script) /\ t.whole
             /\ waiting = 0 => t.part = Len(lits) + 1
             /\ waiting # 0 => t.part = waiting /\ waiting \in 1 .. Len(lits) /\ lits[waiting].sync
  <2>1. t.cmd = Len(script) /\ t.part = IF waiting = 0 THEN Len(lits) + 1 ELSE waiting
    BY <1>1, <1>5 DEF IsLine
  <2>2. waiting \in Nat /\ (waiting > 0 => waiting <= Len(lits) /\ lits[waiting].sync)
    BY <2>1 DEF ReaderInv, ClientInv
  <2> QED BY <1>1, <1>3, <1>5, <2>1, <2>2
<1>6. ASSUME Commands!Ends(t)
      PROVE  /\ \A k \in 1 .. Len(input') : t.cmd < input'[k].cmd
             /\ input' # <<>> => IsLine(input'[1], t.cmd + 1, 1)
             /\ input' = <<>> /\ ~gone => waiting = 0 /\ t.cmd = Len(script)
  <2>1. CASE t.part = Len(lits) + 1
    <3>1. input' # <<>> => IsLine(input'[1], t.cmd + 1, 1)
      BY <1>1, <2>1 DEF Follows
    <3>2. input' = <<>> /\ ~gone => waiting = 0 /\ t.cmd = Len(script)
      BY <1>3, <1>5, <2>1
    <3> QED BY <1>1, <2>1, <3>1, <3>2
  <2>2. CASE ~t.whole
    <3>1. gone /\ input' = <<>>
      BY <1>1, <2>2
    <3>2. Len(input') = 0
      BY <3>1
    <3> QED BY <3>1, <3>2
  <2> QED BY <1>6, <2>1, <2>2 DEF Commands!Ends, Commands!Parts
<1>7. ~Commands!Ends(t) => t.whole /\ t.part # Len(lits) + 1 /\ t.part \in 1 .. Len(lits)
  BY <1>3, <1>4 DEF Commands!Ends, Commands!Parts
<1>8. ASSUME Commands!AsksFirst(t)
      PROVE  input' = <<>> /\ (~gone => waiting = t.part /\ t.cmd = Len(script))
  <2>1. ~Commands!Ends(t) /\ lits[t.part].sync
    BY <1>8 DEF Commands!AsksFirst, Commands!Literal
  <2>2. input' = <<>>
    BY <1>1, <1>7, <2>1 DEF Follows
  <2> QED BY <1>5, <1>7, <2>1, <2>2
<1>9. ASSUME Commands!SendsOn(t)
      PROVE  /\ input' # <<>> => AfterLine(script[t.cmd], t.cmd, t.part, input'[1])
             /\ gone \/ input' # <<>>
  <2>1. ~Commands!Ends(t) /\ ~lits[t.part].sync
    BY <1>9 DEF Commands!SendsOn, Commands!Literal
  <2>2. input' # <<>> => AfterLine(script[t.cmd], t.cmd, t.part, input'[1])
    BY <1>1, <1>7, <2>1 DEF Follows
  <2> QED BY <1>5, <1>7, <2>1, <2>2
<1> QED BY <1>2, <1>3, <1>6, <1>7, <1>8, <1>9

\* A literal that was sent unasked is to be thrown away.
LEMMA DiscardBegins ==
    ASSUME ReaderInv, Reading, NEW t, TakenAs(t), t.what = "line",
           Commands!SendsOn(t), Commands!BeginDiscard(t), hand' = t, UNCHANGED <<forwarded, kept>>,
           \A l \in 1 .. Len(replies) :
              replies[l].cmd < t.cmd \/ (replies[l].cmd = t.cmd /\ replies[l].kind = "plus")
    PROVE  ReaderInv'
<1> DEFINE lits == script[t.cmd].lits
<1>1. /\ InputInv' /\ t \in Pieces /\ t.cmd \in 1 .. Len(script) /\ IsPart(script[t.cmd], t)
      /\ t.whole \/ (gone /\ input' = <<>>)
      /\ \A k \in 1 .. Len(input') : Begins(input'[k]) => t.cmd < input'[k].cmd
  BY Taken
<1>2. /\ script[t.cmd] \in Commands!Commands /\ t.part \in 1 .. Len(lits)
      /\ input' # <<>> => AfterLine(script[t.cmd], t.cmd, t.part, input'[1])
      /\ gone \/ input' # <<>>
  BY LineRead DEF Commands!SendsOn
<1>3. UNCHANGED <<script, waiting, gone>> /\ ~lits[t.part].sync
  BY DEF TakenAs, Commands!SendsOn, Commands!Literal
<1>4. lits[t.part] \in Commands!Literals
  <2>1. lits \in Seq(Commands!Literals)
    BY <1>2, CommandLits
  <2> QED BY <1>2, <2>1
<1>5. \A k \in 1 .. Len(input'), l \in 1 .. Len(replies) : Unread(script, replies[l], input'[k])
  BY StillUnread
<1>6. CASE lits[t.part].size = "above"
  <2>1. reading' = "closed" /\ replies' = Append(replies, [cmd |-> t.cmd, kind |-> "bye", part |-> 0])
    BY <1>6 DEF Commands!BeginDiscard, Commands!Literal, Commands!Reply
  <2> DEFINE r == [cmd |-> t.cmd, kind |-> "bye", part |-> 0]
  <2>2. r \in Replied /\ r.cmd = t.cmd /\ r.kind = "bye"
    BY <1>1 DEF Replied
  <2>3. replies' = Append(replies, r)
    BY <2>1
  <2> HIDE DEF r
  <2>4. /\ replies' \in Seq(Replied) /\ KeptInv'
        /\ \A l \in 1 .. Len(replies') :
              replies'[l].cmd \in 1 .. Len(script) /\ (replies'[l].kind = "plus" => replies'[l].part = 1)
    BY <1>1, <1>3, <2>2, <2>3, Replying
  <2> QED BY <1>3, <2>1, <2>4, ToClosed
<1>7. CASE lits[t.part].size # "above"
  <2>1. /\ UNCHANGED replies
        /\ \/ lits[t.part].size = "empty" /\ reading' = "tail"
           \/ lits[t.part].size = "fits" /\ reading' = "discard"
    BY <1>4, <1>7 DEF Commands!BeginDiscard, Commands!Literal, Commands!Literals
  <2>2. HandInv'
    BY <1>1, <1>2, <1>3, <2>1 DEF HandInv
  <2>3. NextInv'
    <3>1. input' # <<>> => Awaited(input[1])'
      BY <1>2, <2>1 DEF Awaited, AfterLine
    <3> QED BY <1>2, <1>3, <3>1 DEF NextInv
  <2>4. /\ KeptInv' /\ replies' \in Seq(Replied)
        /\ \A l \in 1 .. Len(replies') :
              replies'[l].cmd \in 1 .. Len(script) /\ (replies'[l].kind = "plus" => replies'[l].part = 1)
    BY <1>3, <2>1, NoReply
  <2> QED BY <1>1, <1>3, <1>5, <2>1, <2>2, <2>3, <2>4, ToMidway
<1> QED BY <1>6, <1>7

\* A piece of the command in hand is read, and its line is answered.
LEMMA AnsweredNow ==
    ASSUME ReaderInv, Reading, NEW t, TakenAs(t), t.what = "line",
           Commands!Ends(t) \/ Commands!AsksFirst(t) \/ (Begins(t) /\ script[t.cmd].verb = "bad"),
           NEW kind \in {"ok", "no", "bad"}, Commands!Reply(t.cmd, kind), reading' = "command",
           UNCHANGED forwarded,
           \A o \in kept' :
              o \in kept \/ (o.cmd = t.cmd /\ kind = "ok" /\ (gone \/ StagedAsSent(o))),
           \A l \in 1 .. Len(replies) :
              replies[l].cmd < t.cmd \/ (replies[l].cmd = t.cmd /\ replies[l].kind = "plus")
    PROVE  ReaderInv'
<1> DEFINE lits == script[t.cmd].lits
           r == [cmd |-> t.cmd, kind |-> kind, part |-> 0]
<1>1. /\ InputInv' /\ t \in Pieces /\ t.cmd \in 1 .. Len(script) /\ IsPart(script[t.cmd], t)
      /\ \A k \in 1 .. Len(input') :
            t.cmd <= input'[k].cmd /\ (Begins(input'[k]) => t.cmd < input'[k].cmd)
  BY Taken
<1>2. /\ script[t.cmd] \in Commands!Commands /\ Len(lits) \in Nat
      /\ Commands!Ends(t) =>
            /\ \A k \in 1 .. Len(input') : t.cmd < input'[k].cmd
            /\ input' # <<>> => IsLine(input'[1], t.cmd + 1, 1)
            /\ input' = <<>> /\ ~gone => waiting = 0 /\ t.cmd = Len(script)
      /\ ~Commands!Ends(t) => t.whole /\ t.part \in 1 .. Len(lits)
      /\ Commands!AsksFirst(t) =>
            input' = <<>> /\ (~gone => waiting = t.part /\ t.cmd = Len(script))
      /\ Commands!SendsOn(t) => gone \/ input' # <<>>
  BY LineRead
<1>3. UNCHANGED <<script, waiting, gone>>
  BY DEF TakenAs
<1>4. r \in Replied /\ r.cmd = t.cmd /\ r.kind = kind /\ replies' = Append(replies, r)
  BY <1>1 DEF Replied, Commands!Reply
<1> HIDE DEF r
<1>5. /\ replies' \in Seq(Replied) /\ Len(replies) \in Nat /\ Len(replies') = Len(replies) + 1
      /\ \A l \in 1 .. Len(replies') :
            (l \in 1 .. Len(replies) /\ replies'[l] = replies[l]) \/ (l = Len(replies') /\ replies'[l] = r)
      /\ \A l \in 1 .. Len(replies') :
            replies'[l].cmd \in 1 .. Len(script) /\ (replies'[l].kind = "plus" => replies'[l].part = 1)
      /\ KeptInv'
  BY <1>1, <1>3, <1>4, Replying
<1>6. /\ \A k \in 1 .. Len(input'), l \in 1 .. Len(replies) : Unread(script, replies[l], input'[k])
      /\ Begins(t) => \A l \in 1 .. Len(replies) : replies[l].cmd < t.cmd
  BY StillUnread
<1>7. /\ \A k \in 1 .. Len(input') : Unread(script, r, input'[k])
      /\ input' # <<>> => Begins(input'[1]) \/ Spoilt
  <2>1. CASE Commands!Ends(t)
    BY <1>2, <1>4, <2>1 DEF Unread, IsLine, Begins
  <2>2. CASE Commands!AsksFirst(t)
    <3>1. input' = <<>>
      BY <1>2, <2>2
    <3>2. Len(input') = 0
      BY <3>1
    <3> QED BY <3>1, <3>2
  <2>3. CASE Begins(t) /\ script[t.cmd].verb = "bad" /\ ~Commands!Ends(t)
    <3>1. Len(lits) # 0
      BY <1>2, <2>3 DEF Begins
    <3>2. lits # <<>>
      BY <3>1
    <3>3. Spoils(script[t.cmd]) /\ Spoilt
      <4>1. script \in Seq(Commands!Commands)
        BY DEF ReaderInv, ClientInv
      <4>2. t.cmd \in DOMAIN script
        BY <1>1, <4>1
      <4> QED BY <2>3, <3>2, <4>2 DEF Spoils, Spoilt
    <3>4. ASSUME NEW k \in 1 .. Len(input') PROVE Unread(script, r, input'[k])
      <4>1. t.cmd \in Nat /\ input'[k].cmd \in Nat
        <5>1. input' \in Seq(Pieces)
          BY <1>1 DEF InputInv, Sound
        <5>2. input'[k] \in Pieces
          BY <5>1
        <5> QED BY <1>1, <5>2 DEF Pieces
      <4>2. t.cmd < input'[k].cmd \/ (t.cmd = input'[k].cmd /\ ~Begins(input'[k]))
        BY <1>1, <4>1
      <4> QED BY <1>4, <3>3, <4>2 DEF Unread
    <3> QED BY <3>3, <3>4
  <2> QED BY <2>1, <2>2, <2>3
<1>8. \A k \in 1 .. Len(input'), l \in 1 .. Len(replies') : Unread(script, replies'[l], input'[k])
  BY <1>5, <1>6, <1>7
<1>9. ASSUME input' = <<>>, ~gone, waiting > 0, NEW l \in 1 .. Len(replies'),
             replies'[l].cmd = Len(script), replies'[l].kind = "plus", replies'[l].part = waiting
      PROVE  FALSE
  <2>1. l \in 1 .. Len(replies) /\ replies'[l] = replies[l]
    BY <1>4, <1>5, <1>9
  <2>2. waiting = 1
    BY <1>5, <1>9
  <2>3. ~Commands!Ends(t)
    BY <1>2, <1>9
  <2>4. Commands!AsksFirst(t)
    <3>1. Commands!SendsOn(t) \/ Commands!AsksFirst(t)
      BY <2>3 DEF Commands!SendsOn, Commands!AsksFirst
    <3> QED BY <1>2, <1>9, <3>1
  <2>5. t.part = 1 /\ t.cmd = Len(script)
    BY <1>2, <1>9, <2>2, <2>4
  <2>6. replies[l].cmd < t.cmd /\ replies[l].cmd = t.cmd /\ t.cmd \in Nat
    BY <1>1, <1>6, <1>9, <2>1, <2>5 DEF Pieces, Begins
  <2> QED BY <2>6
<1> QED BY <1>1, <1>3, <1>5, <1>7, <1>8, <1>9, ToCommand

-----------------------------------------------------------------------------
(* The steps of the reader *)

\* A line with a bare CR or NUL is rejected.
LEMMA BadRejected == ReaderInv /\ Commands!RejectBad => ReaderInv'
<1> SUFFICES ASSUME ReaderInv, Commands!RejectBad PROVE ReaderInv'
  OBVIOUS
<1> DEFINE t == input[1]
<1>1. /\ reading = "command" /\ TakenAs(t) /\ t.what = "line" /\ t.part = 1
      /\ script[t.cmd].verb = "bad" /\ Commands!Reply(t.cmd, "bad")
      /\ UNCHANGED <<reading, forwarded, kept>>
  <2>1. Commands!Take("command")
    BY DEF Commands!RejectBad
  <2>2. reading = "command" /\ TakenAs(t) /\ Head(input) = t /\ Commands!InPlace(t)
    BY <2>1, TakeIs
  <2>3. t.what = "line" /\ t.part = 1
    BY <2>2 DEF Commands!InPlace
  <2> HIDE DEF t
  <2> QED BY <2>2, <2>3 DEF Commands!RejectBad, Commands!Verb, Commands!Reply
<1> HIDE DEF t
<1>2. Reading /\ Begins(t)
  BY <1>1 DEF Reading, Begins
<1>3. \A l \in 1 .. Len(replies) : replies[l].cmd < t.cmd
  BY <1>1, <1>2, StillUnread
<1> QED BY <1>1, <1>2, <1>3, AnsweredNow

\* Another verb is refused before its literal is asked for.
LEMMA SyncRefused == ReaderInv /\ Commands!RefuseSync => ReaderInv'
<1> SUFFICES ASSUME ReaderInv, Commands!RefuseSync PROVE ReaderInv'
  OBVIOUS
<1> DEFINE t == input[1]
<1>1. /\ reading = "command" /\ TakenAs(t) /\ t.what = "line" /\ t.part = 1
      /\ Commands!AsksFirst(t) /\ Commands!Reply(t.cmd, "no")
      /\ UNCHANGED <<reading, forwarded, kept>>
  <2>1. Commands!Take("command")
    BY DEF Commands!RefuseSync
  <2>2. reading = "command" /\ TakenAs(t) /\ Head(input) = t /\ Commands!InPlace(t)
    BY <2>1, TakeIs
  <2>3. t.what = "line" /\ t.part = 1
    BY <2>2 DEF Commands!InPlace
  <2> HIDE DEF t
  <2> QED BY <2>2, <2>3 DEF Commands!RefuseSync, Commands!Reply,
                           Commands!AsksFirst, Commands!Ends, Commands!Parts, Commands!Literal
<1> HIDE DEF t
<1>2. Reading /\ Begins(t)
  BY <1>1 DEF Reading, Begins
<1>3. \A l \in 1 .. Len(replies) : replies[l].cmd < t.cmd
  BY <1>1, <1>2, StillUnread
<1> QED BY <1>1, <1>2, <1>3, AnsweredNow

\* An APPEND is asked for its literal.
LEMMA AppendBegun == ReaderInv /\ Commands!BeginAppend => ReaderInv'
<1> SUFFICES ASSUME ReaderInv, Commands!BeginAppend PROVE ReaderInv'
  OBVIOUS
<1> DEFINE t == input[1]
           lits == script[t.cmd].lits
           r == [cmd |-> t.cmd, kind |-> "plus", part |-> 1]
<1>1. /\ reading = "command" /\ TakenAs(t) /\ t.what = "line" /\ t.part = 1
      /\ script[t.cmd].verb \in {"append", "sent"} /\ Commands!AsksFirst(t)
      /\ replies' = Append(replies, r) /\ hand' = t
      /\ reading' = IF lits[1].size = "empty" THEN "rest" ELSE "body"
      /\ UNCHANGED <<forwarded, kept>>
  <2>1. Commands!Take("command")
    BY DEF Commands!BeginAppend
  <2>2. reading = "command" /\ TakenAs(t) /\ Head(input) = t /\ Commands!InPlace(t)
    BY <2>1, TakeIs
  <2>3. t.what = "line" /\ t.part = 1
    BY <2>2 DEF Commands!InPlace
  <2> HIDE DEF t
  <2> QED BY <2>2, <2>3 DEF Commands!BeginAppend, Commands!Verb,
                           Commands!AsksFirst, Commands!Ends, Commands!Parts, Commands!Literal
<1> HIDE DEF t
<1>2. Reading /\ Begins(t)
  BY <1>1 DEF Reading, Begins
<1>3. /\ InputInv' /\ t \in Pieces /\ t.cmd \in 1 .. Len(script) /\ IsPart(script[t.cmd], t)
      /\ \A k \in 1 .. Len(input') : Begins(input'[k]) => t.cmd < input'[k].cmd
  BY <1>1, <1>2, Taken
<1>4. /\ script[t.cmd] \in Commands!Commands /\ Len(lits) \in Nat
      /\ input' = <<>> /\ (~gone => waiting = 1 /\ t.cmd = Len(script))
      /\ t.whole /\ 1 \in 1 .. Len(lits) /\ lits[1].sync
  BY <1>1, <1>2, LineRead DEF Commands!AsksFirst, Commands!Literal
<1>5. UNCHANGED <<script, waiting, gone>> /\ lits # <<>> /\ Len(input') = 0
  <2>1. lits # <<>>
    BY <1>4
  <2>2. Len(input') = 0
    BY <1>4
  <2> QED BY <1>1, <2>1, <2>2 DEF TakenAs
<1>6. \A l \in 1 .. Len(replies) : replies[l].cmd < t.cmd
  BY <1>1, <1>2, StillUnread
<1>7. r \in Replied /\ r.cmd = t.cmd /\ r.kind = "plus" /\ r.part = 1
  BY <1>3 DEF Replied
<1>8. replies' = Append(replies, r)
  BY <1>1
<1> HIDE DEF r
<1>9. /\ replies' \in Seq(Replied)
      /\ \A l \in 1 .. Len(replies') :
            (l \in 1 .. Len(replies) /\ replies'[l] = replies[l]) \/ (l = Len(replies') /\ replies'[l] = r)
      /\ \A l \in 1 .. Len(replies') :
            replies'[l].cmd \in 1 .. Len(script) /\ (replies'[l].kind = "plus" => replies'[l].part = 1)
      /\ KeptInv'
  BY <1>1, <1>3, <1>5, <1>6, <1>7, <1>8, Replying
<1>10. \A l \in 1 .. Len(replies') :
          replies'[l].cmd < hand'.cmd \/ (replies'[l].cmd = hand'.cmd /\ replies'[l].kind = "plus")
  BY <1>1, <1>6, <1>7, <1>9
<1>11. reading' \in {"body", "rest"} /\ (reading' = "body" <=> lits[1].size # "empty")
  BY <1>1
<1>12. HandInv'
  BY <1>1, <1>3, <1>4, <1>5, <1>11 DEF HandInv
<1>13. NextInv'
  <2>1. gone \/ (hand'.cmd = Len(script) /\ waiting = 1 /\ script[Len(script)].lits = lits)
    BY <1>1, <1>4
  <2> QED BY <1>4, <1>5, <1>11, <2>1 DEF NextInv, Midway
<1>14. \A k \in 1 .. Len(input'), l \in 1 .. Len(replies') : Unread(script, replies'[l], input'[k])
  BY <1>5
<1> QED BY <1>3, <1>5, <1>9, <1>10, <1>11, <1>12, <1>13, <1>14, ToMidway

\* The literal of a command is read, or thrown away.
LEMMA DataTaken == ReaderInv /\ (Commands!TakeBody \/ Commands!Discard) => ReaderInv'
<1> SUFFICES ASSUME ReaderInv, Commands!TakeBody \/ Commands!Discard PROVE ReaderInv'
  OBVIOUS
<1> DEFINE t == input[1]
<1>1. /\ reading \in {"body", "discard"} /\ TakenAs(t)
      /\ reading' = IF t.whole THEN (IF reading = "body" THEN "rest" ELSE "tail") ELSE "closed"
      /\ UNCHANGED <<hand, replies, forwarded, kept>>
  BY TakeIs DEF Commands!TakeBody, Commands!Discard
<1>2. UNCHANGED <<script, waiting, gone>> /\ input # <<>> /\ t = input[1]
  BY <1>1 DEF TakenAs
<1>3. IsData(t, hand.cmd, hand.part) /\ Reading /\ Midway /\ HandInv
  BY <1>1, <1>2 DEF ReaderInv, NextInv, Awaited, Reading, Midway
<1> HIDE DEF t
<1>4. /\ InputInv' /\ (t.whole \/ (gone /\ input' = <<>>))
      /\ \A k \in 1 .. Len(input') : k + 1 \in 1 .. Len(input) /\ input'[k] = input[k + 1]
      /\ input' # <<>> => Follows(script[t.cmd], t, input'[1])
      /\ input' = <<>> /\ ~gone => t.what = "line"
  BY <1>1, <1>3, Taken DEF IsLine
<1>5. \A k \in 1 .. Len(input'), l \in 1 .. Len(replies) : Unread(script, replies[l], input'[k])
  BY <1>1, <1>3, StillUnread
<1>6. /\ KeptInv' /\ replies' \in Seq(Replied)
      /\ \A l \in 1 .. Len(replies') :
            replies'[l].cmd \in 1 .. Len(script) /\ (replies'[l].kind = "plus" => replies'[l].part = 1)
  BY <1>1, <1>2, NoReply
<1>7. CASE ~t.whole
  BY <1>1, <1>2, <1>6, <1>7, ToClosed
<1>8. CASE t.whole
  <2>1. reading' \in {"rest", "tail"} /\ (reading' = "rest" <=> reading = "body")
    BY <1>1, <1>8
  <2>2. HandInv'
    BY <1>1, <1>2, <1>3, <1>4, <2>1 DEF HandInv
  <2>3. NextInv'
    <3>1. input' # <<>> => IsLine(input'[1], hand.cmd, hand.part + 1)
      BY <1>3, <1>4 DEF Follows, IsData
    <3>2. gone \/ input' # <<>>
      BY <1>3, <1>4 DEF IsData
    <3>3. input' # <<>> => Awaited(input[1])'
      BY <1>1, <2>1, <3>1 DEF Awaited
    <3> QED BY <1>2, <3>2, <3>3 DEF NextInv
  <2>4. InputInv'
    BY <1>1, <1>3, Taken
  <2>5. \A l \in 1 .. Len(replies) :
           replies[l].cmd < hand.cmd \/ (replies[l].cmd = hand.cmd /\ replies[l].kind = "plus")
    BY <1>3 DEF ReaderInv, RepliesInv
  <2> QED BY <1>1, <1>2, <1>5, <1>6, <2>1, <2>2, <2>3, <2>4, <2>5, ToMidway
<1> QED BY <1>7, <1>8

\* The line after a literal is the next of its command.
LEMMA LineGoesOn ==
    ASSUME ReaderInv, reading \in {"rest", "tail"}, Commands!Take(reading)
    PROVE  /\ TakenAs(input[1]) /\ Head(input) = input[1] /\ Reading /\ Midway
           /\ IsLine(input[1], hand.cmd, hand.part + 1)
           /\ hand.cmd \in 1 .. Len(script) /\ hand.part \in Nat \ {0}
           /\ \A l \in 1 .. Len(replies) :
                 replies[l].cmd < hand.cmd \/ (replies[l].cmd = hand.cmd /\ replies[l].kind = "plus")
<1>1. TakenAs(input[1]) /\ Head(input) = input[1] /\ input # <<>>
  BY TakeIs DEF TakenAs
<1>2. Reading /\ Midway
  BY DEF Reading, Midway
<1>3. IsLine(input[1], hand.cmd, hand.part + 1)
  BY <1>1, <1>2 DEF ReaderInv, NextInv, Awaited
<1>4. hand \in Pieces /\ hand.cmd \in 1 .. Len(script) /\ IsPart(script[hand.cmd], hand)
  BY <1>2 DEF ReaderInv, HandInv
<1>5. hand.part \in Nat \ {0}
  BY <1>4 DEF IsPart, Pieces
<1> QED BY <1>1, <1>2, <1>3, <1>4, <1>5 DEF ReaderInv, RepliesInv

\* The rest of the command line is read.
LEMMA RestTaken == ReaderInv /\ Commands!TakeRest => ReaderInv'
<1> SUFFICES ASSUME ReaderInv, Commands!TakeRest PROVE ReaderInv'
  OBVIOUS
<1> DEFINE t == input[1]
<1>1. Commands!Take("rest") /\ reading = "rest"
  BY TakeIs DEF Commands!TakeRest
<1>2. /\ TakenAs(t) /\ Head(input) = t /\ Reading /\ Midway
      /\ IsLine(t, hand.cmd, hand.part + 1)
      /\ \A l \in 1 .. Len(replies) :
            replies[l].cmd < hand.cmd \/ (replies[l].cmd = hand.cmd /\ replies[l].kind = "plus")
  <2>1. reading \in {"rest", "tail"} /\ Commands!Take(reading)
    BY <1>1
  <2> QED BY <2>1, LineGoesOn
<1> HIDE DEF t
<1>3. /\ hand' = t /\ UNCHANGED <<forwarded, kept>>
      /\ \/ Commands!Ends(t) /\ reading' = "stage" /\ UNCHANGED replies
         \/ Commands!AsksFirst(t) /\ Commands!Reply(t.cmd, "no") /\ reading' = "command"
         \/ Commands!SendsOn(t) /\ Commands!BeginDiscard(t)
  BY <1>2, Zenon DEF Commands!TakeRest, Commands!Ends, Commands!Parts, Commands!AsksFirst, Commands!SendsOn,
              Commands!Literal, Commands!Reply, Commands!BeginDiscard
<1>4. /\ t.what = "line" /\ t.cmd = hand.cmd
      /\ \A l \in 1 .. Len(replies) :
            replies[l].cmd < t.cmd \/ (replies[l].cmd = t.cmd /\ replies[l].kind = "plus")
  BY <1>2 DEF IsLine
<1>5. CASE Commands!SendsOn(t) /\ Commands!BeginDiscard(t)
  BY <1>2, <1>3, <1>4, <1>5, DiscardBegins
<1>6. CASE Commands!AsksFirst(t) /\ Commands!Reply(t.cmd, "no") /\ reading' = "command"
  BY <1>2, <1>3, <1>4, <1>6, AnsweredNow
<1>7. CASE Commands!Ends(t) /\ reading' = "stage" /\ UNCHANGED replies
  <2>1. /\ InputInv' /\ t \in Pieces /\ t.cmd \in 1 .. Len(script) /\ IsPart(script[t.cmd], t)
        /\ t.whole \/ (gone /\ input' = <<>>)
        /\ \A k \in 1 .. Len(input') : Begins(input'[k]) => t.cmd < input'[k].cmd
    BY <1>2, Taken
  <2>2. /\ input' # <<>> => IsLine(input'[1], t.cmd + 1, 1)
        /\ input' = <<>> /\ ~gone => waiting = 0 /\ t.cmd = Len(script)
    BY <1>2, <1>4, <1>7, LineRead
  <2>3. UNCHANGED <<script, waiting, gone>>
    BY <1>2 DEF TakenAs
  <2>4. /\ script[t.cmd].verb \in {"append", "sent"} /\ script[t.cmd].lits # <<>>
        /\ script[t.cmd].lits[1].sync /\ hand.part = 1
    BY <1>1, <1>2, <1>4 DEF ReaderInv, HandInv
  <2>5. gone \/ Len(script[t.cmd].lits) = 1
    <3>1. gone \/ t.part = Len(script[t.cmd].lits) + 1
      BY <1>7, <2>1 DEF Commands!Ends, Commands!Parts
    <3>2. t.part = 2 /\ Len(script[t.cmd].lits) \in Nat
      BY <1>2, <1>4, <2>4, LineRead DEF IsLine
    <3>3. t.part = Len(script[t.cmd].lits) + 1 => Len(script[t.cmd].lits) = 1
      <4> DEFINE n == Len(script[t.cmd].lits)
      <4>1. t.part = 2 /\ n \in Nat
        BY <3>2
      <4> HIDE DEF n
      <4>2. t.part = n + 1 => n = 1
        BY <4>1
      <4> QED BY <4>2 DEF n
    <3> QED BY <3>1, <3>3
  <2>6. HandInv'
    BY <1>3, <1>4, <1>7, <2>1, <2>3, <2>4, <2>5 DEF HandInv
  <2>7. NextInv'
    <3>1. input' # <<>> => Awaited(input[1])'
      BY <1>3, <1>7, <2>2 DEF Awaited
    <3>2. Midway'
      BY <1>7 DEF Midway
    <3> QED BY <1>3, <1>7, <2>2, <2>3, <3>1, <3>2 DEF NextInv
  <2>8. /\ KeptInv' /\ replies' \in Seq(Replied)
        /\ \A l \in 1 .. Len(replies') :
              replies'[l].cmd \in 1 .. Len(script) /\ (replies'[l].kind = "plus" => replies'[l].part = 1)
    BY <1>3, <1>7, <2>3, NoReply
  <2>9. \A k \in 1 .. Len(input'), l \in 1 .. Len(replies) : Unread(script, replies[l], input'[k])
    BY <1>2, StillUnread
  <2> QED BY <1>3, <1>4, <1>7, <2>1, <2>3, <2>6, <2>7, <2>8, <2>9, ToMidway
<1> QED BY <1>3, <1>5, <1>6, <1>7

\* The rest of the line after a literal that was thrown away.
LEMMA TailTaken == ReaderInv /\ Commands!TakeTail => ReaderInv'
<1> SUFFICES ASSUME ReaderInv, Commands!TakeTail PROVE ReaderInv'
  OBVIOUS
<1> DEFINE t == input[1]
<1>1. Commands!Take("tail") /\ reading = "tail"
  BY TakeIs DEF Commands!TakeTail
<1>2. /\ TakenAs(t) /\ Head(input) = t /\ Reading /\ Midway
      /\ IsLine(t, hand.cmd, hand.part + 1)
      /\ \A l \in 1 .. Len(replies) :
            replies[l].cmd < hand.cmd \/ (replies[l].cmd = hand.cmd /\ replies[l].kind = "plus")
  BY <1>1, LineGoesOn
<1> HIDE DEF t
<1>3. /\ hand' = t /\ UNCHANGED <<forwarded, kept>>
      /\ Commands!SendsOn(hand') => Commands!BeginDiscard(hand')
      /\ ~Commands!SendsOn(hand') => reading' = "command" /\ Commands!Reply(hand.cmd, "no")
  BY <1>2 DEF Commands!TakeTail
<1>4. /\ t.what = "line" /\ t.cmd = hand.cmd
      /\ \A l \in 1 .. Len(replies) :
            replies[l].cmd < t.cmd \/ (replies[l].cmd = t.cmd /\ replies[l].kind = "plus")
  BY <1>2 DEF IsLine
<1>5. UNCHANGED script
  BY <1>2 DEF TakenAs
<1>6. /\ Commands!SendsOn(t) => Commands!BeginDiscard(t)
      /\ ~Commands!SendsOn(t) => reading' = "command" /\ Commands!Reply(t.cmd, "no")
  BY <1>3, <1>4, <1>5 DEF Commands!SendsOn, Commands!Ends, Commands!Parts, Commands!Literal,
                          Commands!BeginDiscard, Commands!Reply
<1>7. CASE Commands!SendsOn(t)
  BY <1>2, <1>3, <1>4, <1>6, <1>7, DiscardBegins
<1>8. CASE ~Commands!SendsOn(t)
  <2>1. Commands!Ends(t) \/ Commands!AsksFirst(t)
    BY <1>8 DEF Commands!SendsOn, Commands!AsksFirst
  <2> QED BY <1>2, <1>3, <1>4, <1>6, <1>8, <2>1, AnsweredNow
<1> QED BY <1>7, <1>8

\* A command whose literal comes unasked.
LEMMA NonsyncRefused == ReaderInv /\ Commands!RefuseNonsync => ReaderInv'
<1> SUFFICES ASSUME ReaderInv, Commands!RefuseNonsync PROVE ReaderInv'
  OBVIOUS
<1> DEFINE t == input[1]
<1>1. /\ reading = "command" /\ TakenAs(t) /\ Head(input) = t /\ t.what = "line" /\ t.part = 1
  <2>1. Commands!Take("command")
    BY DEF Commands!RefuseNonsync
  <2>2. reading = "command" /\ TakenAs(t) /\ Head(input) = t /\ Commands!InPlace(t)
    BY <2>1, TakeIs
  <2> QED BY <2>2 DEF Commands!InPlace
<1> HIDE DEF t
<1>2. /\ hand' = t /\ UNCHANGED <<forwarded, kept, script>>
      /\ Commands!SendsOn(hand') /\ Commands!BeginDiscard(hand')
  BY <1>1 DEF Commands!RefuseNonsync, TakenAs
<1>3. Commands!SendsOn(t) /\ Commands!BeginDiscard(t)
  BY <1>2 DEF Commands!SendsOn, Commands!Ends, Commands!Parts, Commands!Literal,
              Commands!BeginDiscard, Commands!Reply
<1>4. Reading /\ Begins(t)
  BY <1>1 DEF Reading, Begins
<1>5. \A l \in 1 .. Len(replies) : replies[l].cmd < t.cmd
  BY <1>1, <1>4, StillUnread
<1> QED BY <1>1, <1>2, <1>3, <1>4, <1>5, DiscardBegins

\* A command without literals is carried out.
LEMMA Dispatched == ReaderInv /\ Commands!Dispatch => ReaderInv'
<1> SUFFICES ASSUME ReaderInv, Commands!Dispatch PROVE ReaderInv'
  OBVIOUS
<1> DEFINE t == input[1]
<1>1. /\ reading = "command" /\ TakenAs(t) /\ Head(input) = t /\ t.what = "line" /\ t.part = 1
  <2>1. Commands!Take("command")
    BY DEF Commands!Dispatch
  <2>2. reading = "command" /\ TakenAs(t) /\ Head(input) = t /\ Commands!InPlace(t)
    BY <2>1, TakeIs
  <2> QED BY <2>2 DEF Commands!InPlace
<1> HIDE DEF t
<1>2. /\ Commands!Ends(t) /\ UNCHANGED <<reading, hand, script, waiting, gone>>
      /\ \/ /\ forwarded' = forwarded \cup {t.cmd} /\ UNCHANGED <<replies, kept>>
         \/ /\ Commands!Reply(t.cmd, "ok") /\ UNCHANGED forwarded
            /\ \/ kept' = kept \cup {[cmd |-> t.cmd, body |-> FALSE]}
               \/ UNCHANGED kept
         \/ Commands!Reply(t.cmd, "no") /\ UNCHANGED <<forwarded, kept>>
  BY <1>1 DEF Commands!Dispatch, TakenAs, Commands!Ends, Commands!Parts, Commands!Verb, Commands!Reply
<1>3. Reading /\ Begins(t)
  BY <1>1 DEF Reading, Begins
<1>4. /\ \A k \in 1 .. Len(input'), l \in 1 .. Len(replies) : Unread(script, replies[l], input'[k])
      /\ \A l \in 1 .. Len(replies) : replies[l].cmd < t.cmd
  BY <1>1, <1>3, StillUnread
<1>5. /\ InputInv' /\ t \in Pieces /\ t.cmd \in 1 .. Len(script)
      /\ t.whole \/ (gone /\ input' = <<>>)
  BY <1>1, <1>3, Taken
<1>6. /\ input' # <<>> => IsLine(input'[1], t.cmd + 1, 1)
      /\ input' = <<>> /\ ~gone => waiting = 0 /\ t.cmd = Len(script)
      /\ Len(script[t.cmd].lits) \in Nat /\ script[t.cmd] \in Commands!Commands
  BY <1>1, <1>2, <1>3, LineRead
<1>7. gone \/ script[t.cmd].lits = <<>>
  <2>1. gone \/ Len(script[t.cmd].lits) = 0
    BY <1>1, <1>2, <1>5, <1>6 DEF Commands!Ends, Commands!Parts
  <2>2. script[t.cmd].lits \in Seq(Commands!Literals)
    BY <1>6, CommandLits
  <2> QED BY <2>1, <2>2
<1>8. CASE forwarded' = forwarded \cup {t.cmd} /\ UNCHANGED <<replies, kept>>
  <2>1. Commands!AppendIsWhole'
    <3>1. ~gone => \A i \in forwarded' : script[i].lits = <<>>
      BY <1>7, <1>8 DEF ReaderInv, KeptInv, Commands!AppendIsWhole
    <3> QED BY <1>2, <1>8, <3>1 DEF ReaderInv, KeptInv, Commands!AppendIsWhole, Commands!Answers,
                                   Commands!ToSet, Commands!Verb
  <2>2. KeptInv'
    BY <1>2, <1>5, <1>8, <2>1 DEF ReaderInv, KeptInv
  <2>3. /\ replies' \in Seq(Replied)
        /\ \A l \in 1 .. Len(replies') :
              replies'[l].cmd \in 1 .. Len(script) /\ (replies'[l].kind = "plus" => replies'[l].part = 1)
    BY <1>8 DEF ReaderInv, RepliesInv
  <2>4. input' # <<>> => Begins(input'[1])
    BY <1>6 DEF IsLine, Begins
  <2>5. ~(input' = <<>> /\ ~gone /\ waiting > 0)
    BY <1>6
  <2> QED BY <1>1, <1>2, <1>4, <1>5, <1>8, <2>2, <2>3, <2>4, <2>5, ToCommand
<1>9. CASE Commands!Reply(t.cmd, "ok") /\ UNCHANGED forwarded
           /\ (kept' = kept \cup {[cmd |-> t.cmd, body |-> FALSE]} \/ UNCHANGED kept)
  <2>1. ASSUME NEW o \in kept', o \notin kept PROVE o.cmd = t.cmd /\ (gone \/ StagedAsSent(o))
    <3>1. o.cmd = t.cmd /\ o.body = FALSE
      BY <1>9, <2>1
    <3>2. <<>> # <<Commands!Sync("fits")>>
      OBVIOUS
    <3> QED BY <1>7, <3>1, <3>2 DEF StagedAsSent
  <2> QED BY <1>1, <1>2, <1>3, <1>4, <1>9, <2>1, AnsweredNow
<1>10. CASE Commands!Reply(t.cmd, "no") /\ UNCHANGED <<forwarded, kept>>
  BY <1>1, <1>2, <1>3, <1>4, <1>10, AnsweredNow
<1> QED BY <1>2, <1>8, <1>9, <1>10

\* The connection ends where the rest of the line is read.
LEMMA RestEnded == ReaderInv /\ Commands!RestAtEnd => ReaderInv'
<1> SUFFICES ASSUME ReaderInv, Commands!RestAtEnd PROVE ReaderInv'
  OBVIOUS
<1>1. /\ reading = "rest" /\ reading' = "stage" /\ input = <<>> /\ gone
      /\ UNCHANGED <<script, waiting, gone, input, hand, replies, forwarded, kept>>
  BY DEF Commands!RestAtEnd, Commands!NoMore
<1>2. Reading /\ Midway /\ InputInv /\ HandInv /\ NextInv
  BY <1>1 DEF ReaderInv, Reading, Midway
<1>3. InputInv'
  BY <1>1, <1>2 DEF InputInv
<1>4. HandInv'
  BY <1>1, <1>2 DEF HandInv
<1>5. NextInv'
  BY <1>1 DEF NextInv
<1>6. /\ KeptInv' /\ replies' \in Seq(Replied)
      /\ \A l \in 1 .. Len(replies') :
            replies'[l].cmd \in 1 .. Len(script) /\ (replies'[l].kind = "plus" => replies'[l].part = 1)
  BY <1>1, NoReply
<1>7. /\ \A k \in 1 .. Len(input'), l \in 1 .. Len(replies') : Unread(script, replies'[l], input'[k])
      /\ \A l \in 1 .. Len(replies') :
            replies'[l].cmd < hand'.cmd \/ (replies'[l].cmd = hand'.cmd /\ replies'[l].kind = "plus")
  BY <1>1, <1>2 DEF ReaderInv, RepliesInv
<1> QED BY <1>1, <1>3, <1>4, <1>5, <1>6, <1>7, ToMidway

\* The APPEND is staged and answered.
LEMMA AppendStaged == ReaderInv /\ Commands!StageAppend => ReaderInv'
<1> SUFFICES ASSUME ReaderInv, Commands!StageAppend PROVE ReaderInv'
  OBVIOUS
<1> DEFINE i == hand.cmd
           lits == script[i].lits
           r == [cmd |-> i, kind |-> "ok", part |-> 0]
<1>1. /\ reading = "stage" /\ reading' = "command" /\ replies' = Append(replies, r)
      /\ UNCHANGED <<script, waiting, gone, input, hand, forwarded>>
      /\ \/ /\ script[i].verb # "sent"
            /\ kept' = kept \cup {[cmd |-> i, body |-> lits[1].size = "fits"]}
         \/ UNCHANGED kept
  BY DEF Commands!StageAppend, Commands!Reply, Commands!Verb
<1>2. Reading /\ Midway /\ InputInv /\ HandInv /\ NextInv /\ RepliesInv
  BY <1>1 DEF ReaderInv, Reading, Midway
<1>3. /\ i \in 1 .. Len(script) /\ hand \in Pieces /\ (gone \/ Len(lits) = 1)
      /\ script[i].verb \in {"append", "sent"} /\ lits # <<>> /\ lits[1].sync
  BY <1>1, <1>2 DEF HandInv
<1>4. \A l \in 1 .. Len(replies) :
          replies[l].cmd < i \/ (replies[l].cmd = i /\ replies[l].kind = "plus")
  BY <1>2 DEF RepliesInv
<1>5. r \in Replied /\ r.cmd = i /\ r.kind = "ok"
  BY <1>3 DEF Replied, Pieces
<1> HIDE DEF r
<1>6. ASSUME NEW o \in kept', o \notin kept
      PROVE  o.cmd = i /\ (gone \/ StagedAsSent(o))
  <2>1. /\ o.cmd = i /\ script[i].verb = "append"
        /\ o.body <=> lits[1].size = "fits"
    <3> DEFINE fits == lits[1].size = "fits"
    <3>1. o = [cmd |-> i, body |-> fits] /\ script[i].verb # "sent"
      BY <1>1, <1>6
    <3> HIDE DEF fits
    <3>2. o.cmd = i /\ o.body = fits
      BY <3>1
    <3> QED BY <1>3, <3>1, <3>2 DEF fits
  <2>2. gone \/ (lits = <<Commands!Sync("fits")>> <=> lits[1].size = "fits")
    <3> SUFFICES ASSUME ~gone PROVE lits = <<Commands!Sync("fits")>> <=> lits[1].size = "fits"
      OBVIOUS
    <3>1. lits \in Seq(Commands!Literals) /\ Len(lits) = 1
      <4>1. script[i] \in Commands!Commands
        BY <1>3 DEF ReaderInv, ClientInv
      <4> QED BY <1>3, <4>1, CommandLits
    <3>2. lits[1] \in Commands!Literals
      BY <3>1
    <3>3. lits[1].size = "fits" <=> lits[1] = Commands!Sync("fits")
      <4> DEFINE x == lits[1]
      <4>1. x \in [sync : BOOLEAN, size : {"empty", "fits", "above"}] /\ x.sync = TRUE
        BY <1>3, <3>2 DEF Commands!Literals
      <4> HIDE DEF x
      <4>2. x = [sync |-> x.sync, size |-> x.size]
        BY <4>1
      <4>3. x.size = "fits" <=> x = [sync |-> TRUE, size |-> "fits"]
        BY <4>1, <4>2
      <4> QED BY <4>3 DEF x, Commands!Sync
    <3> DEFINE one == Commands!Sync("fits")
    <3> HIDE DEF one
    <3>4. lits = <<one>> <=> lits[1] = one
      BY <3>1
    <3> QED BY <3>3, <3>4 DEF one
  <2> QED BY <1>3, <2>1, <2>2 DEF StagedAsSent
<1>7. /\ replies' \in Seq(Replied) /\ KeptInv'
      /\ \A l \in 1 .. Len(replies') :
            (l \in 1 .. Len(replies) /\ replies'[l] = replies[l]) \/ (l = Len(replies') /\ replies'[l] = r)
      /\ \A l \in 1 .. Len(replies') :
            replies'[l].cmd \in 1 .. Len(script) /\ (replies'[l].kind = "plus" => replies'[l].part = 1)
  <2>1. replies' = Append(replies, r)
    BY <1>1 DEF r
  <2>2. \A o \in kept' : o \in kept \/ (o.cmd = r.cmd /\ r.kind = "ok" /\ (gone \/ StagedAsSent(o)))
    BY <1>5, <1>6
  <2>3. UNCHANGED <<script, gone, forwarded>> /\ r.cmd \in 1 .. Len(script)
    BY <1>1, <1>3, <1>5
  <2>4. \A l \in 1 .. Len(replies) :
           replies[l].cmd < r.cmd \/ (replies[l].cmd = r.cmd /\ replies[l].kind = "plus")
    BY <1>4, <1>5
  <2> QED BY <1>5, <2>1, <2>2, <2>3, <2>4, Replying
<1>8. input # <<>> => IsLine(input[1], i + 1, 1)
  BY <1>1, <1>2 DEF NextInv, Awaited
<1>9. \A k \in 1 .. Len(input) : i < input[k].cmd
  <2> TAKE k \in 1 .. Len(input)
  <2>1. input \in Seq(Pieces)
    BY <1>2 DEF InputInv, Sound
  <2>2. input # <<>> /\ 1 \in 1 .. Len(input) /\ (k = 1 \/ 1 < k)
    BY <2>1
  <2>3. input[1].cmd = i + 1
    BY <1>8, <2>2 DEF IsLine
  <2>4. input[1].cmd <= input[k].cmd
    <3>1. 1 < k => input[1].cmd <= input[k].cmd
      BY <1>2, <2>2 DEF InputInv, Sound
    <3>2. i + 1 <= i + 1
      BY <1>3
    <3> QED BY <2>2, <2>3, <3>1, <3>2
  <2>5. i \in Nat /\ input[k].cmd \in Nat
    <3>1. input[k] \in Pieces
      BY <2>1
    <3> QED BY <1>3, <3>1 DEF Pieces
  <2> QED BY <2>3, <2>4, <2>5
<1>10. \A k \in 1 .. Len(input'), l \in 1 .. Len(replies') : Unread(script, replies'[l], input'[k])
  <2>1. \A k \in 1 .. Len(input) : Unread(script, r, input[k])
    BY <1>5, <1>9 DEF Unread
  <2>2. \A k \in 1 .. Len(input), l \in 1 .. Len(replies) : Unread(script, replies[l], input[k])
    BY <1>2 DEF RepliesInv
  <2> QED BY <1>1, <1>7, <2>1, <2>2
<1>11. InputInv'
  BY <1>1, <1>2 DEF InputInv
<1>12. input' # <<>> => Begins(input'[1]) \/ Spoilt
  BY <1>1, <1>8 DEF IsLine, Begins
<1>13. ~(input' = <<>> /\ ~gone /\ waiting > 0)
  <2>1. input = <<>> /\ ~gone => waiting = 0
    BY <1>1, <1>2 DEF NextInv
  <2> QED BY <1>1, <2>1
<1> QED BY <1>1, <1>7, <1>10, <1>11, <1>12, <1>13, ToCommand

\* The proxy is out of step only after a command it should not have rejected so.
LEMMA StepLost == ReaderInv /\ Commands!LoseStep => ReaderInv'
<1> SUFFICES ASSUME ReaderInv, Commands!LoseStep PROVE ReaderInv'
  OBVIOUS
<1>1. /\ reading \notin {"stage", "lost", "closed"} /\ input # <<>> /\ ~Commands!InPlace(Head(input))
      /\ reading' = "lost"
      /\ UNCHANGED <<script, waiting, gone, input, hand, replies, forwarded, kept>>
  BY DEF Commands!LoseStep
<1>2. Reading /\ NextInv /\ InputInv /\ HandInv
  BY <1>1 DEF ReaderInv, Reading
<1> DEFINE t == input[1]
<1>3. ~Commands!InPlace(t) /\ t \in Pieces
  <2>1. input \in Seq(Pieces)
    BY <1>2 DEF InputInv, Sound
  <2>2. Head(input) = input[1] /\ input[1] \in Pieces
    BY <1>1, <2>1
  <2> QED BY <1>1, <2>2 DEF Commands!InPlace
<1>4. Awaited(t)
  BY <1>1, <1>2 DEF NextInv
<1> HIDE DEF t
<1>5. CASE reading \in {"body", "discard"}
  <2>1. IsData(t, hand.cmd, hand.part) /\ hand \in Pieces
    BY <1>2, <1>4, <1>5 DEF Awaited, HandInv, Midway
  <2>2. t = [hand EXCEPT !.what = "data", !.whole = t.whole]
    BY <1>3, <2>1 DEF IsData, Pieces
  <2> QED BY <1>3, <1>5, <2>2 DEF Commands!InPlace
<1>6. CASE reading \in {"rest", "tail"}
  BY <1>3, <1>4, <1>6 DEF Awaited, IsLine, Commands!InPlace
<1>7. CASE reading = "command"
  <2>1. Spoilt
    BY <1>3, <1>4, <1>7 DEF Awaited, Begins, Commands!InPlace
  <2>2. StepInv'
    BY <1>1, <2>1 DEF StepInv, Spoilt
  <2>3. /\ KeptInv' /\ replies' \in Seq(Replied)
        /\ \A l \in 1 .. Len(replies') :
              replies'[l].cmd \in 1 .. Len(script) /\ (replies'[l].kind = "plus" => replies'[l].part = 1)
    BY <1>1, NoReply
  <2>4. ~Reading' /\ ~Midway'
    BY <1>1 DEF Reading, Midway
  <2>5. ClientInv'
    BY <1>1 DEF ReaderInv, ClientInv
  <2> QED BY <1>1, <2>2, <2>3, <2>4, <2>5 DEF ReaderInv, RepliesInv
<1> QED BY <1>1, <1>5, <1>6, <1>7 DEF ReaderInv

\* No more comes.
LEMMA ReaderEnds == ReaderInv /\ Commands!ReaderStops => ReaderInv'
<1> SUFFICES ASSUME ReaderInv, Commands!ReaderStops PROVE ReaderInv'
  OBVIOUS
<1>1. /\ reading' = "closed"
      /\ UNCHANGED <<script, waiting, gone, input, hand, replies, forwarded, kept>>
  BY DEF Commands!ReaderStops, Commands!NoMore
<1> QED BY <1>1, NoReply, ToClosed

\* Whatever the proxy reads.
LEMMA ReaderStep == ReaderInv /\ Commands!Reader => ReaderInv'
BY BadRejected, SyncRefused, AppendBegun, DataTaken, RestTaken, RestEnded, AppendStaged,
   NonsyncRefused, TailTaken, Dispatched, StepLost, ReaderEnds DEF Commands!Reader

-----------------------------------------------------------------------------
(* The steps of the client *)

\* The lines from p to q of command i, which come after what was sent.
SentAfter(sc, s, i, p, q, t) ==
    /\ Len(sc) \in Nat /\ i \in 1 .. Len(sc) /\ p \in Nat /\ q \in Nat
    /\ Sound(sc, s) /\ Stretch(sc[i], i, p, q, t)
    /\ \A k \in 1 .. Len(s) : s[k].cmd < i
    /\ s # <<>> => Follows(sc[s[Len(s)].cmd], s[Len(s)], t[1])

\* j is what was sent, and then the lines of command i up to line q.
Extended(sc, s, i, q, t, j) ==
    /\ Sound(sc, j) /\ j # <<>>
    /\ Len(s) \in Nat /\ Len(t) \in Nat /\ Len(j) = Len(s) + Len(t)
    /\ \A k \in 1 .. Len(s) : j[k] = s[k]
    /\ \A k \in 1 .. Len(t) : j[Len(s) + k] = t[k]
    /\ \A k \in 1 .. Len(j) :
          k \in 1 .. Len(s) \/ (k - Len(s) \in 1 .. Len(t) /\ k = Len(s) + (k - Len(s)))
    /\ IsLine(j[Len(j)], i, q)
    /\ j[1] = IF s = <<>> THEN t[1] ELSE s[1]

\* What the client sends on comes after what it sent.
LEMMA SoundJoin ==
    ASSUME NEW sc, NEW s, NEW i, NEW p, NEW q, NEW t, SentAfter(sc, s, i, p, q, t)
    PROVE  Extended(sc, s, i, q, t, s \o t)
<1>0. /\ Len(sc) \in Nat /\ i \in 1 .. Len(sc) /\ p \in Nat /\ q \in Nat
      /\ Sound(sc, s) /\ Stretch(sc[i], i, p, q, t)
      /\ \A k \in 1 .. Len(s) : s[k].cmd < i
      /\ s # <<>> => Follows(sc[s[Len(s)].cmd], s[Len(s)], t[1])
  BY DEF SentAfter
<1> DEFINE j == s \o t
<1>1. s \in Seq(Pieces) /\ t \in Seq(Pieces) /\ Len(t) > 0
  BY <1>0 DEF Sound, Stretch
<1>2. /\ Len(s) \in Nat /\ Len(t) \in Nat
      /\ j \in Seq(Pieces) /\ Len(j) = Len(s) + Len(t)
      /\ \A k \in 1 .. Len(s) : j[k] = s[k]
      /\ \A k \in 1 .. Len(t) : j[Len(s) + k] = t[k]
      /\ s # <<>> => Len(s) > 0
      /\ s = <<>> => Len(s) = 0
  BY <1>1
<1> HIDE DEF j
<1>3. \A k \in 1 .. Len(j) : k \in 1 .. Len(s) \/ (k - Len(s) \in 1 .. Len(t) /\ k = Len(s) + (k - Len(s)))
  BY <1>2
<1>4. \A k \in 1 .. Len(t) : t[k].cmd = i /\ IsPart(sc[i], t[k]) /\ (k > 1 => ~Begins(t[k]))
  BY <1>0, <1>1, <1>2 DEF Stretch
<1>5. \A k \in 1 .. Len(j) : j[k].cmd \in 1 .. Len(sc) /\ IsPart(sc[j[k].cmd], j[k])
  <2> TAKE k \in 1 .. Len(j)
  <2>1. CASE k \in 1 .. Len(s)
    BY <1>0, <1>2, <2>1 DEF Sound
  <2>2. CASE k - Len(s) \in 1 .. Len(t) /\ k = Len(s) + (k - Len(s))
    <3>1. j[k] = t[k - Len(s)]
      BY <1>2, <2>2
    <3> QED BY <1>0, <1>4, <2>2, <3>1
  <2> QED BY <1>3, <2>1, <2>2
<1>6. /\ Len(s) + 1 \in 1 .. Len(j) /\ j[Len(s) + 1] = t[1] /\ j[Len(j)] = t[Len(t)]
      /\ s # <<>> => j[Len(s)] = s[Len(s)] /\ j[1] = s[1]
  <2>1. 1 \in 1 .. Len(t) /\ Len(t) \in 1 .. Len(t) /\ Len(s) + 1 \in 1 .. Len(j)
    BY <1>1, <1>2
  <2>2. s # <<>> => 1 \in 1 .. Len(s) /\ Len(s) \in 1 .. Len(s)
    BY <1>2
  <2> QED BY <1>2, <2>1, <2>2
<1>7. \A k \in 1 .. Len(j) - 1 : Follows(sc[j[k].cmd], j[k], j[k + 1])
  <2> TAKE k \in 1 .. Len(j) - 1
  <2>1. CASE k \in 1 .. Len(s) - 1
    <3>1. k \in 1 .. Len(s) /\ k + 1 \in 1 .. Len(s)
      BY <1>2, <2>1
    <3>2. j[k] = s[k] /\ j[k + 1] = s[k + 1]
      BY <1>2, <3>1
    <3> QED BY <1>0, <2>1, <3>2 DEF Sound
  <2>2. CASE k = Len(s)
    <3>1. s # <<>>
      BY <1>2, <2>2
    <3> QED BY <1>0, <1>6, <2>2, <3>1
  <2>3. CASE k \notin 1 .. Len(s)
    <3>1. /\ k - Len(s) \in 1 .. Len(t) - 1 /\ k = Len(s) + (k - Len(s))
          /\ k - Len(s) \in 1 .. Len(t)
          /\ (k - Len(s)) + 1 \in 1 .. Len(t) /\ k + 1 = Len(s) + ((k - Len(s)) + 1)
      BY <1>2, <2>3
    <3>2. j[k] = t[k - Len(s)]
      BY <1>2, <3>1
    <3>3. j[k + 1] = t[(k - Len(s)) + 1]
      <4>1. j[Len(s) + ((k - Len(s)) + 1)] = t[(k - Len(s)) + 1]
        BY <1>2, <3>1
      <4> QED BY <3>1, <4>1
    <3>4. Follows(sc[i], t[k - Len(s)], t[(k - Len(s)) + 1])
      BY <1>0, <3>1 DEF Stretch
    <3>5. t[k - Len(s)].cmd = i
      BY <1>4, <3>1
    <3> QED BY <3>2, <3>3, <3>4, <3>5
  <2> QED BY <1>2, <2>1, <2>2, <2>3
<1>8. \A k, l \in 1 .. Len(j) :
          k < l => j[k].cmd <= j[l].cmd /\ (Begins(j[l]) => j[k].cmd < j[l].cmd)
  <2> TAKE k, l \in 1 .. Len(j)
  <2> HAVE k < l
  <2>1. CASE l \in 1 .. Len(s)
    <3>1. k \in 1 .. Len(s) /\ j[k] = s[k] /\ j[l] = s[l]
      BY <1>2, <2>1
    <3> QED BY <1>0, <2>1, <3>1 DEF Sound
  <2>2. CASE l \notin 1 .. Len(s)
    <3>1. l - Len(s) \in 1 .. Len(t) /\ l = Len(s) + (l - Len(s))
      BY <1>3, <2>2
    <3>2. j[l] = t[l - Len(s)] /\ j[l].cmd = i
      BY <1>2, <1>4, <3>1
    <3>3. CASE k \in 1 .. Len(s)
      <4>1. j[k].cmd < i /\ j[k].cmd \in Nat
        <5>1. s[k] \in Pieces
          BY <1>1, <3>3
        <5> QED BY <1>0, <1>2, <3>3, <5>1 DEF Pieces
      <4> QED BY <1>0, <3>2, <4>1
    <3>4. CASE k \notin 1 .. Len(s)
      <4>1. k - Len(s) \in 1 .. Len(t) /\ k = Len(s) + (k - Len(s)) /\ l - Len(s) > 1
        BY <1>2, <1>3, <3>1, <3>4
      <4>2. j[k].cmd = i /\ ~Begins(j[l])
        <5>1. j[k] = t[k - Len(s)]
          BY <1>2, <4>1
        <5> QED BY <1>4, <3>1, <3>2, <4>1, <5>1
      <4> QED BY <1>0, <3>2, <4>2
    <3> QED BY <3>3, <3>4
  <2> QED BY <2>1, <2>2
<1>9. Sound(sc, j) /\ j # <<>>
  <2>1. Len(j) # 0
    BY <1>1, <1>2
  <2> QED BY <1>2, <1>5, <1>7, <1>8, <2>1 DEF Sound
<1>10. IsLine(j[Len(j)], i, q)
  BY <1>0, <1>6 DEF Stretch
<1>11. j[1] = IF s = <<>> THEN t[1] ELSE s[1]
  <2>1. s = <<>> => Len(s) + 1 = 1
    BY <1>2
  <2> QED BY <1>6, <2>1
<1> QED BY <1>2, <1>3, <1>9, <1>10, <1>11 DEF j, Extended

\* One more command takes nothing from those before it.
LEMMA ScriptGrows ==
    ASSUME ClientInv, NEW c \in Commands!Commands, script' = Append(script, c)
    PROVE  /\ script' \in Seq(Commands!Commands) /\ Len(script) \in Nat
           /\ Len(script') = Len(script) + 1 /\ script'[Len(script) + 1] = c
           /\ \A i \in 1 .. Len(script) : i \in 1 .. Len(script') /\ script'[i] = script[i]
           /\ Spoilt => Spoilt'
           /\ \A s : Sound(script, s) => Sound(script', s)
<1>1. script \in Seq(Commands!Commands) /\ Len(script) \in Nat
  BY DEF ClientInv
<1>2. /\ script' \in Seq(Commands!Commands)
      /\ Len(script') = Len(script) + 1 /\ script'[Len(script) + 1] = c
      /\ \A i \in 1 .. Len(script) : i \in 1 .. Len(script') /\ script'[i] = script[i]
  BY <1>1
<1>3. Spoilt => Spoilt'
  <2>1. DOMAIN script = 1 .. Len(script) /\ DOMAIN script' = 1 .. Len(script')
    BY <1>1, <1>2
  <2> QED BY <1>2, <2>1 DEF Spoilt
<1>4. ASSUME NEW s, Sound(script, s) PROVE Sound(script', s)
  <2>1. \A k \in 1 .. Len(s) :
            /\ s[k].cmd \in 1 .. Len(script') /\ script'[s[k].cmd] = script[s[k].cmd]
    BY <1>2, <1>4 DEF Sound
  <2>2. \A k \in 1 .. Len(s) - 1 : k \in 1 .. Len(s)
    <3>1. Len(s) \in Nat
      BY <1>4 DEF Sound
    <3> QED BY <3>1
  <2> QED BY <1>4, <2>1, <2>2 DEF Sound
<1> QED BY <1>1, <1>2, <1>3, <1>4

\* Where the client waits after it has sent what it may.
LEMMA WaitsThere ==
    ASSUME NEW c \in Commands!Commands, NEW i \in Nat, NEW p \in 1 .. Len(c.lits) + 1,
           Commands!Sends(c, i, p)
    PROVE  /\ waiting' \in Nat /\ Commands!Stop(c, p) \in Nat
           /\ waiting' > 0 => waiting' <= Len(c.lits) /\ c.lits[waiting'].sync
           /\ Commands!Stop(c, p) = IF waiting' = 0 THEN Len(c.lits) + 1 ELSE waiting'
           /\ input' = input \o Commands!Lines(c, i, p)
           /\ Stretch(c, i, p, Commands!Stop(c, p), Commands!Lines(c, i, p))
<1> DEFINE m == Commands!Stop(c, p)
<1>1. Len(c.lits) \in Nat
  BY CommandLits
<1>2. m \in p .. Len(c.lits) + 1 /\ (m = Len(c.lits) + 1 \/ c.lits[m].sync)
  BY StopsAt
<1>3. waiting' = (IF m = Len(c.lits) + 1 THEN 0 ELSE m) /\ input' = input \o Commands!Lines(c, i, p)
  BY DEF Commands!Sends, Commands!Parts
<1> HIDE DEF m
<1>4. m \in Nat \ {0} /\ (m # Len(c.lits) + 1 => m <= Len(c.lits))
  BY <1>1, <1>2
<1> QED BY <1>2, <1>3, <1>4, LinesSent DEF m

\* The client begins a command.
LEMMA CommandBegun == ReaderInv /\ Commands!ClientBegins => ReaderInv'
<1> SUFFICES ASSUME ReaderInv, Commands!ClientBegins PROVE ReaderInv'
  OBVIOUS
<1> DEFINE i == Len(script) + 1
<1>1. /\ ~gone /\ waiting = 0
      /\ UNCHANGED <<gone, reading, hand, replies, forwarded, kept>>
  BY DEF Commands!ClientBegins
<1>2. PICK c \in Commands!Commands : script' = Append(script, c) /\ Commands!Sends(c, i, 1)
  BY DEF Commands!ClientBegins, Commands!Latest
<1>3. ClientInv
  BY DEF ReaderInv
<1>4. /\ script' \in Seq(Commands!Commands) /\ Len(script) \in Nat
      /\ Len(script') = i /\ script'[i] = c
      /\ \A k \in 1 .. Len(script) : k \in 1 .. Len(script') /\ script'[k] = script[k]
      /\ Spoilt => Spoilt'
      /\ \A s : Sound(script, s) => Sound(script', s)
  BY <1>2, <1>3, ScriptGrows
<1>5. Len(c.lits) \in Nat /\ 1 \in 1 .. Len(c.lits) + 1 /\ i \in Nat /\ i \in 1 .. Len(script')
  <2>1. Len(c.lits) \in Nat
    BY CommandLits
  <2> QED BY <1>4, <2>1
<1> DEFINE more == Commands!Lines(c, i, 1)
           stop == Commands!Stop(c, 1)
<1>6. /\ waiting' \in Nat /\ stop \in Nat
      /\ waiting' > 0 => waiting' <= Len(c.lits) /\ c.lits[waiting'].sync
      /\ stop = IF waiting' = 0 THEN Len(c.lits) + 1 ELSE waiting'
      /\ input' = input \o more /\ Stretch(c, i, 1, stop, more)
  BY <1>2, <1>5, WaitsThere
<1> HIDE DEF i, more, stop
<1>7. ClientInv'
  <2>1. gone' \in BOOLEAN
    BY <1>1, <1>3 DEF ClientInv
  <2>2. Len(script') > 0
    BY <1>4, <1>5 DEF i
  <2> QED BY <1>4, <1>6, <2>1, <2>2 DEF ClientInv
<1>8. \A l \in 1 .. Len(replies) : replies[l].cmd \in 1 .. Len(script) /\ replies[l].cmd < i
  BY <1>4 DEF ReaderInv, RepliesInv, i
<1>9. KeptInv'
  <2>1. Commands!AppendIsWhole'
    <3>1. \A o \in kept : script'[o.cmd] = script[o.cmd]
      BY <1>4 DEF ReaderInv, KeptInv
    <3>2. \A k \in forwarded : script'[k] = script[k]
      BY <1>4 DEF ReaderInv, KeptInv
    <3> QED BY <1>1, <3>1, <3>2 DEF ReaderInv, KeptInv, Commands!AppendIsWhole, Commands!Answers,
                                   Commands!ToSet, Commands!Verb
  <2> QED BY <1>1, <1>4, <2>1 DEF ReaderInv, KeptInv
<1>10. StepInv'
  BY <1>1, <1>4 DEF ReaderInv, StepInv
<1>11. /\ replies' \in Seq(Replied)
       /\ \A l \in 1 .. Len(replies') :
             replies'[l].cmd \in 1 .. Len(script') /\ (replies'[l].kind = "plus" => replies'[l].part = 1)
       /\ Midway' => \A l \in 1 .. Len(replies') :
             replies'[l].cmd < hand'.cmd \/ (replies'[l].cmd = hand'.cmd /\ replies'[l].kind = "plus")
  <2>1. replies' = replies /\ hand' = hand /\ (Midway' <=> Midway)
    BY <1>1 DEF Midway
  <2> QED BY <1>4, <2>1 DEF ReaderInv, RepliesInv
<1>12. CASE ~Reading
  <2>1. ~Reading'
    BY <1>1, <1>12 DEF Reading
  <2> QED BY <1>1, <1>7, <1>9, <1>10, <1>11, <2>1 DEF ReaderInv, RepliesInv
<1>13. CASE Reading
  <2>1. InputInv /\ HandInv /\ NextInv
    BY <1>13 DEF ReaderInv
  <2>2. Sound(script', input) /\ input \in Seq(Pieces) /\ Len(input) \in Nat
    <3>1. Sound(script, input)
      BY <2>1 DEF InputInv
    <3>2. input \in Seq(Pieces)
      BY <3>1 DEF Sound
    <3> QED BY <1>4, <3>1, <3>2
  <2>3. \A k \in 1 .. Len(input) : /\ input[k].cmd \in 1 .. Len(script) /\ input[k].cmd < i
                                   /\ script'[input[k].cmd] = script[input[k].cmd]
    BY <1>4, <2>1 DEF InputInv, Sound, i
  <2>4. Len(more) > 0 /\ IsLine(more[1], i, 1)
        /\ \A k \in 1 .. Len(more) : more[k].cmd = i /\ more[k].whole
    BY <1>6 DEF Stretch
  <2>5. input # <<>> => Follows(script'[input[Len(input)].cmd], input[Len(input)], more[1])
    <3> SUFFICES ASSUME input # <<>>
                 PROVE  Follows(script'[input[Len(input)].cmd], input[Len(input)], more[1])
      OBVIOUS
    <3>1. Len(input) \in 1 .. Len(input)
      BY <2>2
    <3>2. IsLine(input[Len(input)], Len(script), Len(script[Len(script)].lits) + 1)
      BY <1>1, <2>1 DEF InputInv
    <3>3. script'[input[Len(input)].cmd] = script[Len(script)]
      BY <2>3, <3>1, <3>2 DEF IsLine
    <3> QED BY <2>4, <3>2, <3>3 DEF IsLine, Follows, i
  <2>6. /\ Sound(script', input') /\ input' # <<>>
        /\ Len(more) \in Nat /\ Len(input') = Len(input) + Len(more)
        /\ \A k \in 1 .. Len(input) : input'[k] = input[k]
        /\ \A k \in 1 .. Len(more) : input'[Len(input) + k] = more[k]
        /\ \A k \in 1 .. Len(input') :
              \/ k \in 1 .. Len(input)
              \/ k - Len(input) \in 1 .. Len(more) /\ k = Len(input) + (k - Len(input))
        /\ IsLine(input'[Len(input')], i, stop)
        /\ input'[1] = IF input = <<>> THEN more[1] ELSE input[1]
    <3>1. SentAfter(script', input, i, 1, stop, more)
      <4>1. Len(script') \in Nat /\ 1 \in Nat /\ Stretch(script'[i], i, 1, stop, more)
        BY <1>4, <1>5, <1>6
      <4> QED BY <1>5, <1>6, <2>2, <2>3, <2>5, <4>1 DEF SentAfter
    <3>2. Extended(script', input, i, stop, more, input \o more)
      BY <3>1, SoundJoin
    <3> QED BY <1>6, <3>2 DEF Extended
  <2>7. \A k \in 1 .. Len(input') :
            (k \in 1 .. Len(input) /\ input'[k] = input[k]) \/ (input'[k].cmd = i /\ input'[k].whole)
    <3> TAKE k \in 1 .. Len(input')
    <3>1. CASE k - Len(input) \in 1 .. Len(more) /\ k = Len(input) + (k - Len(input))
      <4>1. input'[k] = more[k - Len(input)]
        BY <2>6, <3>1
      <4> QED BY <2>4, <3>1, <4>1
    <3> QED BY <2>6, <3>1
  <2>8. InputInv'
    <3>1. \A k \in 1 .. Len(input') : input'[k].whole
      BY <1>1, <2>1, <2>7 DEF InputInv
    <3>2. IsLine(input'[Len(input')], Len(script'),
                 IF waiting' = 0 THEN Len(script'[Len(script')].lits) + 1 ELSE waiting')
      BY <1>4, <1>6, <2>6
    <3> QED BY <2>6, <3>1, <3>2 DEF InputInv
  <2>9. HandInv'
    <3> SUFFICES ASSUME Midway PROVE HandInv'
      BY <1>1 DEF HandInv, Midway
    <3>1. hand.cmd \in 1 .. Len(script) /\ hand.cmd < i /\ script'[hand.cmd] = script[hand.cmd]
          /\ hand.cmd \in 1 .. Len(script')
      BY <1>4, <2>1 DEF HandInv, i
    <3>2. \A k \in 1 .. Len(input') : Begins(input'[k]) => hand.cmd < input'[k].cmd
      BY <2>1, <2>7, <3>1 DEF HandInv
    <3> QED BY <1>1, <2>1, <3>1, <3>2 DEF HandInv, Midway
  <2>10. NextInv'
    <3>1. Awaited(input[1])'
      <4>1. CASE input # <<>>
        <5>1. Awaited(input[1]) /\ input'[1] = input[1]
          BY <2>1, <2>6, <4>1 DEF NextInv
        <5> QED BY <1>1, <1>4, <5>1 DEF Awaited
      <4>2. CASE input = <<>>
        <5>1. input'[1] = more[1]
          BY <2>6, <4>2
        <5>2. /\ reading \notin {"discard", "tail", "body", "rest"}
              /\ reading = "stage" => hand.cmd = Len(script)
          BY <1>1, <2>1, <4>2 DEF NextInv, Midway
        <5> QED BY <1>1, <2>4, <5>1, <5>2 DEF Awaited, IsLine, Begins, i
      <4> QED BY <4>1, <4>2
    <3> QED BY <2>6, <3>1 DEF NextInv
  <2>11. \A k \in 1 .. Len(input'), l \in 1 .. Len(replies') : Unread(script', replies'[l], input'[k])
    <3> TAKE k \in 1 .. Len(input'), l \in 1 .. Len(replies')
    <3>1. replies' = replies
      BY <1>1
    <3>2. CASE k \in 1 .. Len(input) /\ input'[k] = input[k]
      <4>1. Unread(script, replies[l], input[k]) /\ script'[input[k].cmd] = script[input[k].cmd]
        BY <1>13, <2>3, <3>1, <3>2 DEF ReaderInv, RepliesInv
      <4> QED BY <3>1, <3>2, <4>1 DEF Unread
    <3>3. CASE input'[k].cmd = i
      BY <1>8, <3>1, <3>3 DEF Unread
    <3> QED BY <2>7, <3>2, <3>3
  <2>12. RepliesInv'
    BY <1>11, <2>11 DEF RepliesInv
  <2> QED BY <1>1, <1>7, <1>9, <1>10, <2>8, <2>9, <2>10, <2>12 DEF ReaderInv
<1> QED BY <1>12, <1>13

\* The client sends the literal it was asked for, and the lines after it.
LEMMA CommandGoesOn == ReaderInv /\ Commands!ClientGoesOn => ReaderInv'
<1> SUFFICES ASSUME ReaderInv, Commands!ClientGoesOn PROVE ReaderInv'
  OBVIOUS
<1> DEFINE i == Len(script)
           c == script[i]
<1>1. /\ ~gone /\ waiting > 0 /\ Commands!Sends(c, i, waiting + 1)
      /\ UNCHANGED <<script, gone, reading, hand, replies, forwarded, kept>>
  BY DEF Commands!ClientGoesOn, Commands!Latest
<1>2. PICK a \in DOMAIN replies : replies[a].cmd = i /\ replies[a].kind = "plus" /\ replies[a].part = waiting
  BY DEF Commands!ClientGoesOn, Commands!Latest
<1>3. replies \in Seq(Replied) /\ a \in 1 .. Len(replies) /\ waiting = 1
  <2>1. replies \in Seq(Replied)
    BY DEF ReaderInv, RepliesInv
  <2>2. a \in 1 .. Len(replies)
    BY <1>2, <2>1
  <2> QED BY <1>2, <2>1, <2>2 DEF ReaderInv, RepliesInv
<1>4. /\ script \in Seq(Commands!Commands) /\ i \in Nat /\ i \in 1 .. Len(script)
      /\ c \in Commands!Commands /\ Len(c.lits) \in Nat /\ 1 \in 1 .. Len(c.lits)
  <2>1. script \in Seq(Commands!Commands) /\ i > 0 /\ waiting <= Len(c.lits)
    BY <1>1 DEF ReaderInv, ClientInv
  <2>2. i \in 1 .. Len(script) /\ i \in Nat
    BY <2>1
  <2>3. c \in Commands!Commands
    BY <2>1, <2>2
  <2>4. Len(c.lits) \in Nat
    BY <2>3, CommandLits
  <2> QED BY <1>3, <2>1, <2>2, <2>3, <2>4
<1> DEFINE more == Commands!Lines(c, i, 2)
           stop == Commands!Stop(c, 2)
<1>5. /\ waiting' \in Nat /\ stop \in Nat
      /\ waiting' > 0 => waiting' <= Len(c.lits) /\ c.lits[waiting'].sync
      /\ stop = IF waiting' = 0 THEN Len(c.lits) + 1 ELSE waiting'
      /\ input' = input \o more /\ Stretch(c, i, 2, stop, more)
  <2>1. 2 \in 1 .. Len(c.lits) + 1 /\ waiting + 1 = 2
    BY <1>3, <1>4
  <2> QED BY <1>1, <1>4, <2>1, WaitsThere
<1> HIDE DEF i, c, more, stop
<1>6. ClientInv'
  BY <1>1, <1>4, <1>5 DEF ReaderInv, ClientInv, i, c
<1>7. /\ KeptInv' /\ replies' \in Seq(Replied)
      /\ \A l \in 1 .. Len(replies') :
            replies'[l].cmd \in 1 .. Len(script) /\ (replies'[l].kind = "plus" => replies'[l].part = 1)
  BY <1>1, NoReply
<1>8. StepInv'
  BY <1>1 DEF ReaderInv, StepInv, Spoilt
<1>9. CASE ~Reading
  <2>1. ~Reading' /\ ~Midway'
    BY <1>1, <1>9 DEF Reading, Midway
  <2> QED BY <1>1, <1>6, <1>7, <1>8, <2>1 DEF ReaderInv, RepliesInv
<1>10. CASE Reading
  <2>1. InputInv /\ HandInv /\ NextInv
    BY <1>10 DEF ReaderInv
  <2>2. input = <<>>
    <3> SUFFICES ASSUME input # <<>> PROVE FALSE
      OBVIOUS
    <3>1. IsLine(input[Len(input)], i, 1)
      BY <1>1, <1>3, <2>1 DEF InputInv, i
    <3>2. Len(input) \in 1 .. Len(input)
      <4>1. input \in Seq(Pieces)
        BY <2>1 DEF InputInv, Sound
      <4> QED BY <4>1
    <3>3. Unread(script, replies[a], input[Len(input)])
      BY <1>3, <1>10, <3>2 DEF ReaderInv, RepliesInv
    <3>4. replies[a].cmd < i /\ replies[a].cmd = i /\ i \in Nat
      BY <1>2, <1>4, <3>1, <3>3 DEF Unread, IsLine, Begins, i
    <3> QED BY <3>4
  <2>3. /\ reading \in {"body", "rest"} /\ Midway /\ hand.cmd = i /\ hand.part = 1
        /\ reading = "body" <=> c.lits[1].size # "empty"
    <3>1. AskedFor(waiting)
      BY <1>2 DEF AskedFor, i
    <3>2. Midway
      BY <1>1, <2>1, <2>2, <3>1 DEF NextInv
    <3>3. reading \in {"body", "rest"}
      BY <1>1, <2>1, <2>2, <3>2 DEF NextInv, Midway
    <3> QED BY <1>1, <2>1, <2>2, <3>2, <3>3 DEF NextInv, HandInv, i, c
  <2>4. /\ Sound(script, input') /\ input' # <<>>
        /\ Len(input) \in Nat /\ Len(more) \in Nat
        /\ \A k \in 1 .. Len(more) : input'[Len(input) + k] = more[k]
        /\ \A k \in 1 .. Len(input') :
              \/ k \in 1 .. Len(input)
              \/ k - Len(input) \in 1 .. Len(more) /\ k = Len(input) + (k - Len(input))
        /\ IsLine(input'[Len(input')], i, stop)
        /\ input'[1] = IF input = <<>> THEN more[1] ELSE input[1]
    <3>1. Len(script) \in Nat /\ 2 \in Nat /\ Stretch(script[i], i, 2, stop, more)
      BY <1>4, <1>5 DEF c
    <3>2. Sound(script, input) /\ \A k \in 1 .. Len(input) : input[k].cmd < i
      <4>1. \A k \in 1 .. 0 : FALSE
        OBVIOUS
      <4>2. Len(input) = 0
        BY <2>2
      <4> QED BY <2>1, <4>1, <4>2 DEF InputInv
    <3>3. SentAfter(script, input, i, 2, stop, more)
      BY <1>4, <1>5, <2>2, <3>1, <3>2 DEF SentAfter
    <3>4. Extended(script, input, i, stop, more, input \o more)
      BY <3>3, SoundJoin
    <3> QED BY <1>5, <3>4 DEF Extended
  <2>5. /\ \A k \in 1 .. Len(more) : more[k].cmd = i /\ more[k].whole /\ ~Begins(more[k])
        /\ AfterLine(c, i, 1, more[1])
    <3>1. 2 > 1 /\ 2 - 1 = 1 /\ 2 # 1
      OBVIOUS
    <3>2. ~Begins(more[1]) /\ AfterLine(c, i, 1, more[1])
      BY <1>5, <3>1 DEF Stretch
    <3>3. \A k \in 1 .. Len(more) : k = 1 \/ k \in 2 .. Len(more)
      BY <2>4
    <3>4. \A k \in 1 .. Len(more) : more[k].cmd = i /\ more[k].whole
      BY <1>5 DEF Stretch
    <3>5. \A k \in 2 .. Len(more) : ~Begins(more[k])
      BY <1>5 DEF Stretch
    <3> QED BY <3>2, <3>3, <3>4, <3>5
  <2>6. \A k \in 1 .. Len(input') : input'[k].cmd = i /\ input'[k].whole /\ ~Begins(input'[k])
    <3> TAKE k \in 1 .. Len(input')
    <3>1. k \notin 1 .. Len(input)
      BY <2>2
    <3>2. k - Len(input) \in 1 .. Len(more) /\ input'[k] = more[k - Len(input)]
      BY <2>4, <3>1
    <3> QED BY <2>5, <3>2
  <2>7. InputInv'
    <3>1. IsLine(input'[Len(input')], Len(script'),
                 IF waiting' = 0 THEN Len(script'[Len(script')].lits) + 1 ELSE waiting')
      BY <1>1, <1>5, <2>4 DEF i, c
    <3> QED BY <1>1, <2>4, <2>6, <3>1 DEF InputInv
  <2>8. HandInv'
    BY <1>1, <2>1, <2>6 DEF HandInv, Midway
  <2>9. NextInv'
    <3>1. Awaited(input[1])'
      BY <1>1, <2>2, <2>3, <2>4, <2>5 DEF Awaited, AfterLine
    <3> QED BY <2>4, <3>1 DEF NextInv
  <2>10. \A k \in 1 .. Len(input'), l \in 1 .. Len(replies') : Unread(script', replies'[l], input'[k])
    <3>1. \A l \in 1 .. Len(replies) :
              replies[l].cmd < i \/ (replies[l].cmd = i /\ replies[l].kind = "plus")
      BY <2>3 DEF ReaderInv, RepliesInv
    <3> QED BY <1>1, <2>6, <3>1 DEF Unread
  <2>11. RepliesInv'
    <3>1. Midway' => \A l \in 1 .. Len(replies') :
              replies'[l].cmd < hand'.cmd \/ (replies'[l].cmd = hand'.cmd /\ replies'[l].kind = "plus")
      BY <1>1, <2>3 DEF ReaderInv, RepliesInv
    <3> QED BY <1>1, <1>7, <2>10, <3>1 DEF RepliesInv
  <2> QED BY <1>1, <1>6, <1>7, <1>8, <2>7, <2>8, <2>9, <2>11 DEF ReaderInv
<1> QED BY <1>9, <1>10

\* Whatever else the client does, the rest stands when the two are out of step.
LEMMA OutOfStep ==
    ASSUME ReaderInv, ~Reading, ClientInv', KeptInv',
           UNCHANGED <<script, reading, hand, replies>>
    PROVE  ReaderInv'
<1>1. ~Reading' /\ ~Midway'
  BY DEF Reading, Midway
<1>2. StepInv'
  BY DEF ReaderInv, StepInv, Spoilt
<1>3. RepliesInv'
  BY <1>1 DEF ReaderInv, RepliesInv
<1> QED BY <1>1, <1>2, <1>3 DEF ReaderInv

\* The client is refused: all it sent has been read, and the proxy awaits a command.
LEMMA RefusalTaken == ReaderInv /\ Commands!ClientGivesUp => ReaderInv'
<1> SUFFICES ASSUME ReaderInv, Commands!ClientGivesUp PROVE ReaderInv'
  OBVIOUS
<1> DEFINE i == Len(script)
           c == script[i]
<1>1. /\ ~gone /\ waiting > 0 /\ waiting' = 0
      /\ UNCHANGED <<script, gone, input, reading, hand, replies, forwarded, kept>>
  BY DEF Commands!ClientGivesUp
<1>2. /\ KeptInv' /\ replies' \in Seq(Replied)
      /\ \A l \in 1 .. Len(replies') :
            replies'[l].cmd \in 1 .. Len(script) /\ (replies'[l].kind = "plus" => replies'[l].part = 1)
  BY <1>1, NoReply
<1>3. PICK a \in 1 .. Len(replies) : replies[a].cmd = i /\ replies[a].kind # "plus"
  <2>1. Commands!Answers(i) # {}
    BY DEF Commands!ClientGivesUp, Commands!Latest
  <2>2. \E r \in Commands!ToSet(replies) : r.cmd = i /\ r.kind # "plus"
    BY <2>1 DEF Commands!Answers
  <2>3. \E k \in DOMAIN replies : replies[k].cmd = i /\ replies[k].kind # "plus"
    BY <2>2 DEF Commands!ToSet
  <2>4. DOMAIN replies = 1 .. Len(replies)
    BY DEF ReaderInv, RepliesInv
  <2> QED BY <2>3, <2>4
<1>4. /\ i \in Nat /\ waiting \in Nat /\ waiting <= Len(c.lits)
      /\ Len(c.lits) \in Nat /\ (c.verb = "bad" => Len(c.lits) < 2)
  <2>1. script \in Seq(Commands!Commands) /\ i > 0 /\ waiting <= Len(c.lits) /\ waiting \in Nat
    BY <1>1 DEF ReaderInv, ClientInv
  <2>2. i \in 1 .. Len(script) /\ i \in Nat
    BY <2>1
  <2>3. c \in Commands!Commands
    BY <2>1, <2>2
  <2> QED BY <2>1, <2>2, <2>3, CommandLits
<1>5. ClientInv'
  BY <1>1 DEF ReaderInv, ClientInv
<1> HIDE DEF i, c
<1>6. CASE ~Reading
  BY <1>1, <1>2, <1>5, <1>6, OutOfStep
<1>7. CASE Reading
  <2>1. InputInv /\ HandInv /\ NextInv
    BY <1>7 DEF ReaderInv
  <2>2. input = <<>>
    <3> SUFFICES ASSUME input # <<>> PROVE FALSE
      OBVIOUS
    <3> DEFINE t == input[Len(input)]
    <3>1. IsLine(t, i, waiting)
      BY <1>1, <2>1 DEF InputInv, i
    <3>2. Len(input) \in 1 .. Len(input)
      <4>1. input \in Seq(Pieces)
        BY <2>1 DEF InputInv, Sound
      <4> QED BY <4>1
    <3>3. Unread(script, replies[a], t)
      BY <1>7, <3>2 DEF ReaderInv, RepliesInv
    <3> HIDE DEF t
    <3>4. ~Begins(t) /\ Spoils(c)
      BY <1>3, <1>4, <3>1, <3>3 DEF Unread, IsLine, c
    <3>5. waiting # 1 /\ c.verb = "bad"
      BY <3>1, <3>4 DEF Begins, IsLine, Spoils
    <3> QED BY <1>1, <1>4, <3>5
  <2>3. reading = "command" /\ ~Midway
    <3>1. ~Midway
      <4> SUFFICES ASSUME Midway PROVE FALSE
        OBVIOUS
      <4>1. hand.cmd = i
        BY <1>1, <2>1, <2>2 DEF NextInv, i
      <4>2. replies[a].cmd < hand.cmd \/ replies[a].kind = "plus"
        BY DEF ReaderInv, RepliesInv
      <4> QED BY <1>3, <1>4, <4>1, <4>2
    <3> QED BY <1>7, <3>1 DEF ReaderInv, Reading, Midway
  <2>4. InputInv'
    BY <1>1, <2>1, <2>2 DEF InputInv
  <2>5. HandInv' /\ ~Midway'
    BY <1>1, <2>3 DEF HandInv, Midway
  <2>6. NextInv'
    BY <1>1, <2>2, <2>3, <2>5 DEF NextInv
  <2>7. RepliesInv'
    <3>1. \A k \in 1 .. Len(input'), l \in 1 .. Len(replies') : Unread(script', replies'[l], input'[k])
      BY <1>1, <1>7 DEF ReaderInv, RepliesInv
    <3> QED BY <1>1, <1>2, <2>5, <3>1 DEF RepliesInv
  <2>8. StepInv'
    BY <1>1, <2>3 DEF StepInv
  <2> QED BY <1>1, <1>2, <1>5, <2>3, <2>4, <2>5, <2>6, <2>7, <2>8 DEF ReaderInv
<1> QED BY <1>6, <1>7

\* The client hangs up, and part of what it sent arrives.
LEMMA ClientLeaves == ReaderInv /\ Commands!ClientGone => ReaderInv'
<1> SUFFICES ASSUME ReaderInv, Commands!ClientGone PROVE ReaderInv'
  OBVIOUS
<1>1. /\ ~gone /\ gone' = TRUE
      /\ UNCHANGED <<script, waiting, reading, hand, replies, forwarded, kept>>
  BY DEF Commands!ClientGone
<1>2. PICK n \in 0 .. Len(input), whole \in BOOLEAN :
          input' = [k \in 1 .. n |-> [input[k] EXCEPT !.whole = (whole \/ k < n)]]
  BY DEF Commands!ClientGone
<1>3. ClientInv'
  BY <1>1 DEF ReaderInv, ClientInv
<1>4. KeptInv'
  <2>1. Commands!AppendIsWhole'
    BY <1>1 DEF ReaderInv, KeptInv, Commands!AppendIsWhole
  <2> QED BY <1>1, <2>1 DEF ReaderInv, KeptInv
<1>5. CASE ~Reading
  BY <1>1, <1>3, <1>4, <1>5, OutOfStep
<1>6. CASE Reading
  <2>1. InputInv /\ HandInv /\ NextInv /\ Sound(script, input) /\ input \in Seq(Pieces)
    BY <1>6 DEF ReaderInv, InputInv, Sound
  <2>2. Len(input) \in Nat /\ n \in Nat /\ 1 .. n \subseteq 1 .. Len(input)
    BY <2>1
  <2>3. /\ input' \in Seq(Pieces) /\ Len(input') = n
        /\ \A k \in 1 .. n : /\ input'[k].what = input[k].what /\ input'[k].cmd = input[k].cmd
                             /\ input'[k].part = input[k].part
                             /\ input'[k].whole = (whole \/ k < n)
    <3>1. \A k \in 1 .. n : input[k] \in Pieces
      BY <2>1, <2>2
    <3> DEFINE X(k) == [input[k] EXCEPT !.whole = (whole \/ k < n)]
    <3>2. \A k \in 1 .. n : /\ X(k) \in Pieces /\ X(k).what = input[k].what
                            /\ X(k).cmd = input[k].cmd /\ X(k).part = input[k].part
                            /\ X(k).whole = (whole \/ k < n)
      BY <3>1 DEF Pieces
    <3>3. input' = [k \in 1 .. n |-> X(k)]
      BY <1>2
    <3> HIDE DEF X
    <3>4. input' \in Seq(Pieces) /\ Len(input') = n
      BY <2>2, <3>2, <3>3
    <3>5. \A k \in 1 .. n : input'[k] = X(k)
      BY <3>3
    <3> QED BY <3>2, <3>4, <3>5
  <2>4. \A k \in 1 .. n : /\ k \in 1 .. Len(input)
                          /\ Begins(input'[k]) <=> Begins(input[k])
                          /\ \A c : IsPart(c, input[k]) => IsPart(c, input'[k])
    BY <2>2, <2>3 DEF Begins, IsPart
  <2>5. Sound(script, input')
    <3>1. \A k \in 1 .. n : input'[k].cmd \in 1 .. Len(script) /\ IsPart(script[input'[k].cmd], input'[k])
      BY <2>1, <2>3, <2>4 DEF Sound
    <3>2. \A k \in 1 .. n - 1 : Follows(script[input'[k].cmd], input'[k], input'[k + 1])
      <4> TAKE k \in 1 .. n - 1
      <4>1. k \in 1 .. n /\ k + 1 \in 1 .. n /\ k \in 1 .. Len(input) - 1
        BY <2>2
      <4>2. Follows(script[input[k].cmd], input[k], input[k + 1])
        BY <2>1, <4>1 DEF Sound
      <4>3. /\ input'[k].what = input[k].what /\ input'[k].cmd = input[k].cmd
            /\ input'[k].part = input[k].part
            /\ input'[k + 1].what = input[k + 1].what /\ input'[k + 1].cmd = input[k + 1].cmd
            /\ input'[k + 1].part = input[k + 1].part
        BY <2>3, <4>1
      <4> DEFINE x == input[k]
                 y == input[k + 1]
                 v == input'[k]
                 w == input'[k + 1]
      <4>4. \A c : Follows(c, x, y) => Follows(c, v, w)
        <5>1. /\ v.what = x.what /\ v.cmd = x.cmd /\ v.part = x.part
              /\ w.what = y.what /\ w.cmd = y.cmd /\ w.part = y.part
          BY <4>3
        <5> HIDE DEF x, y, v, w
        <5> QED BY <5>1 DEF Follows, AfterLine, IsLine, IsData
      <4> QED BY <4>2, <4>3, <4>4
    <3>3. \A k, l \in 1 .. n :
              k < l => input'[k].cmd <= input'[l].cmd /\ (Begins(input'[l]) => input'[k].cmd < input'[l].cmd)
      BY <2>1, <2>3, <2>4 DEF Sound
    <3> QED BY <2>3, <3>1, <3>2, <3>3 DEF Sound
  <2>6. InputInv'
    <3>1. \A k \in 1 .. n : input'[k].whole \/ k = n
      <4>1. \A k \in 1 .. n : k < n \/ k = n
        BY <2>2
      <4> QED BY <2>3, <4>1, Zenon
    <3> QED BY <1>1, <2>3, <2>5, <3>1 DEF InputInv
  <2>7. HandInv'
    <3> SUFFICES ASSUME Midway PROVE HandInv'
      BY <1>1 DEF HandInv, Midway
    <3>1. hand.whole
      BY <1>1, <2>1 DEF HandInv
    <3>2. \A k \in 1 .. n : Begins(input'[k]) => hand.cmd < input'[k].cmd
      BY <2>1, <2>3, <2>4 DEF HandInv
    <3> QED BY <1>1, <2>1, <2>3, <3>1, <3>2 DEF HandInv, Midway
  <2>8. NextInv'
    <3> SUFFICES ASSUME input' # <<>> PROVE Awaited(input[1])'
      BY <1>1 DEF NextInv
    <3>1. 1 \in 1 .. n /\ input # <<>>
      BY <2>1, <2>2, <2>3
    <3>2. Awaited(input[1])
      BY <2>1, <3>1 DEF NextInv
    <3>3. /\ input'[1].what = input[1].what /\ input'[1].cmd = input[1].cmd
          /\ input'[1].part = input[1].part
      BY <2>3, <3>1
    <3> QED BY <1>1, <3>2, <3>3 DEF Awaited, Begins, IsLine, IsData, Spoilt
  <2>9. RepliesInv'
    <3>1. \A k \in 1 .. n, l \in 1 .. Len(replies) : Unread(script, replies[l], input'[k])
      <4> TAKE k \in 1 .. n, l \in 1 .. Len(replies)
      <4>1. Unread(script, replies[l], input[k])
        BY <1>6, <2>4 DEF ReaderInv, RepliesInv
      <4>2. input'[k].cmd = input[k].cmd /\ (Begins(input'[k]) <=> Begins(input[k]))
        BY <2>3, <2>4
      <4> QED BY <4>1, <4>2 DEF Unread
    <3> QED BY <1>1, <2>3, <3>1 DEF ReaderInv, RepliesInv, Midway
  <2>10. StepInv'
    BY <1>1 DEF ReaderInv, StepInv, Spoilt
  <2> QED BY <1>1, <1>3, <1>4, <2>6, <2>7, <2>8, <2>9, <2>10 DEF ReaderInv
<1> QED BY <1>5, <1>6

\* At the start nothing was sent.
LEMMA ReaderStarts == Commands!Init => ReaderInv
<1> SUFFICES ASSUME Commands!Init PROVE ReaderInv
  OBVIOUS
<1>1. /\ script = <<>> /\ waiting = 0 /\ gone = FALSE
      /\ input = <<>> /\ reading = "command"
      /\ replies = <<>> /\ forwarded = {} /\ kept = {}
  BY DEF Commands!Init
<1>2. /\ \A S : <<>> \in Seq(S)
      /\ Len(script) = 0 /\ Len(input) = 0 /\ Len(replies) = 0
  BY <1>1
<1>3. \A k \in 1 .. 0 : FALSE
  OBVIOUS
<1>4. ClientInv
  <2>1. script \in Seq(Commands!Commands)
    BY <1>1, <1>2
  <2>2. gone \in BOOLEAN
    BY <1>1
  <2>3. waiting \in Nat /\ ~(waiting > 0)
    BY <1>1
  <2> QED BY <2>1, <2>2, <2>3 DEF ClientInv
<1>5. RepliesInv
  BY <1>1, <1>2, <1>3 DEF RepliesInv, Midway
<1>6. KeptInv
  <2>1. DOMAIN replies = 1 .. 0
    BY <1>1
  <2> QED BY <1>1, <1>3, <2>1 DEF KeptInv, Commands!AppendIsWhole
<1>7. InputInv
  <2>1. \A k \in 1 .. 0 - 1 : FALSE
    OBVIOUS
  <2> QED BY <1>1, <1>2, <1>3, <2>1 DEF InputInv, Sound
<1>8. HandInv /\ NextInv /\ StepInv
  BY <1>1 DEF HandInv, NextInv, StepInv, Midway
<1> QED BY <1>1, <1>4, <1>5, <1>6, <1>7, <1>8 DEF ReaderInv

\* Every step keeps the invariant of the reader.
LEMMA ReaderKeeps ==
    /\ ReaderInv /\ Commands!Next => ReaderInv'
    /\ ReaderInv /\ UNCHANGED readVars => ReaderInv'
<1>1. ReaderInv /\ Commands!Next => ReaderInv'
  BY CommandBegun, CommandGoesOn, RefusalTaken, ClientLeaves, ReaderStep
     DEF Commands!Next, Commands!Client
<1>2. ASSUME ReaderInv, UNCHANGED readVars PROVE ReaderInv'
  <2>1. UNCHANGED <<script, waiting, gone, input, reading, hand, replies, forwarded, kept>>
    BY <1>2 DEF readVars
  <2>2. /\ ClientInv' /\ KeptInv' /\ StepInv'
        /\ Reading' <=> Reading
    <3>1. ClientInv'
      BY <1>2, <2>1 DEF ReaderInv, ClientInv
    <3>2. KeptInv'
      BY <1>2, <2>1, NoReply
    <3> QED BY <1>2, <2>1, <3>1, <3>2 DEF ReaderInv, StepInv, Spoilt, Reading
  <2>3. RepliesInv'
    BY <1>2, <2>1 DEF ReaderInv, RepliesInv, Reading, Midway
  <2>4. Reading => InputInv' /\ HandInv'
    BY <1>2, <2>1 DEF ReaderInv, InputInv, HandInv, Midway
  <2>5. Reading => NextInv'
    <3> SUFFICES ASSUME Reading PROVE NextInv'
      OBVIOUS
    <3>1. NextInv
      BY <1>2 DEF ReaderInv
    <3> QED BY <2>1, <3>1 DEF NextInv, Awaited, Midway, Spoilt, AskedFor
  <2> QED BY <1>2, <2>1, <2>2, <2>3, <2>4, <2>5 DEF ReaderInv
<1> QED BY <1>1, <1>2

\* What the invariant was for.
LEMMA ReaderHolds == ReaderInv => Commands!InStep /\ Commands!AppendIsWhole
BY DEF ReaderInv, KeptInv, StepInv, Spoilt, Spoils, Commands!InStep, Commands!AppendIsWhole, Commands!Verb

-----------------------------------------------------------------------------
(* The two streams together *)

\* Both streams are read as they were written: the pump relays what the upstream
\* sent, once and in order, and the reader stays in step with the agent
\* (_upstream_to_client, _client_to_upstream).
THEOREM StreamsAlwaysFaithful == ProxySpec => []StreamsAreFaithful
<1>1. ProxyInit => RelayInv /\ ReaderInv
  BY RelayStarts, ReaderStarts DEF ProxyInit
<1>2. RelayInv /\ ReaderInv /\ [ProxyNext]_<<part, vars, relayVars, setVars, readVars>>
      => (RelayInv /\ ReaderInv)'
  <2> SUFFICES ASSUME RelayInv, ReaderInv, [ProxyNext]_<<part, vars, relayVars, setVars, readVars>>
               PROVE  (RelayInv /\ ReaderInv)'
    OBVIOUS
  <2>1. Pump!Next \/ UNCHANGED relayVars
    BY DEF ProxyNext
  <2>2. Commands!Next \/ UNCHANGED readVars
    BY DEF ProxyNext
  <2> QED BY <2>1, <2>2, RelayStep, ReaderKeeps
<1>3. RelayInv /\ ReaderInv => StreamsAreFaithful
  BY ReaderHolds DEF StreamsAreFaithful, RelayInv, SentInv
<1> QED BY <1>1, <1>2, <1>3, PTL DEF ProxySpec

=============================================================================
