-------------------------- MODULE SmtpSession_proofs --------------------------
(***************************************************************************)
(* The two envelopes of an SMTP session: the proxy's own always covers the  *)
(* one upstream.  Its answers: each is that to the last command.  The       *)
(* notices: marked when they are written, oldest first.  For any agents,    *)
(* recipients, rejections, connections and number of commands.              *)
(***************************************************************************)
EXTENDS MCSmtpProxy, Filters_proofs, SequenceTheorems, TLAPS

\* One command or one answer is on its way, and none while nothing is waited for.
ChannelInv ==
    /\ asked = <<>> \/ \E c : asked = <<c>>
    /\ replies = <<>> \/ \E r : replies = <<r>>
    /\ replies # <<>> => asked = <<>>
    /\ waiting = None => asked = <<>> /\ replies = <<>>

\* A recipient was noted before it was asked for, and those of a message that was
\* staged are forgotten when RSET has been answered, or the server is gone.
EnvelopeInv ==
    /\ phase # "closed" => accepted \subseteq recipients
    /\ ~alive => accepted = {}
    /\ \A c : asked = <<c>> /\ c[1] = "RCPT" => c[2] \in recipients
    /\ waiting = "STAGED" => \/ accepted = {} /\ asked = <<>>
                             \/ asked = <<<<"RSET", None>>>>

SmtpInv == ChannelInv /\ EnvelopeInv

\* Nobody is in either envelope.
LEMMA InitHolds == Init => SmtpInv
<1>1. Init => ChannelInv
  BY DEF Init, ChannelInv
<1>2. Init => EnvelopeInv
  BY DEF Init, EnvelopeInv, None
<1> QED BY <1>1, <1>2 DEF SmtpInv

\* Channels of one element.
LEMMA Single ==
    ASSUME NEW x
    PROVE  <<x>> # <<>> /\ Head(<<x>>) = x /\ Tail(<<x>>) = <<>> /\ Append(<<>>, x) = <<x>>
OBVIOUS

\* What the client does, and what the proxy answers itself.
LEMMA LocalKeeps ==
    ASSUME SmtpInv,
           \/ Client \/ Receive \/ Locally \/ AuthFails \/ Data \/ LoggedIn \/ LoginRefused \/ RelayAnswer
    PROVE  SmtpInv'
<1> USE DEF SmtpInv, ChannelInv, EnvelopeInv, upstreamVars, envelopeVars, clientVars, histVars, Idle
<1>1. CASE Client \/ Receive
  BY <1>1 DEF Client, Send, ClientCloses, ClosedInBody, Receive
<1>2. CASE Locally \/ AuthFails \/ Data
  BY <1>2 DEF Locally, AuthFails, Data, Take
<1>3. CASE LoggedIn \/ LoginRefused \/ RelayAnswer
  <2>1. asked = <<>> /\ replies' = <<>> /\ phase # "closed" /\ waiting' = None
    BY <1>3, Single DEF LoggedIn, LoginRefused, RelayAnswer, Reply
  <2>2. /\ UNCHANGED <<recipients, alive, accepted, asked>>
    BY <1>3 DEF LoggedIn, LoginRefused, RelayAnswer
  <2> QED BY <2>1, <2>2 DEF None
<1> QED BY <1>1, <1>2, <1>3

\* A command is sent upstream, beside the envelope that it changes.
LEMMA AskingKeeps ==
    ASSUME SmtpInv, (\E a \in Agents : Auth(a)) \/ Forward \/ Stage \/ Connected PROVE SmtpInv'
<1> USE DEF SmtpInv, ChannelInv, EnvelopeInv
<1>1. ASSUME NEW a \in Agents, Auth(a) PROVE SmtpInv'
  <2>1. /\ asked' = <<<<"EHLO", None>>>> /\ replies' = <<>> /\ waiting' = "EHLO"
        /\ accepted' = {} /\ recipients' = recipients /\ phase' = phase
    BY <1>1 DEF Auth, envelopeVars
  <2> QED BY <2>1, Single DEF None
<1>2. CASE Forward
  <2>1. asked = <<>> /\ replies = <<>> /\ phase # "closed"
    BY <1>2 DEF Forward, Take
  <2>2. PICK c \in Commands :
           /\ c[1] \in {"MAIL", "RCPT", "RSET", "NOOP", "QUIT"}
           /\ recipients' = IF c[1] = "RCPT" THEN recipients \cup {c[2]} ELSE recipients
           /\ asked' = Append(asked, c) /\ waiting' = c[1]
    BY <1>2 DEF Forward
  <2>3. asked' = <<c>> /\ replies' = replies
    BY <1>2, <2>1, <2>2, Single DEF Forward
  <2>4. waiting' # "STAGED" /\ waiting' # None
    BY <2>2 DEF None
  <2>5. ChannelInv'
    BY <2>1, <2>3, <2>4, Single
  <2>6. \A d : asked' = <<d>> => d = c
    BY <2>3, Single
  <2>7. EnvelopeInv'
    BY <1>2, <2>1, <2>2, <2>4, <2>6 DEF Forward
  <2> QED BY <2>5, <2>7
<1>3. CASE Stage
  <2>1. asked = <<>> /\ replies = <<>>
    BY <1>3 DEF Stage, Take
  <2>2. /\ asked' = <<<<"RSET", None>>>> /\ replies' = replies /\ waiting' = "STAGED"
        /\ UNCHANGED <<phase, recipients, alive, accepted>>
    BY <1>3, <2>1, Single DEF Stage, envelopeVars
  <2> QED BY <2>1, <2>2, Single DEF None
<1>4. CASE Connected
  <2>1. asked = <<>> /\ replies' = <<>> /\ waiting' = "AUTH"
    BY <1>4, Single DEF Connected, Reply
  <2>2. asked' = <<<<"AUTH", agent>>>> /\ UNCHANGED <<phase, recipients, alive, accepted>>
    BY <1>4, <2>1, Single DEF Connected, envelopeVars
  <2>3. ChannelInv'
    BY <2>1, <2>2 DEF None
  <2>4. \A d : asked' = <<d>> => d[1] # "RCPT"
    BY <2>2, Single
  <2>5. EnvelopeInv'
    BY <2>1, <2>2, <2>4
  <2> QED BY <2>3, <2>5
<1> QED BY <1>1, <1>2, <1>3, <1>4

\* The envelope is forgotten; the upstream server answers, or ends.
LEMMA UpstreamKeeps ==
    ASSUME SmtpInv, EnvelopeIsReset \/ UpstreamGone \/ Upstream \/ UpstreamCloses PROVE SmtpInv'
<1> USE DEF SmtpInv, ChannelInv, EnvelopeInv
<1>1. CASE EnvelopeIsReset
  <2>1. asked = <<>> /\ replies' = <<>> /\ accepted = {} /\ waiting' = None
    BY <1>1, Single DEF EnvelopeIsReset, Reply
  <2> QED BY <1>1, <2>1 DEF EnvelopeIsReset, None
<1>2. CASE UpstreamGone
  <2>1. /\ accepted = {} /\ accepted' = accepted /\ asked' = <<>> /\ replies' = <<>> /\ waiting' = None
    BY <1>2 DEF UpstreamGone
  <2> QED BY <2>1 DEF None
<1>3. CASE Upstream
  <2>1. PICK c : asked = <<c>>
    BY <1>3 DEF Upstream
  <2>2. /\ replies = <<>> /\ asked' = <<>> /\ replies' = <<c[1]>> /\ waiting # None
        /\ UNCHANGED <<phase, waiting, recipients, alive>>
    BY <1>3, <2>1, Single DEF Upstream, envelopeVars
  <2>3. \/ c[1] = "RCPT" /\ accepted' = accepted \cup {c[2]}
        \/ c[1] = "RSET" /\ accepted' = {}
        \/ c[1] # "RSET" /\ accepted' = accepted
    BY <1>3, <2>1, Single DEF Upstream
  <2>4. alive
    BY <1>3 DEF Upstream
  <2>5. phase # "closed" => accepted' \subseteq recipients
    BY <2>1, <2>3
  <2>6. waiting = "STAGED" => accepted' = {}
    <3> SUFFICES ASSUME waiting = "STAGED" PROVE accepted' = {}
      OBVIOUS
    <3>1. c = <<"RSET", None>>
      BY <2>1, Single
    <3> QED BY <2>3, <3>1
  <2>7. ChannelInv'
    BY <2>2, Single
  <2>8. EnvelopeInv'
    BY <2>2, <2>4, <2>5, <2>6, Single
  <2> QED BY <2>7, <2>8
<1>4. CASE UpstreamCloses
  <2>1. accepted' = {} /\ UNCHANGED <<phase, waiting, recipients, asked, replies>>
    BY <1>4 DEF UpstreamCloses, envelopeVars
  <2> QED BY <2>1
<1> QED BY <1>1, <1>2, <1>3, <1>4

\* All the steps of Next.
LEMMA StepKeeps == SmtpInv /\ [Next]_vars => SmtpInv'
<1>1. ASSUME SmtpInv, UNCHANGED vars PROVE SmtpInv'
  BY <1>1 DEF vars, upstreamVars, envelopeVars, SmtpInv, ChannelInv, EnvelopeInv
<1> QED
  BY <1>1, LocalKeeps, AskingKeeps, UpstreamKeeps DEF Next, Handler

\* Whatever a client repeats or resets, logs in again in between, and whenever the
\* server ends: nobody whom the server has accepted is missing from what the proxy
\* stages (handle_smtp_client).
THEOREM AcceptedAlwaysStaged == Spec => []AcceptedAreStaged
<1>1. SmtpInv => AcceptedAreStaged
  BY DEF SmtpInv, EnvelopeInv, AcceptedAreStaged
<1> QED
  BY <1>1, InitHolds, StepKeeps, PTL DEF Spec

-----------------------------------------------------------------------------
(* What the proxy's envelope would have to rely on.                        *)

\* The server takes every recipient it is asked for, and nothing ends its transaction
\* but the RSET after a message: no RSET of the client, no other login, no end of the
\* connection while recipients are accepted.
Steady ==
    /\ waiting # "STAGED" => accepted \subseteq accepted'
    /\ \A r \in Recipients : asked = <<<<"RCPT", r>>>> /\ asked' = <<>> => r \in accepted'

\* Who is in the proxy's envelope is in the server's, or is asked for.
SteadyInv ==
    /\ waiting # "STAGED" => \A r \in recipients : r \in accepted \/ asked = <<<<"RCPT", r>>>>
    /\ recipients \subseteq Recipients
    /\ StagedIsTransaction

\* The steps that send nothing upstream and take nothing from there.
LEMMA OthersKeepSteady ==
    ASSUME SmtpInv, SteadyInv, UNCHANGED <<recipients, asked>>, accepted \subseteq accepted',
           staged' = staged \/ staged' = staged \cup {Operation(FALSE)},
           waiting = "STAGED" => waiting' = "STAGED"
    PROVE  SteadyInv'
BY DEF SteadyInv, StagedIsTransaction, Operation

\* A recipient that is noted is asked for, and one that was asked for is accepted.
LEMMA StepKeepsSteady ==
    ASSUME SmtpInv, SteadyInv, Steady, [Next]_vars PROVE SteadyInv'
<1>1. CASE Client \/ Receive \/ Locally \/ AuthFails \/ Data \/ UNCHANGED vars
  BY <1>1, OthersKeepSteady
  DEF Client, Send, ClientCloses, ClosedInBody, Receive, Locally, AuthFails, Data, Take, Idle, vars,
      upstreamVars, envelopeVars, clientVars, histVars
<1>2. CASE LoggedIn \/ LoginRefused \/ RelayAnswer
  BY <1>2, OthersKeepSteady DEF LoggedIn, LoginRefused, RelayAnswer, Reply, envelopeVars
<1>3. ASSUME NEW a \in Agents, Auth(a) PROVE SteadyInv'
  <2>1. waiting = None /\ asked = <<>> /\ UNCHANGED <<recipients, staged>>
    BY <1>3 DEF Auth, Take, SmtpInv, ChannelInv, envelopeVars
  <2>2. \A r : asked # <<<<"RCPT", r>>>>
    BY <2>1, Single
  <2> QED BY <2>1, <2>2 DEF SteadyInv, Steady, StagedIsTransaction, None
<1>4. CASE Forward
  <2>1. waiting = None /\ asked = <<>> /\ UNCHANGED <<accepted, staged>>
    BY <1>4 DEF Forward, Take, SmtpInv, ChannelInv
  <2>2. recipients \subseteq accepted
    <3>1. \A r : asked # <<<<"RCPT", r>>>>
      BY <2>1, Single
    <3> QED BY <2>1, <3>1 DEF SteadyInv, None
  <2>3. PICK c \in Commands :
           /\ recipients' = IF c[1] = "RCPT" THEN recipients \cup {c[2]} ELSE recipients
           /\ asked' = Append(asked, c)
    BY <1>4 DEF Forward
  <2>4. asked' = <<c>>
    BY <2>1, <2>3, Single
  <2>5. c[1] = "RCPT" => c = <<"RCPT", c[2]>> /\ c[2] \in Recipients
    BY DEF Commands
  <2> QED BY <2>1, <2>2, <2>3, <2>4, <2>5 DEF SteadyInv, StagedIsTransaction
<1>5. CASE Stage
  <2>1. waiting = None /\ asked = <<>> /\ waiting' = "STAGED" /\ UNCHANGED recipients
    BY <1>5 DEF Stage, Take, SmtpInv, ChannelInv, envelopeVars
  <2>2. recipients \subseteq accepted
    <3>1. \A r : asked # <<<<"RCPT", r>>>>
      BY <2>1, Single
    <3> QED BY <2>1, <3>1 DEF SteadyInv, None
  <2>3. staged' = staged \cup {Operation(TRUE)} \/ staged' = staged
    BY <1>5 DEF Stage
  <2> QED BY <2>1, <2>2, <2>3 DEF SteadyInv, StagedIsTransaction, Operation
<1>6. CASE Connected
  <2>1. asked = <<>> /\ waiting # "STAGED" /\ UNCHANGED <<recipients, accepted, staged>>
    BY <1>6, Single DEF Connected, Reply, SmtpInv, ChannelInv, envelopeVars
  <2>2. \A r : asked # <<<<"RCPT", r>>>>
    BY <2>1, Single
  <2> QED BY <2>1, <2>2 DEF SteadyInv, StagedIsTransaction
<1>7. CASE EnvelopeIsReset
  BY <1>7 DEF EnvelopeIsReset, SteadyInv, StagedIsTransaction
<1>8. CASE UpstreamGone
  <2>1. /\ asked' = <<>> /\ accepted' = accepted /\ staged' = staged
        /\ recipients' = {} \/ (recipients' = recipients /\ waiting # "STAGED")
    BY <1>8 DEF UpstreamGone, envelopeVars
  <2> QED BY <2>1 DEF SteadyInv, Steady, StagedIsTransaction
<1>9. CASE Upstream
  <2>1. /\ asked # <<>> /\ asked' = Tail(asked) /\ UNCHANGED <<waiting, recipients, staged>>
    BY <1>9 DEF Upstream, envelopeVars
  <2>2. asked' = <<>>
    BY <2>1, Single DEF SmtpInv, ChannelInv
  <2> QED BY <2>1, <2>2 DEF SteadyInv, Steady, StagedIsTransaction
<1>10. CASE UpstreamCloses
  <2>1. UNCHANGED <<waiting, recipients, asked, staged>>
    BY <1>10 DEF UpstreamCloses, envelopeVars
  <2> QED BY <2>1 DEF SteadyInv, Steady, StagedIsTransaction
<1> QED
  BY <1>1, <1>2, <1>3, <1>4, <1>5, <1>6, <1>7, <1>8, <1>9, <1>10 DEF Next, Handler

\* What is staged goes to nobody but those the server has accepted, for any number of
\* messages, as long as the server refuses no recipient and its transaction ends with a
\* message only.  The code clears its envelope after a message and at no other time
\* (handle_smtp_client), so it needs both.
THEOREM SteadyIsStaged == Spec /\ [][Steady]_vars => []StagedIsTransaction
<1>1. Init => SteadyInv
  BY DEF Init, SteadyInv, StagedIsTransaction
<1>2. SteadyInv => StagedIsTransaction
  BY DEF SteadyInv
<1>3. SmtpInv /\ SteadyInv /\ [Next]_vars /\ [Steady]_vars => SteadyInv'
  <2>1. CASE Steady
    BY <2>1, StepKeepsSteady
  <2>2. CASE UNCHANGED vars
    BY <2>2 DEF vars, upstreamVars, envelopeVars, SteadyInv, StagedIsTransaction
  <2> QED BY <2>1, <2>2
<1> QED
  BY <1>1, <1>2, <1>3, InitHolds, StepKeeps, PTL DEF Spec

-----------------------------------------------------------------------------
(* The answers *)

\* The verbs whose answer is passed on.
Relayed == {"MAIL", "RCPT", "RSET", "NOOP", "QUIT"}

\* What an answer may be, or the verb of a command.
Words == {"EHLO", "MAIL", "DATA", "RSET", "NOOP", "QUIT", "BDAT", "AUTH", "RCPT", "BODY", "214", None}

\* Notices and nothing else; notices and one answer to the command v.
OnlyNotices(s) == \A i \in 1 .. Len(s) : s[i] = "214"
OneAnswer(s, v) ==
    /\ \A i \in 1 .. Len(s) : s[i] \in {"214", v}
    /\ \A i, j \in 1 .. Len(s) : s[i] # "214" /\ s[j] # "214" => i = j

\* The proxy has taken a command that it has not answered.
Working == waiting \notin {None, "STAGED"}

\* Until a client takes a notice for its answer: its command is on its way to the
\* proxy, or the proxy works on it, or it has been answered, or never will be.
Owed ==
    /\ commands = <<>> \/ (commands = <<outstanding>> /\ outstanding # NoCommand)
    /\ commands # <<>> \/ Working \/ outstanding = NoCommand => OnlyNotices(answers)
    /\ Working => commands = <<>> /\ outstanding # NoCommand
                  /\ outstanding[1] = IF waiting = "EHLO" THEN "AUTH" ELSE waiting
    /\ OneAnswer(answers, outstanding[1])

\* What goes to the upstream server and comes back is what the proxy waits for.
InStep ==
    waiting \in Relayed => /\ \A c : asked = <<c>> => c[1] = waiting
                           /\ \A r : replies = <<r>> => r = waiting

AnswerInv ==
    /\ answers \in Seq(Words) /\ outstanding \in Commands \cup {Body, NoCommand}
    /\ mistaken \in {None, "214"}
    /\ IF mistaken = None THEN Owed ELSE outstanding = NoCommand
    /\ InStep

\* No command is a notice, and none is no command.
LEMMA Verbs ==
    /\ \A c \in Commands \cup {Body} : c # NoCommand /\ c[1] \in Words /\ c[1] # "214" /\ c[1] # None
    /\ NoCommand[1] = None /\ None # "214" /\ None \in Words
  <1>1. ASSUME NEW c \in Commands \cup {Body}
        PROVE  c[1] \in Words \ {"214", None} /\ c # NoCommand
    <2>1. c[1] \in Words \ {"214", None}
      BY DEF Commands, Body, Words, None
    <2> QED BY <2>1 DEF NoCommand
  <1>2. NoCommand[1] = None /\ None # "214" /\ None \in Words
    BY DEF NoCommand, None, Words
  <1> QED BY <1>1, <1>2

\* Sequences of answers.
LEMMA AnswerAppended ==
    ASSUME NEW s \in Seq(Words), OnlyNotices(s), NEW v \in Words
    PROVE  Append(s, v) \in Seq(Words) /\ OneAnswer(Append(s, v), v) /\ OneAnswer(s, v)
  BY DEF OnlyNotices, OneAnswer

\* The first of the answers is read.
LEMMA AnswerTaken ==
    ASSUME NEW s \in Seq(Words), s # <<>>, NEW v, OneAnswer(s, v)
    PROVE  /\ Tail(s) \in Seq(Words) /\ Head(s) \in {"214", v}
           /\ Head(s) # "214" => OnlyNotices(Tail(s))
  BY DEF OnlyNotices, OneAnswer

\* The notices that are due.
LEMMA NoticesType ==
    ASSUME NEW n \in Nat
    PROVE  LET u == [i \in 1 .. n |-> "214"]
           IN  u \in Seq(Words) /\ Len(u) = n /\ \A i \in 1 .. n : u[i] = "214"
  <1> DEFINE u == [i \in 1 .. n |-> "214"]
  <1>1. u \in [1 .. n -> Words]
    BY DEF Words
  <1>2. u \in Seq(Words)
    BY <1>1, SeqDef
  <1> QED BY <1>1, <1>2

\* An answer with the notices after it.
LEMMA NoticesAppended ==
    ASSUME NEW s \in Seq(Words), NEW v \in Words, NEW n \in Nat, OnlyNotices(s)
    PROVE  LET t == s \o <<v>> \o [i \in 1 .. n |-> "214"]
           IN  t \in Seq(Words) /\ OneAnswer(t, v)
  <1> DEFINE u == [i \in 1 .. n |-> "214"]
             r == s \o <<v>>
             t == r \o u
  <1>1. r \in Seq(Words) /\ Len(r) = Len(s) + 1 /\ Len(s) \in Nat
        /\ \A i \in 1 .. Len(r) : r[i] = IF i = Len(s) + 1 THEN v ELSE "214"
    BY DEF OnlyNotices
  <1>2. u \in Seq(Words) /\ Len(u) = n /\ \A i \in 1 .. n : u[i] = "214"
    BY NoticesType
  <1> HIDE DEF r, u
  <1>3. t \in Seq(Words) /\ Len(t) = Len(s) + 1 + n
        /\ \A i \in 1 .. Len(t) : t[i] = IF i = Len(s) + 1 THEN v ELSE "214"
    <2>1. t \in Seq(Words) /\ Len(t) = Len(r) + Len(u)
          /\ \A i \in 1 .. Len(t) : t[i] = IF i <= Len(r) THEN r[i] ELSE u[i - Len(r)]
      BY <1>1, <1>2
    <2> HIDE DEF t
    <2> QED BY <1>1, <1>2, <2>1
  <1> HIDE DEF t
  <1>4. OneAnswer(t, v)
    BY <1>1, <1>3 DEF OneAnswer
  <1> QED BY <1>3, <1>4 DEF t, r, u

\* Nothing is asked at first.
LEMMA AnswerInit == Init => AnswerInv
  <1> SUFFICES ASSUME Init PROVE AnswerInv
    OBVIOUS
  <1>1. /\ answers = <<>> /\ outstanding = NoCommand /\ commands = <<>> /\ waiting = None
        /\ mistaken = None
    BY DEF Init
  <1>2. answers \in Seq(Words) /\ OnlyNotices(answers) /\ OneAnswer(answers, outstanding[1])
    BY <1>1 DEF OnlyNotices, OneAnswer
  <1>3. Owed
    BY <1>1, <1>2 DEF Owed, Working
  <1>4. InStep
    BY <1>1 DEF InStep, Relayed, None
  <1> QED BY <1>1, <1>2, <1>3, <1>4 DEF AnswerInv

\* What the client sends and reads.
LEMMA ClientAnswers == ASSUME AnswerInv, Client \/ Receive PROVE AnswerInv'
  <1>1. ASSUME NEW c \in Commands \cup {Body}, Send(c) PROVE AnswerInv'
    <2>1. /\ mistaken = None /\ mistaken' = None /\ outstanding = NoCommand /\ outstanding' = c
          /\ commands' = Append(commands, c) /\ UNCHANGED <<waiting, answers, asked, replies>>
      BY <1>1 DEF Send, histVars, upstreamVars
    <2>2. commands = <<>> /\ OnlyNotices(answers) /\ ~Working
      BY <2>1 DEF AnswerInv, Owed
    <2>3. commands' = <<c>>
      BY <2>1, <2>2
    <2>4. OneAnswer(answers, c[1])
      BY <2>2 DEF OnlyNotices, OneAnswer
    <2>5. Owed'
      BY <2>1, <2>2, <2>3, <2>4, Verbs DEF Owed, Working, OnlyNotices, OneAnswer
    <2>6. InStep'
      BY <2>1 DEF AnswerInv, InStep
    <2> QED BY <2>1, <2>5, <2>6 DEF AnswerInv
  <1>2. CASE Receive
    <2>1. /\ answers # <<>> /\ outstanding # NoCommand /\ answers' = Tail(answers)
          /\ outstanding' = NoCommand
          /\ mistaken' = IF Head(answers) = outstanding[1] THEN mistaken ELSE Head(answers)
          /\ UNCHANGED <<waiting, commands, asked, replies>>
      BY <1>2 DEF Receive, upstreamVars
    <2>2. mistaken = None /\ Owed /\ outstanding \in Commands \cup {Body} /\ answers \in Seq(Words)
      BY <2>1 DEF AnswerInv
    <2>3. /\ answers' \in Seq(Words) /\ Head(answers) \in {"214", outstanding[1]}
          /\ Head(answers) # "214" => OnlyNotices(answers')
      BY <2>1, <2>2, AnswerTaken DEF Owed
    <2>4. InStep'
      BY <2>1 DEF AnswerInv, InStep
    <2>5. CASE Head(answers) = "214"
      BY <2>1, <2>2, <2>3, <2>4, <2>5, Verbs DEF AnswerInv
    <2>6. CASE Head(answers) # "214"
      <3>1. mistaken' = None
        BY <2>1, <2>2, <2>3, <2>6
      <3>2. commands = <<>> /\ ~Working
        <4>1. ~OnlyNotices(answers)
          BY <2>1, <2>2, <2>6 DEF OnlyNotices
        <4> QED BY <2>2, <4>1 DEF Owed
      <3>3. OneAnswer(answers', None)
        BY <2>3, <2>6 DEF OnlyNotices, OneAnswer
      <3>4. Owed'
        <4>1. OneAnswer(answers', outstanding'[1]) /\ OnlyNotices(answers')
          BY <2>1, <2>3, <2>6, <3>3, Verbs
        <4>2. commands' = <<>> /\ ~Working'
          BY <2>1, <3>2 DEF Working
        <4> QED BY <2>1, <4>1, <4>2 DEF Owed
      <3> QED BY <2>1, <2>3, <2>4, <3>1, <3>4 DEF AnswerInv
    <2> QED BY <2>5, <2>6
  <1>3. CASE ClientCloses \/ ClosedInBody
    <2>1. UNCHANGED <<waiting, asked, replies, outstanding, commands, answers, mistaken>>
      BY <1>3 DEF ClientCloses, ClosedInBody, upstreamVars, clientVars, histVars, Idle
    <2> QED BY <2>1 DEF AnswerInv, Owed, Working, OnlyNotices, OneAnswer, InStep
  <1> QED BY <1>1, <1>2, <1>3 DEF Client

\* An answer is given to the command that is taken, or was, and the proxy is at rest.
LEMMA AnsweredOnce ==
    ASSUME AnswerInv, UNCHANGED <<outstanding, mistaken>>, answers' \in Seq(Words),
           waiting' \in {None, "STAGED"},
           mistaken = None => commands' = <<>> /\ outstanding # NoCommand /\ OneAnswer(answers', outstanding[1])
    PROVE  AnswerInv'
  <1>1. InStep'
    BY DEF InStep, Relayed, None
  <1>2. mistaken = None => Owed'
    BY DEF Owed, Working, OneAnswer
  <1> QED BY <1>1, <1>2 DEF AnswerInv

\* A command that the proxy takes is the one the client waits for.
LEMMA TakenIsOwed ==
    ASSUME AnswerInv, NEW c, Take(c), mistaken = None
    PROVE  c = outstanding /\ commands' = <<>> /\ outstanding # NoCommand /\ OnlyNotices(answers)
  <1>1. commands # <<>> /\ c = Head(commands) /\ commands' = Tail(commands) /\ Owed
    BY DEF Take, AnswerInv
  <1> QED BY <1>1, Single DEF Owed

\* The answers that the proxy gives itself.
LEMMA LocalAnswers == ASSUME AnswerInv, Locally \/ AuthFails \/ Data \/ Stage PROVE AnswerInv'
  <1>1. PICK c \in Commands \cup {Body} : Take(c) /\ answers' = Append(answers, c[1])
    <2>1. CASE Locally
      BY <2>1 DEF Locally, Answer
    <2>2. CASE AuthFails
      <3>1. PICK a \in Agents : Take(<<"AUTH", a>>)
        BY <2>2 DEF AuthFails
      <3>2. <<"AUTH", a>> \in Commands /\ <<"AUTH", a>>[1] = "AUTH"
        BY DEF Commands
      <3> QED BY <2>2, <3>1, <3>2 DEF AuthFails, Answer
    <2>3. CASE Data
      <3>1. <<"DATA", None>> \in Commands /\ <<"DATA", None>>[1] = "DATA"
        BY DEF Commands
      <3> QED BY <2>3, <3>1 DEF Data, Answer
    <2>4. CASE Stage
      <3>1. Body[1] = "BODY"
        BY DEF Body
      <3> QED BY <2>4, <3>1 DEF Stage, Answer
    <2> QED BY <2>1, <2>2, <2>3, <2>4
  <1>2. UNCHANGED <<outstanding, mistaken>> /\ waiting' \in {None, "STAGED"}
    BY DEF Locally, AuthFails, Data, Stage, Take, Idle, histVars
  <1>3. c[1] \in Words /\ answers \in Seq(Words)
    BY Verbs DEF AnswerInv
  <1>4. mistaken = None => commands' = <<>> /\ outstanding # NoCommand /\ OneAnswer(answers', outstanding[1])
    <2> SUFFICES ASSUME mistaken = None
                 PROVE  commands' = <<>> /\ outstanding # NoCommand /\ OneAnswer(answers', outstanding[1])
      OBVIOUS
    <2>1. c = outstanding /\ commands' = <<>> /\ outstanding # NoCommand /\ OnlyNotices(answers)
      BY <1>1, TakenIsOwed
    <2>2. OneAnswer(Append(answers, c[1]), c[1])
      BY <1>3, <2>1, AnswerAppended
    <2> QED BY <1>1, <2>1, <2>2
  <1>5. answers' \in Seq(Words)
    BY <1>1, <1>3
  <1> QED BY <1>2, <1>4, <1>5, AnsweredOnce

\* The answers that the proxy passes on.
LEMMA RelayAnswers ==
    ASSUME AnswerInv, ChannelInv, due \in Nat, LoggedIn \/ LoginRefused \/ RelayAnswer PROVE AnswerInv'
  <1>1. /\ UNCHANGED <<outstanding, mistaken, commands>> /\ waiting' = None /\ replies # <<>>
        /\ waiting \in Relayed \cup {"AUTH"}
    BY DEF LoggedIn, LoginRefused, RelayAnswer, clientVars, histVars, Reply, Relayed
  <1>2. mistaken = None => commands = <<>> /\ outstanding # NoCommand /\ outstanding[1] = waiting
                           /\ OnlyNotices(answers)
    BY <1>1 DEF AnswerInv, Owed, Working, None, Relayed
  <1>3. /\ answers' \in Seq(Words)
        /\ mistaken = None => OneAnswer(answers', waiting)
    <2>1. answers \in Seq(Words) /\ waiting \in Words
      <3>1. \A v \in Relayed \cup {"AUTH"} : v \in Words
        BY DEF Relayed, Words
      <3> QED BY <1>1, <3>1 DEF AnswerInv
    <2>2. CASE LoggedIn
      <3>1. answers' = answers \o <<"AUTH">> \o [i \in 1 .. due |-> "214"] /\ waiting = "AUTH"
        BY <2>2 DEF LoggedIn
      <3>2. answers' \in Seq(Words)
        <4>1. [i \in 1 .. due |-> "214"] \in Seq(Words) /\ <<"AUTH">> \in Seq(Words)
          <5>1. \A n \in Nat : [i \in 1 .. n |-> "214"] \in Seq(Words)
            BY NoticesType
          <5> QED BY <5>1 DEF Words
        <4> QED BY <2>1, <3>1, <4>1
      <3>3. ASSUME mistaken = None PROVE OneAnswer(answers', waiting)
        BY <1>2, <2>1, <3>1, <3>3, NoticesAppended
      <3> QED BY <3>2, <3>3
    <2>3. CASE LoginRefused \/ RelayAnswer
      <3>1. answers' = Append(answers, waiting)
        <4>1. PICK r : replies = <<r>>
          BY <1>1 DEF ChannelInv
        <4>2. waiting \in Relayed => Head(replies) = waiting
          BY <4>1, Single DEF AnswerInv, InStep
        <4> QED BY <2>3, <4>2 DEF LoginRefused, RelayAnswer, Answer, Relayed
      <3>2. answers' \in Seq(Words)
        BY <2>1, <3>1
      <3>3. ASSUME mistaken = None PROVE OneAnswer(answers', waiting)
        <4>1. OneAnswer(Append(answers, waiting), waiting)
          BY <1>2, <2>1, <3>3, AnswerAppended
        <4> QED BY <3>1, <4>1
      <3> QED BY <3>2, <3>3
    <2> QED BY <2>2, <2>3
  <1> QED BY <1>1, <1>2, <1>3, AnsweredOnce

\* What the proxy takes to pass on, and what it asks for itself.
LEMMA AskingAnswers ==
    ASSUME AnswerInv, ChannelInv, (\E a \in Agents : Auth(a)) \/ Forward \/ Connected PROVE AnswerInv'
  <1>1. ASSUME NEW c \in Commands, Take(c), waiting' = IF c[1] = "AUTH" THEN "EHLO" ELSE c[1],
               c[1] \in Relayed \cup {"AUTH"},
               UNCHANGED <<outstanding, mistaken, answers>>, InStep'
        PROVE  AnswerInv'
    <2>1. mistaken = None => c = outstanding /\ commands' = <<>> /\ outstanding # NoCommand /\ OnlyNotices(answers)
      BY <1>1, TakenIsOwed
    <2>2. c[1] = IF waiting' = "EHLO" THEN "AUTH" ELSE waiting'
      BY <1>1 DEF Relayed
    <2>3. mistaken = None => Owed'
      BY <1>1, <2>1, <2>2 DEF Owed, Working, OnlyNotices, OneAnswer
    <2> QED BY <1>1, <2>3 DEF AnswerInv
  <1>2. ASSUME NEW a \in Agents, Auth(a) PROVE AnswerInv'
    <2>1. <<"AUTH", a>> \in Commands /\ <<"AUTH", a>>[1] = "AUTH"
      BY DEF Commands
    <2>2. InStep'
      BY <1>2 DEF Auth, InStep, Relayed
    <2> QED BY <1>1, <1>2, <2>1, <2>2 DEF Auth, Idle, histVars
  <1>3. CASE Forward
    <2>1. PICK c \in Commands : c[1] \in Relayed /\ Take(c) /\ asked' = Append(asked, c) /\ waiting' = c[1]
      BY <1>3 DEF Forward, Relayed
    <2>2. asked = <<>> /\ replies = <<>> /\ replies' = replies
      BY <1>3, <2>1 DEF Forward, Take, ChannelInv
    <2>3. asked' = <<c>>
      BY <2>1, <2>2, Single
    <2>4. InStep'
      BY <2>1, <2>2, <2>3, Single DEF InStep
    <2>5. c[1] # "AUTH"
      BY <2>1 DEF Relayed
    <2> QED BY <1>1, <1>3, <2>1, <2>4, <2>5 DEF Forward, Idle, histVars
  <1>4. CASE Connected
    <2>1. /\ waiting = "EHLO" /\ waiting' = "AUTH"
          /\ UNCHANGED <<outstanding, mistaken, commands, answers>>
      BY <1>4 DEF Connected, Reply, clientVars, histVars
    <2>2. mistaken = None => Owed'
      BY <2>1 DEF AnswerInv, Owed, Working, OnlyNotices, OneAnswer, None
    <2>3. InStep'
      BY <2>1 DEF InStep, Relayed
    <2> QED BY <2>1, <2>2, <2>3 DEF AnswerInv
  <1> QED BY <1>2, <1>3, <1>4

\* The upstream server answers or ends, and what follows from its end or from RSET.
LEMMA UpstreamAnswers ==
    ASSUME AnswerInv, ChannelInv, EnvelopeIsReset \/ UpstreamGone \/ Upstream \/ UpstreamCloses PROVE AnswerInv'
  <1>1. UNCHANGED <<outstanding, mistaken, commands, answers>>
    BY DEF EnvelopeIsReset, UpstreamGone, Upstream, UpstreamCloses, clientVars, histVars
  <1>2. waiting' = waiting \/ waiting' = None
    BY DEF EnvelopeIsReset, UpstreamGone, Upstream, UpstreamCloses
  <1>3. mistaken = None => Owed'
    BY <1>1, <1>2 DEF AnswerInv, Owed, Working, OnlyNotices, OneAnswer
  <1>4. InStep'
    <2>1. CASE EnvelopeIsReset \/ UpstreamGone
      BY <2>1 DEF EnvelopeIsReset, UpstreamGone, InStep, Relayed, None
    <2>2. CASE Upstream
      <3>1. PICK c : asked = <<c>>
        BY <2>2 DEF Upstream, ChannelInv
      <3>2. asked' = <<>> /\ replies = <<>> /\ replies' = <<c[1]>> /\ waiting' = waiting
        BY <2>2, <3>1, Single DEF Upstream, ChannelInv
      <3>3. waiting \in Relayed => c[1] = waiting
        BY <3>1 DEF AnswerInv, InStep
      <3> QED BY <3>2, <3>3, Single DEF InStep
    <2>3. CASE UpstreamCloses
      BY <2>3 DEF UpstreamCloses, AnswerInv, InStep
    <2> QED BY <2>1, <2>2, <2>3
  <1> QED BY <1>1, <1>3, <1>4 DEF AnswerInv

\* The number of notices that are due.
LEMMA DueKeeps == ASSUME due \in Nat, [Next]_vars PROVE due' \in Nat
  <1>1. CASE LoggedIn
    BY <1>1 DEF LoggedIn
  <1>2. CASE Client \/ Receive \/ Upstream \/ UpstreamCloses \/ UNCHANGED vars
    BY <1>2 DEF vars, Client, Send, ClientCloses, ClosedInBody, Receive, Upstream, UpstreamCloses, Idle
  <1>3. CASE Locally \/ AuthFails \/ (\E a \in Agents : Auth(a)) \/ Forward \/ Data \/ Stage
    BY <1>3 DEF Locally, AuthFails, Auth, Forward, Data, Stage, Idle
  <1>4. CASE Connected \/ LoginRefused \/ RelayAnswer \/ EnvelopeIsReset \/ UpstreamGone
    BY <1>4 DEF Connected, LoginRefused, RelayAnswer, EnvelopeIsReset, UpstreamGone
  <1> QED BY <1>1, <1>2, <1>3, <1>4 DEF Next, Handler

\* All the steps of a session.
LEMMA AnswerStep == ASSUME AnswerInv, ChannelInv, due \in Nat, [Next]_vars PROVE AnswerInv'
  <1>1. CASE UNCHANGED vars
    BY <1>1 DEF vars, upstreamVars, clientVars, histVars, AnswerInv, Owed, Working, OnlyNotices, OneAnswer, InStep
  <1> QED
    BY <1>1, ClientAnswers, LocalAnswers, RelayAnswers, AskingAnswers, UpstreamAnswers DEF Next, Handler

-----------------------------------------------------------------------------
(* The notices *)

\* The elements of a sequence.
Elements(s) == {s[i] : i \in 1 .. Len(s)}

\* What a session has read to tell: the oldest m rejections, less some that had been
\* written by then; before it marks them it has written them.
Reading(c) ==
    /\ \E m \in 0 .. Len(rejected), N \in SUBSET Elements(wrote) :
          batch[c] = Told!Filter(SubSeq(rejected, 1, m), Ops \ N)
    /\ pc[c] = "mark" => Elements(batch[c]) \subseteq Elements(wrote)

NoticesInv ==
    /\ rejected \in Seq(Ops) /\ \A i, j \in 1 .. Len(rejected) : rejected[i] = rejected[j] => i = j
    /\ Len(wrote) <= Len(rejected) /\ wrote = SubSeq(rejected, 1, Len(wrote))
    /\ notified \subseteq Elements(wrote)
    /\ pc \in [Conns -> {"idle", "write", "mark"}]
    /\ DOMAIN batch = Conns
    /\ \A c \in Conns : pc[c] # "idle" => Reading(c)

\* The helper of the instance is the one about which the lemmas are.
LEMMA ToldFilter == \A s, T : Told!Filter(s, T) = Filter(s, T)
  BY DEF Told!Filter, Filter

\* As is the set of the elements.
LEMMA ToldToSet == \A s \in Seq(Ops) : Told!ToSet(s) = Elements(s)
  BY DEF Told!ToSet, Elements

\* What is kept of the beginning of the rejections, less those at a shorter
\* beginning, is what comes after these.
LEMMA RestOfBeginning ==
    ASSUME NEW s \in Seq(Ops), \A i, j \in 1 .. Len(s) : s[i] = s[j] => i = j,
           NEW m \in 0 .. Len(s), NEW n \in 0 .. Len(s)
    PROVE  Filter(SubSeq(s, 1, m), Ops \ Elements(SubSeq(s, 1, n)))
               = IF n <= m THEN SubSeq(s, n + 1, m) ELSE <<>>
  <1> DEFINE t == SubSeq(s, 1, m)
             u == SubSeq(s, 1, n)
  <1>1. t \in Seq(Ops) /\ Len(t) = m /\ \A i \in 1 .. m : t[i] = s[i]
    OBVIOUS
  <1>2. Len(u) = n /\ \A i \in 1 .. n : u[i] = s[i]
    OBVIOUS
  <1>3. CASE n <= m
    <2>1. Elements(u) = {t[i] : i \in 1 .. n}
      <3>1. \A i \in 1 .. n : u[i] = t[i]
        BY <1>1, <1>2, <1>3
      <3> HIDE DEF t, u
      <3> QED BY <1>2, <3>1 DEF Elements
    <2>2. \A i, j \in 1 .. Len(t) : t[i] = t[j] => i = j
      BY <1>1
    <2>3. n \in 0 .. Len(t)
      BY <1>1, <1>3
    <2>4. Filter(t, Ops \ {t[i] : i \in 1 .. n}) = SubSeq(t, n + 1, Len(t))
      <3> HIDE DEF t
      <3>1. \A r \in Seq(Ops) : (\A i, j \in 1 .. Len(r) : r[i] = r[j] => i = j) =>
               \A k \in 0 .. Len(r) : Filter(r, Ops \ {r[i] : i \in 1 .. k}) = SubSeq(r, k + 1, Len(r))
        BY FilterOfRest
      <3>2. \A k \in 0 .. Len(t) : Filter(t, Ops \ {t[i] : i \in 1 .. k}) = SubSeq(t, k + 1, Len(t))
        BY ONLY <1>1, <2>2, <3>1
      <3> QED BY ONLY <2>3, <3>2
    <2>5. SubSeq(t, n + 1, Len(t)) = SubSeq(s, n + 1, m)
      BY <1>1, <1>3
    <2> QED BY <1>3, <2>1, <2>4, <2>5
  <1>4. CASE ~(n <= m)
    <2>1. \A i \in 1 .. Len(t) : t[i] \in Elements(u)
      BY <1>1, <1>2, <1>4 DEF Elements
    <2> DEFINE T == Ops \ Elements(u)
    <2>2. \A i \in 1 .. Len(t) : t[i] \notin T
      BY <2>1
    <2> HIDE DEF t, T
    <2>3. Filter(t, T) = <<>>
      BY <1>1, <2>2, FilterOfNone
    <2> QED BY <1>4, <2>3 DEF t, T
  <1> QED BY <1>3, <1>4

\* Nothing is rejected at first.
LEMMA NoticesInit == Told!Init => NoticesInv
  BY DEF Told!Init, NoticesInv, Elements

\* A rejection is the last to be told.
LEMMA RejectKeeps == ASSUME NoticesInv, NEW o \in Ops, Told!Reject(o) PROVE NoticesInv'
  <1>1. /\ rejected \in Seq(Ops) /\ rejected' = Append(rejected, o)
        /\ UNCHANGED <<notified, pc, batch, wrote>>
    BY DEF NoticesInv, Told!Reject
  <1>2. \A i \in 1 .. Len(rejected) : rejected[i] # o
    BY ToldToSet, <1>1 DEF Told!Reject, Elements
  <1>3. rejected' \in Seq(Ops) /\ Len(rejected') = Len(rejected) + 1 /\ Len(rejected) \in Nat
    BY <1>1
  <1>4. \A i, j \in 1 .. Len(rejected') : rejected'[i] = rejected'[j] => i = j
    BY <1>1, <1>2 DEF NoticesInv
  <1>5. \A m \in 0 .. Len(rejected) : SubSeq(rejected', 1, m) = SubSeq(rejected, 1, m)
    BY <1>1
  <1>6. Len(wrote) \in Nat
    <2>1. wrote = SubSeq(rejected, 1, Len(wrote)) /\ Len(wrote) <= Len(rejected)
      BY DEF NoticesInv
    <2> QED BY <1>1, <2>1
  <1>7. Len(wrote') <= Len(rejected') /\ wrote' = SubSeq(rejected', 1, Len(wrote'))
    BY <1>1, <1>3, <1>5, <1>6 DEF NoticesInv
  <1>8. ASSUME NEW c \in Conns, pc'[c] # "idle" PROVE Reading(c)'
    <2>1. PICK m \in 0 .. Len(rejected), N \in SUBSET Elements(wrote) :
             batch[c] = Told!Filter(SubSeq(rejected, 1, m), Ops \ N)
      BY <1>1, <1>8 DEF NoticesInv, Reading
    <2>2. m \in 0 .. Len(rejected') /\ SubSeq(rejected', 1, m) = SubSeq(rejected, 1, m)
      BY <1>3, <1>5
    <2>3. batch'[c] = Told!Filter(SubSeq(rejected', 1, m), Ops \ N)
      BY <1>1, <2>1, <2>2
    <2> QED BY <1>1, <1>8, <2>2, <2>3 DEF NoticesInv, Reading
  <1> QED BY <1>1, <1>3, <1>4, <1>7, <1>8 DEF NoticesInv


\* The types of what is written and read.
LEMMA ToldTypes ==
    ASSUME NoticesInv
    PROVE  /\ rejected \in Seq(Ops) /\ wrote \in Seq(Ops) /\ Len(wrote) \in 0 .. Len(rejected)
           /\ \A c \in Conns : pc[c] # "idle" => batch[c] \in Seq(Ops)
  <1>1. rejected \in Seq(Ops) /\ wrote = SubSeq(rejected, 1, Len(wrote)) /\ Len(wrote) <= Len(rejected)
    BY DEF NoticesInv
  <1>2. Len(wrote) \in 0 .. Len(rejected) /\ wrote \in Seq(Ops)
    BY <1>1
  <1>3. ASSUME NEW c \in Conns, pc[c] # "idle" PROVE batch[c] \in Seq(Ops)
    <2>1. PICK m \in 0 .. Len(rejected), N \in SUBSET Elements(wrote) :
             batch[c] = Filter(SubSeq(rejected, 1, m), Ops \ N)
      BY <1>3, ToldFilter DEF NoticesInv, Reading
    <2>2. SubSeq(rejected, 1, m) \in Seq(Ops)
      BY <1>1
    <2> QED BY <2>1, <2>2, FilterKeepsType
  <1> QED BY <1>1, <1>2, <1>3

\* A session that ends, or has not begun to read, leaves the others what they have.
LEMMA EndKeeps ==
    ASSUME NoticesInv, NEW c \in Conns,
           pc' = [pc EXCEPT ![c] = "idle"], batch' = [batch EXCEPT ![c] = <<>>],
           UNCHANGED <<rejected, wrote>>, notified' \subseteq Elements(wrote)
    PROVE  NoticesInv'
  <1>1. /\ pc' \in [Conns -> {"idle", "write", "mark"}] /\ DOMAIN batch' = Conns
        /\ \A d \in Conns : pc'[d] # "idle" => pc'[d] = pc[d] /\ batch'[d] = batch[d]
    BY DEF NoticesInv
  <1>2. ASSUME NEW d \in Conns, pc'[d] # "idle" PROVE Reading(d)'
    <2>1. Reading(d) /\ pc'[d] = pc[d] /\ batch'[d] = batch[d]
      BY <1>1, <1>2 DEF NoticesInv
    <2> QED BY <2>1 DEF Reading
  <1> QED BY <1>1, <1>2 DEF NoticesInv

\* A session reads the oldest that are not marked, and these have been written.
LEMMA LoginKeeps ==
    ASSUME Told!NoticesAssumption, NoticesInv, NEW c \in Conns, Told!Login(c) PROVE NoticesInv'
  <1> DEFINE due_ == Filter(rejected, Ops \ notified)
  <1>1. /\ batch' = [batch EXCEPT ![c] = Told!FirstOf(due_)] /\ pc' = [pc EXCEPT ![c] = "write"]
        /\ UNCHANGED <<rejected, notified, wrote>>
    BY ToldFilter DEF Told!Login, Told!Due
  <1>2. PICK k \in 0 .. Len(due_) : Told!FirstOf(due_) = SubSeq(due_, 1, k)
    <2>1. due_ \in Seq(Ops)
      BY FilterKeepsType DEF NoticesInv
    <2> HIDE DEF due_
    <2> QED BY <2>1 DEF Told!FirstOf, Told!NoticesAssumption
  <1>3. PICK m \in 0 .. Len(rejected) : SubSeq(due_, 1, k) = Filter(SubSeq(rejected, 1, m), Ops \ notified)
    <2> DEFINE T == Ops \ notified
    <2>1. rejected \in Seq(Ops)
      BY DEF NoticesInv
    <2> HIDE DEF T
    <2>2. \A j \in 0 .. Len(Filter(rejected, T)) :
             \E i \in 0 .. Len(rejected) : SubSeq(Filter(rejected, T), 1, j) = Filter(SubSeq(rejected, 1, i), T)
      BY <2>1, FilterOfBeginning
    <2> QED BY <2>2 DEF T
  <1>4. batch'[c] = Told!Filter(SubSeq(rejected, 1, m), Ops \ notified)
    BY <1>1, <1>2, <1>3, ToldFilter DEF NoticesInv
  <1>5. Reading(c)'
    <2>1. notified \in SUBSET Elements(wrote)
      BY DEF NoticesInv
    <2>2. pc'[c] = "write"
      BY <1>1 DEF NoticesInv
    <2> QED BY <1>1, <1>4, <2>1, <2>2 DEF Reading
  <1>6. ASSUME NEW d \in Conns, d # c, pc'[d] # "idle" PROVE Reading(d)'
    BY <1>1, <1>6 DEF NoticesInv, Reading
  <1>7. pc' \in [Conns -> {"idle", "write", "mark"}] /\ DOMAIN batch' = Conns
    BY <1>1 DEF NoticesInv
  <1> QED BY <1>1, <1>5, <1>6, <1>7 DEF NoticesInv

\* What a session writes comes next, whoever has written in between.
LEMMA WriteKeeps == ASSUME NoticesInv, NEW c \in Conns, Told!Write(c) PROVE NoticesInv'
  <1>1. /\ wrote' = wrote \o Filter(batch[c], Ops \ Elements(wrote))
        /\ pc' = [pc EXCEPT ![c] = "mark"] /\ pc[c] = "write"
        /\ UNCHANGED <<rejected, notified, batch>>
    BY ToldTypes, ToldFilter, ToldToSet DEF Told!Write
  <1>2. PICK m \in 0 .. Len(rejected), N \in SUBSET Elements(wrote) :
           batch[c] = Filter(SubSeq(rejected, 1, m), Ops \ N)
    BY <1>1, ToldFilter DEF NoticesInv, Reading
  <1> DEFINE n == Len(wrote)
             t == SubSeq(rejected, 1, m)
             l == IF n <= m THEN m ELSE n
  <1>3. /\ rejected \in Seq(Ops) /\ n \in 0 .. Len(rejected) /\ wrote = SubSeq(rejected, 1, n)
        /\ t \in Seq(Ops) /\ Len(t) = m
    BY ToldTypes DEF NoticesInv
  <1>4. Filter(batch[c], Ops \ Elements(wrote)) = Filter(t, Ops \ Elements(wrote))
    <2> DEFINE T == Ops \ N
               U == Ops \ Elements(wrote)
    <2>1. T \cap U = U
      OBVIOUS
    <2>2. \A s \in Seq(Ops) : Filter(Filter(s, T), U) = Filter(s, T \cap U)
      BY FilterTwice
    <2>3. Filter(Filter(t, T), U) = Filter(t, T \cap U)
      <3> HIDE DEF T, U, t
      <3> QED BY <1>3, <2>2
    <2> QED BY <1>2, <2>1, <2>3
  <1>5. Filter(t, Ops \ Elements(wrote)) = IF n <= m THEN SubSeq(rejected, n + 1, m) ELSE <<>>
    <2>1. \A i, j \in 1 .. Len(rejected) : rejected[i] = rejected[j] => i = j
      BY DEF NoticesInv
    <2>2. Filter(SubSeq(rejected, 1, m), Ops \ Elements(SubSeq(rejected, 1, n)))
               = IF n <= m THEN SubSeq(rejected, n + 1, m) ELSE <<>>
      <3> HIDE DEF n
      <3> QED BY ONLY <1>2, <1>3, <2>1, RestOfBeginning
    <2> QED BY <1>3, <2>2
  <1>6. l \in 0 .. Len(rejected) /\ wrote' = SubSeq(rejected, 1, l) /\ Len(wrote') = l
    <2>1. CASE n <= m
      <3>1. wrote' = SubSeq(rejected, 1, n) \o SubSeq(rejected, n + 1, m)
        BY <1>1, <1>3, <1>4, <1>5, <2>1
      <3>2. SubSeq(rejected, 1, n) \o SubSeq(rejected, n + 1, m) = SubSeq(rejected, 1, m)
        <4> HIDE DEF n
        <4> QED BY <1>3, <2>1
      <3>3. Len(SubSeq(rejected, 1, m)) = m
        BY <1>3
      <3> QED BY <1>3, <2>1, <3>1, <3>2, <3>3
    <2>2. CASE ~(n <= m)
      <3>1. wrote' = wrote \o <<>>
        BY <1>1, <1>4, <1>5, <2>2
      <3>2. wrote' = wrote
        BY <3>1, ToldTypes
      <3> QED BY <1>3, <2>2, <3>2
    <2> QED BY <2>1, <2>2
  <1>7. Elements(wrote) \subseteq Elements(wrote') /\ Elements(t) \subseteq Elements(wrote')
    <2>1. \A i \in 1 .. l : wrote'[i] = rejected[i]
      BY <1>3, <1>6
    <2>2. \A i \in 1 .. n : wrote[i] = rejected[i]
      <3> HIDE DEF n
      <3> QED BY <1>3
    <2>3. \A i \in 1 .. m : t[i] = rejected[i]
      BY <1>3
    <2>4. n <= l /\ m <= l /\ n \in Nat /\ m \in Nat /\ l \in Nat /\ Len(wrote') = l /\ Len(t) = m /\ n = Len(wrote)
      BY <1>3, <1>6
    <2> HIDE DEF n, t, l
    <2> QED BY <2>1, <2>2, <2>3, <2>4 DEF Elements
  <1>8. Elements(batch[c]) \subseteq Elements(wrote')
    <2> DEFINE T == Ops \ N
               f == Filter(t, T)
    <2>1. f \in Seq(Ops)
      BY <1>3, FilterKeepsType
    <2>2. \A i \in DOMAIN f : \E j \in DOMAIN t : t[j] = f[i]
      <3> HIDE DEF t, T
      <3> QED BY <1>3, FilterTakes
    <2>3. batch[c] = f
      BY <1>2
    <2> HIDE DEF f, t
    <2>4. Elements(f) \subseteq Elements(t)
      <3>1. DOMAIN f = 1 .. Len(f) /\ DOMAIN t = 1 .. Len(t)
        BY <1>3, <2>1
      <3> QED BY <2>2, <3>1 DEF Elements
    <2> QED BY <1>7, <2>3, <2>4
  <1>9. ASSUME NEW d \in Conns, pc'[d] # "idle" PROVE Reading(d)'
    <2>1. pc[d] # "idle"
      BY <1>1, <1>9 DEF NoticesInv
    <2>2. PICK i \in 0 .. Len(rejected), M \in SUBSET Elements(wrote) :
             batch[d] = Told!Filter(SubSeq(rejected, 1, i), Ops \ M)
      BY <2>1 DEF NoticesInv, Reading
    <2>3. M \in SUBSET Elements(wrote')
      BY <1>7
    <2>4. pc'[d] = "mark" => Elements(batch[d]) \subseteq Elements(wrote')
      <3>1. d = c \/ pc'[d] = pc[d]
        BY <1>1 DEF NoticesInv
      <3>2. pc[d] = "mark" => Elements(batch[d]) \subseteq Elements(wrote)
        BY <2>1 DEF NoticesInv, Reading
      <3> QED BY <1>7, <1>8, <3>1, <3>2
    <2> QED BY <1>1, <2>2, <2>3, <2>4 DEF Reading
  <1>10. /\ Len(wrote') <= Len(rejected') /\ wrote' = SubSeq(rejected', 1, Len(wrote'))
         /\ notified' \subseteq Elements(wrote')
    <2> HIDE DEF n, t, l
    <2>1. notified \subseteq Elements(wrote)
      BY DEF NoticesInv
    <2>2. Len(rejected) \in Nat /\ l <= Len(rejected) /\ rejected' = rejected /\ notified' = notified
      BY <1>1, <1>3, <1>6
    <2>3. wrote' = SubSeq(rejected', 1, Len(wrote'))
      BY ONLY <1>6, <2>2
    <2> QED BY ONLY <1>6, <1>7, <2>1, <2>2, <2>3
  <1>11. pc' \in [Conns -> {"idle", "write", "mark"}] /\ DOMAIN batch' = Conns
    BY <1>1 DEF NoticesInv
  <1> QED BY <1>1, <1>9, <1>10, <1>11 DEF NoticesInv

\* What is marked has been written, and what fails marks nothing.
LEMMA MarkKeeps ==
    ASSUME NoticesInv, NEW c \in Conns,
           Told!WriteFails(c) \/ Told!Mark(c) \/ Told!MarkFails(c) \/ Told!Breaks(c)
    PROVE  NoticesInv'
  <1>1. CASE Told!WriteFails(c) \/ Told!MarkFails(c)
    <2>1. notified' \subseteq Elements(wrote)
      BY <1>1 DEF Told!WriteFails, Told!MarkFails, NoticesInv
    <2> QED BY <1>1, <2>1, EndKeeps DEF Told!WriteFails, Told!MarkFails
  <1>2. CASE Told!Mark(c)
    <2>1. notified' = notified \cup Elements(batch[c]) /\ Elements(batch[c]) \subseteq Elements(wrote)
      BY <1>2, ToldTypes, ToldToSet DEF Told!Mark, NoticesInv, Reading
    <2>2. notified' \subseteq Elements(wrote)
      BY <2>1 DEF NoticesInv
    <2> QED BY <1>2, <2>2, EndKeeps DEF Told!Mark
  <1>3. CASE Told!Breaks(c)
    <2>1. UNCHANGED <<rejected, notified, pc, batch, wrote>>
      BY <1>3 DEF Told!Breaks
    <2>2. \A d \in Conns : Reading(d) => Reading(d)'
      BY <2>1 DEF Reading
    <2> QED BY <2>1, <2>2 DEF NoticesInv
  <1> QED BY <1>1, <1>2, <1>3

\* All the steps of the notices.
LEMMA NoticesStep ==
    ASSUME Told!NoticesAssumption PROVE NoticesInv /\ [Told!Next]_noticeVars => NoticesInv'
  <1>1. ASSUME NoticesInv, UNCHANGED noticeVars PROVE NoticesInv'
    BY <1>1 DEF noticeVars, NoticesInv, Reading
  <1> QED BY <1>1, RejectKeeps, LoginKeeps, WriteKeeps, MarkKeeps DEF Told!Next, Told!Proceed

\* What the invariant says of what is told.
LEMMA NoticesAreTrue == NoticesInv => Told!NotifiedWasWritten /\ Told!ToldInOrder
  <1> SUFFICES ASSUME NoticesInv PROVE Told!NotifiedWasWritten /\ Told!ToldInOrder
    OBVIOUS
  <1>1. wrote \in Seq(Ops) /\ rejected \in Seq(Ops) /\ SubSeq(wrote, 1, Len(wrote)) = wrote
    BY ToldTypes
  <1> QED BY <1>1, ToldToSet DEF NoticesInv, Told!NotifiedWasWritten, Told!ToldInOrder, Told!IsPrefix

-----------------------------------------------------------------------------
(* Both parts *)

\* What holds of a connection and of the notices.
TellingInv == SmtpInv /\ AnswerInv /\ due \in Nat /\ NoticesInv

\* Both begin so.
LEMMA TellingInit == SmtpInit => TellingInv
  <1>1. Init => due \in Nat
    BY SmtpAssumption DEF Init
  <1> QED BY <1>1, InitHolds, AnswerInit, NoticesInit DEF SmtpInit, TellingInv

\* Either part moves.
LEMMA TellingStep == TellingInv /\ [SmtpNext]_<<part, vars, noticeVars>> => TellingInv'
  <1> SUFFICES ASSUME TellingInv, [SmtpNext]_<<part, vars, noticeVars>> PROVE TellingInv'
    OBVIOUS
  <1>1. [Next]_vars /\ [Told!Next]_noticeVars
    BY DEF SmtpNext
  <1>2. ChannelInv
    BY DEF TellingInv, SmtpInv
  <1>3. SmtpInv' /\ AnswerInv' /\ due' \in Nat
    BY <1>1, <1>2, StepKeeps, AnswerStep, DueKeeps DEF TellingInv
  <1>4. NoticesInv'
    BY <1>1, NoticesStep, ToldAssumption DEF TellingInv
  <1> QED BY <1>3, <1>4 DEF TellingInv

\* The answer a client reads is the one to its last command, unless a notice was
\* between them; a notice is marked only after it was written; and rejections are
\* told oldest first, over any number of sessions that break and overlap
\* (handle_smtp_client, _send_smtp_rejection_notices).
THEOREM ClientAlwaysToldTrue == SmtpSpec => []ClientIsToldTrue
  <1>1. TellingInv => ClientIsToldTrue
    BY NoticesAreTrue DEF TellingInv, AnswerInv, AnswersMatch, ClientIsToldTrue
  <1> QED BY <1>1, TellingInit, TellingStep, PTL DEF SmtpSpec

=============================================================================
