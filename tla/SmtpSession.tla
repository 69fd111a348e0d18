---------------------------- MODULE SmtpSession ----------------------------
(***************************************************************************)
(* One SMTP connection of an agent (gateway/smtp_proxy.py): one coroutine   *)
(* that takes a command, answers it itself or forwards it and relays the    *)
(* answer, and stages what DATA brings.  The client sends a command when it *)
(* has the answer to the one before.  The upstream server is external.      *)
(***************************************************************************)
EXTENDS Naturals, Sequences, FiniteSets

CONSTANTS
    Agents, Recipients,
    MaxCommands,    \* bound on the commands of the connection
    Notices,        \* bound on the rejection notices that are due
    Faults,         \* may create_operation raise?
    UpstreamEnds    \* may the upstream server close its connection?

ASSUME SmtpAssumption ==
    MaxCommands \in Nat /\ Notices \in Nat /\ Faults \in BOOLEAN /\ UpstreamEnds \in BOOLEAN

VARIABLES
    (* the coroutine: where it reads, the answer it waits for, who logged in *)
    phase, waiting, agent,
    (* its envelope *)
    sender, recipients,
    (* the upstream connection: up, in a transaction, recipients accepted,
       commands to it and answers from it *)
    alive, transaction, accepted, asked, replies,
    (* the client: commands sent, the one not answered yet, both channels *)
    sent, outstanding, commands, answers,
    (* the database: operations staged, notices due *)
    staged, due,
    (* history: messages the client believes staged, the answer it took for that
       of another command *)
    told, mistaken

envelopeVars == <<sender, recipients>>
upstreamVars == <<alive, transaction, accepted, asked, replies>>
clientVars   == <<sent, outstanding, commands>>
histVars     == <<told, mistaken>>
vars == <<phase, waiting, agent, envelopeVars, upstreamVars, clientVars, answers, staged, due, histVars>>

None == "none"

\* A command is its verb and its argument.  BDAT stands for the verbs refused.
Commands ==
    ({"EHLO", "MAIL", "DATA", "RSET", "NOOP", "QUIT", "BDAT"} \X {None})
        \cup ({"AUTH"} \X Agents) \cup ({"RCPT"} \X Recipients)
Body == <<"BODY", None>>
NoCommand == <<None, None>>

\* One answer of the upstream server at most is outstanding, and only while the
\* proxy waits for it; recipients are accepted in a transaction only.
TypeOK ==
    /\ phase \in {"command", "body", "closed"}
    /\ waiting \in {None, "EHLO", "AUTH", "MAIL", "RCPT", "RSET", "NOOP", "QUIT", "STAGED"}
    /\ agent \in Agents \cup {None} /\ sender \in BOOLEAN /\ recipients \subseteq Recipients
    /\ accepted \subseteq Recipients /\ (accepted # {} => transaction)
    /\ Len(asked) + Len(replies) <= 1
    /\ waiting = None => asked = <<>> /\ replies = <<>>
    /\ sent \in 0 .. MaxCommands /\ outstanding \in Commands \cup {Body, NoCommand}
    /\ due \in 0 .. Notices

Init ==
    /\ phase = "command" /\ waiting = None /\ agent = None
    /\ sender = FALSE /\ recipients = {}
    /\ alive = FALSE /\ transaction = FALSE /\ accepted = {}
    /\ asked = <<>> /\ replies = <<>>
    /\ sent = 0 /\ outstanding = NoCommand /\ commands = <<>> /\ answers = <<>>
    /\ staged = {} /\ due \in 0 .. Notices
    /\ told = 0 /\ mistaken = None

-----------------------------------------------------------------------------
(* The client *)

\* A client that takes one answer for another does not know how to go on.
Send(c) ==
    /\ phase # "closed" /\ outstanding = NoCommand /\ sent < MaxCommands /\ mistaken = None
    /\ (c = Body) = (phase = "body" /\ waiting = None)
    /\ sent' = sent + 1 /\ outstanding' = c /\ commands' = Append(commands, c)
    /\ UNCHANGED <<phase, waiting, agent, envelopeVars, upstreamVars, answers, staged, due, histVars>>

Receive ==
    /\ answers # <<>> /\ outstanding # NoCommand
    /\ mistaken' = IF Head(answers) = outstanding[1] THEN mistaken ELSE Head(answers)
    /\ told' = IF Head(answers) = "BODY" THEN told + 1 ELSE told
    /\ answers' = Tail(answers) /\ outstanding' = NoCommand
    /\ UNCHANGED <<phase, waiting, agent, envelopeVars, upstreamVars, sent, commands, staged, due>>

ClientCloses ==
    /\ phase = "command" /\ waiting = None /\ commands = <<>>
    /\ phase' = "closed"
    /\ UNCHANGED <<waiting, agent, envelopeVars, upstreamVars, clientVars, answers, staged, due, histVars>>

-----------------------------------------------------------------------------
(* handle_smtp_client *)

Take(c) ==
    /\ phase # "closed" /\ waiting = None /\ commands # <<>> /\ c = Head(commands)
    /\ commands' = Tail(commands)

Answer(verb) == answers' = Append(answers, verb)
Idle == UNCHANGED <<sent, outstanding, due, histVars>>

\* EHLO and HELO, the verbs not permitted, and every verb before AUTH.
Locally ==
    /\ \E c \in Commands :
          /\ phase = "command" /\ Take(c)
          /\ c[1] \in {"EHLO", "BDAT"} \/ (agent = None /\ c[1] # "AUTH")
          /\ Answer(c[1])
    /\ Idle
    /\ UNCHANGED <<phase, waiting, agent, envelopeVars, upstreamVars, staged>>

\* Too many attempts, a wrong token, an upstream that cannot be reached.
AuthFails ==
    /\ \E a \in Agents : phase = "command" /\ Take(<<"AUTH", a>>)
    /\ Answer("AUTH") /\ phase' = "closed"
    /\ Idle
    /\ UNCHANGED <<waiting, agent, envelopeVars, upstreamVars, staged>>

\* The agent may log in again: the upstream connection is replaced, the
\* envelope is not.  The second EHLO is answered after STARTTLS.
Auth(a) ==
    /\ phase = "command" /\ Take(<<"AUTH", a>>)
    /\ agent' = a
    /\ alive' = TRUE /\ transaction' = FALSE /\ accepted' = {}
    /\ asked' = <<<<"EHLO", None>>>> /\ replies' = <<>>
    /\ waiting' = "EHLO"
    /\ Idle
    /\ UNCHANGED <<phase, envelopeVars, answers, staged>>

\* (mutant) MAIL begins the envelope anew
ForwardFresh ==
    /\ agent # None
    /\ \E c \in Commands :
          /\ c[1] \in {"MAIL", "RCPT", "RSET", "NOOP", "QUIT"} /\ phase = "command" /\ Take(c)
          /\ sender' = (sender \/ c[1] = "MAIL")
          /\ recipients' = IF c[1] = "RCPT" THEN recipients \cup {c[2]}
                           ELSE IF c[1] = "MAIL" THEN {} ELSE recipients
          /\ asked' = Append(asked, c) /\ waiting' = c[1]
    /\ Idle
    /\ UNCHANGED <<phase, agent, alive, transaction, accepted, replies, answers, staged>>

\* MAIL and RCPT are noted and forwarded, NOOP, RSET and QUIT are forwarded.
Forward ==
    /\ agent # None
    /\ \E c \in Commands :
          /\ c[1] \in {"MAIL", "RCPT", "RSET", "NOOP", "QUIT"} /\ phase = "command" /\ Take(c)
          /\ sender' = (sender \/ c[1] = "MAIL")
          /\ recipients' = IF c[1] = "RCPT" THEN recipients \cup {c[2]} ELSE recipients
          /\ asked' = Append(asked, c) /\ waiting' = c[1]
    /\ Idle
    /\ UNCHANGED <<phase, agent, alive, transaction, accepted, replies, answers, staged>>

\* (mutant) the upstream's 354 is relayed too
DataTwice ==
    /\ agent # None /\ phase = "command" /\ Take(<<"DATA", None>>)
    /\ answers' = answers \o <<"DATA", "DATA">> /\ phase' = "body"
    /\ Idle
    /\ UNCHANGED <<waiting, agent, envelopeVars, upstreamVars, staged>>

Data ==
    /\ agent # None /\ phase = "command" /\ Take(<<"DATA", None>>)
    /\ Answer("DATA") /\ phase' = "body"
    /\ Idle
    /\ UNCHANGED <<waiting, agent, envelopeVars, upstreamVars, staged>>

Operation(whole) == [number |-> sent, agent |-> agent, to |-> recipients,
                     accepted |-> accepted, whole |-> whole]

\* (mutant) an operation that cannot be created is not answered
StageSilently ==
    /\ phase = "body" /\ Take(Body)
    /\ \/ staged' = staged \cup {Operation(TRUE)} /\ Answer("BODY")
       \/ Faults /\ UNCHANGED <<staged, answers>>
    /\ asked' = Append(asked, <<"RSET", None>>) /\ waiting' = "STAGED"
    /\ Idle
    /\ UNCHANGED <<phase, agent, envelopeVars, alive, transaction, accepted, replies>>

\* create_operation, the answer, which is 250 also when it raises, and RSET.
Stage ==
    /\ phase = "body" /\ Take(Body)
    /\ \/ staged' = staged \cup {Operation(TRUE)}
       \/ Faults /\ staged' = staged
    /\ Answer("BODY")
    /\ asked' = Append(asked, <<"RSET", None>>) /\ waiting' = "STAGED"
    /\ Idle
    /\ UNCHANGED <<phase, agent, envelopeVars, alive, transaction, accepted, replies>>

\* The end of the connection ends the body like its terminator does.
ClosedInBody ==
    /\ phase = "body" /\ waiting = None /\ commands = <<>>
    /\ staged' = staged \cup {Operation(FALSE)}
    /\ phase' = "closed"
    /\ Idle
    /\ UNCHANGED <<waiting, agent, envelopeVars, upstreamVars, commands, answers>>

\* An answer has come from upstream.
Reply ==
    /\ phase # "closed" /\ waiting # None /\ replies # <<>>
    /\ replies' = Tail(replies)

Connected ==
    /\ Reply /\ waiting = "EHLO"
    /\ asked' = Append(asked, <<"AUTH", agent>>) /\ waiting' = "AUTH"
    /\ UNCHANGED <<phase, agent, envelopeVars, alive, transaction, accepted, clientVars, answers,
                   staged, due, histVars>>

\* 235, and after it the notices that are due.
LoggedIn ==
    /\ Reply /\ waiting = "AUTH" /\ waiting' = None
    /\ answers' = answers \o <<"AUTH">> \o [i \in 1 .. due |-> "214"]
    /\ due' = 0
    /\ UNCHANGED <<phase, agent, envelopeVars, alive, transaction, accepted, asked, clientVars,
                   staged, histVars>>

LoginRefused ==
    /\ Reply /\ waiting = "AUTH" /\ waiting' = None
    /\ Answer("AUTH") /\ phase' = "closed"
    /\ UNCHANGED <<agent, envelopeVars, alive, transaction, accepted, asked, clientVars,
                   staged, due, histVars>>

RelayAnswer ==
    /\ Reply /\ waiting \in {"MAIL", "RCPT", "RSET", "NOOP", "QUIT"} /\ waiting' = None
    /\ Answer(Head(replies))
    /\ phase' = IF waiting = "QUIT" THEN "closed" ELSE phase
    /\ UNCHANGED <<agent, envelopeVars, alive, transaction, accepted, asked, clientVars,
                   staged, due, histVars>>

EnvelopeIsReset ==
    /\ Reply /\ waiting = "STAGED" /\ waiting' = None
    /\ sender' = FALSE /\ recipients' = {} /\ phase' = "command"
    /\ UNCHANGED <<agent, alive, transaction, accepted, asked, clientVars, answers,
                   staged, due, histVars>>

\* The upstream connection is at its end: an empty answer, which refuses a
\* login, or an error, which ends the handler except after staging.
UpstreamGone ==
    /\ phase # "closed" /\ waiting # None /\ ~alive /\ replies = <<>>
    /\ waiting' = None /\ asked' = <<>>
    /\ CASE waiting = "STAGED" -> sender' = FALSE /\ recipients' = {} /\ phase' = "command"
         [] waiting \in {"EHLO", "AUTH"} -> phase' = "closed" /\ UNCHANGED envelopeVars
         [] OTHER -> phase' \in {IF waiting = "QUIT" THEN "closed" ELSE phase, "closed"}
                        /\ UNCHANGED envelopeVars
    /\ UNCHANGED <<agent, alive, transaction, accepted, replies, clientVars, answers,
                   staged, due, histVars>>

-----------------------------------------------------------------------------
(* The upstream server (external) *)

Upstream ==
    /\ alive /\ asked # <<>>
    /\ LET c == Head(asked)
       IN  \/ /\ c[1] = "MAIL" /\ ~transaction /\ transaction' = TRUE /\ UNCHANGED accepted
           \/ /\ c[1] = "RCPT" /\ transaction /\ accepted' = accepted \cup {c[2]}
              /\ UNCHANGED transaction
           \/ c[1] = "RSET" /\ transaction' = FALSE /\ accepted' = {}
           \/ c[1] # "RSET" /\ UNCHANGED <<transaction, accepted>>
    /\ asked' = Tail(asked) /\ replies' = Append(replies, Head(asked)[1])
    /\ UNCHANGED <<phase, waiting, agent, envelopeVars, alive, clientVars, answers, staged, due, histVars>>

UpstreamCloses ==
    /\ UpstreamEnds /\ alive
    /\ alive' = FALSE /\ transaction' = FALSE /\ accepted' = {}
    /\ UNCHANGED <<phase, waiting, agent, envelopeVars, asked, replies, clientVars, answers,
                   staged, due, histVars>>

Handler ==
    \/ Locally \/ AuthFails \/ (\E a \in Agents : Auth(a)) \/ Forward \/ Data \/ Stage
    \/ Connected \/ LoggedIn \/ LoginRefused \/ RelayAnswer \/ EnvelopeIsReset \/ UpstreamGone

Client == (\E c \in Commands \cup {Body} : Send(c)) \/ ClientCloses \/ ClosedInBody

Next == Client \/ Receive \/ Handler \/ Upstream \/ UpstreamCloses

Spec == Init /\ [][Next]_vars

\* The event loop runs the coroutine, the server answers, the client reads.
FairSpec == Spec /\ WF_vars(Handler) /\ WF_vars(Upstream) /\ WF_vars(Receive)

-----------------------------------------------------------------------------
(* Properties *)

\* What is staged goes to every recipient the upstream accepted, whatever the
\* client repeats, resets, or in what order (handle_smtp_client keeps its own
\* envelope beside the upstream's).
AcceptedAreStaged == phase # "closed" => accepted \subseteq recipients

\* The answer a client reads is the answer to its last command: the answers of
\* the proxy and those it relays never get out of step, unless a rejection notice
\* was between them.
AnswersMatch == mistaken \in {None, "214"}

UpstreamIsGone == agent # None /\ ~alive

\* Every command is answered or the connection ends (handle_smtp_client waits
\* for the upstream server's answer to each command it forwards), as long as the
\* upstream server keeps its connection open.
\* gateway/smtp_proxy.py:41 - "Every command the client sends elicits exactly one
\* response from the server before the next command is valid."
CommandsAreAnswered ==
    outstanding # NoCommand ~> outstanding = NoCommand \/ phase = "closed" \/ UpstreamIsGone

(* What comments and docs say and the code does not keep to *)

\* SPEC.md:197 - a notice "is out-of-band and the session continues normally":
\* it is not taken for an answer.
NoticeIsNoAnswer == mistaken # "214"

\* gateway/smtp_proxy.py:713 - what is staged is "the upstream transaction (MAIL
\* FROM + RCPT TO already forwarded)", so it goes to nobody else.
StagedIsTransaction == \A o \in staged : o.whole => o.to \subseteq o.accepted

\* gateway/smtp_proxy.py:48 - "Drain the client body until the terminating "."
\* line", then answer: a body without its end is no message.
OnlyWholeBodies == \A o \in staged : o.whole

\* SPEC.md:194 - "All sends staged": a message answered OK [STAGED] is in the
\* database.
StagedIsTrue == told <= Cardinality(staged)

=============================================================================
