------------------------------ MODULE ImapLogin ------------------------------
(***************************************************************************)
(* How an IMAP connection of an agent begins (handle_client of              *)
(* gateway/proxy.py): commands before the login, the login checked here and *)
(* repeated upstream with the real credentials, and the proxy's own         *)
(* questions for SPECIAL-USE folders before the pumps take over.  The       *)
(* upstream server is external; LoginGuard has the guard that may block.    *)
(***************************************************************************)
EXTENDS Naturals, Sequences

CONSTANTS
    MaxCommands,    \* bound on the lines the client sends
    MaxNotes,       \* bound on lines the upstream sends unasked
    MaxFaults       \* bound on connections that fail and calls that raise

LoginAssumption == MaxCommands \in Nat /\ MaxNotes \in Nat /\ MaxFaults \in Nat

VARIABLES
    (* the coroutine: where it is, the tag and kind of the login, whether the agent
       was verified, whether SPECIAL-USE has been announced *)
    phase, tag, oauth, verified, specialUse,
    (* the client: lines sent and not read yet, and how many *)
    inbox, sent,
    (* the upstream: connected, requests it has to answer, lines on their way *)
    alive, asked, lines,
    (* what the client was told: tagged answers, answers to the proxy's questions *)
    answers, leaked,
    (* history: has the upstream accepted the login? was the discovery given up? *)
    accepted, gaveUp,
    notes, faults

clientVars   == <<inbox, sent>>
upstreamVars == <<alive, asked, lines>>
toldVars     == <<answers, leaked>>
loginVars    == <<tag, oauth, verified>>
boundVars    == <<notes, faults>>
vars == <<phase, loginVars, specialUse, clientVars, upstreamVars, toldVars, accepted, gaveUp, boundVars>>

\* PLAIN carries its payload, AUTH has it asked for; MECH is another mechanism.
Verbs == {"CAPABILITY", "LOGOUT", "OTHER", "LOGIN", "PLAIN", "AUTH", "MECH", "payload"}
Questions == {"caps", "list"}

\* Nothing is under way upstream before the connection is opened (proxy.py:1767).
TypeOK ==
    /\ phase \in {"greet", "command", "challenge", "attempt", "verify", "fetch", "connect", "hello", "token",
                  "auth", "abort", "caps", "list", "pumps", "closed"}
    /\ inbox \in Seq((1 .. MaxCommands) \X Verbs) /\ sent \in 0 .. MaxCommands
    /\ tag \in 0 .. sent
    /\ phase \in {"fetch", "connect", "hello", "token", "auth", "abort", "caps", "list", "pumps"} => verified
    /\ asked # <<>> => alive
    /\ leaked \subseteq Questions

Init ==
    /\ phase = "greet" /\ tag = 0 /\ oauth \in BOOLEAN /\ verified = FALSE /\ specialUse = FALSE
    /\ inbox = <<>> /\ sent = 0
    /\ alive = FALSE /\ asked = <<>> /\ lines = <<>>
    /\ answers = <<>> /\ leaked = {} /\ accepted = FALSE /\ gaveUp = FALSE
    /\ notes = 0 /\ faults = 0

Tell(n, result) == answers' = Append(answers, <<n, result>>) /\ UNCHANGED leaked
Ask(request) == asked' = (IF alive THEN Append(asked, request) ELSE asked) /\ UNCHANGED alive
Closed == phase' = "closed" /\ alive' = FALSE /\ asked' = <<>> /\ UNCHANGED lines
Fault == faults < MaxFaults /\ faults' = faults + 1 /\ UNCHANGED notes
Refuse == Tell(tag, "NO") /\ Closed

-----------------------------------------------------------------------------
(* Before the login *)

\* init_db once more (SchemaMigration), its failure a warning; the greeting is the
\* proxy's own.
Greet ==
    /\ phase = "greet" /\ phase' = "command"
    /\ UNCHANGED <<loginVars, specialUse, clientVars, upstreamVars, toldVars, accepted, gaveUp, boundVars>>

\* CAPABILITY is answered here, any other command and mechanism refused.
AnswerHere ==
    /\ phase = "command" /\ inbox # <<>> /\ Head(inbox)[2] \in {"CAPABILITY", "OTHER", "MECH", "payload"}
    /\ Tell(Head(inbox)[1], IF Head(inbox)[2] = "CAPABILITY" THEN "OK" ELSE "NO")
    /\ inbox' = Tail(inbox)
    /\ UNCHANGED <<phase, loginVars, specialUse, sent, upstreamVars, accepted, gaveUp, boundVars>>

Logout ==
    /\ phase = "command" /\ inbox # <<>> /\ Head(inbox)[2] = "LOGOUT"
    /\ Tell(Head(inbox)[1], "OK") /\ Closed
    /\ inbox' = Tail(inbox)
    /\ UNCHANGED <<loginVars, specialUse, sent, accepted, gaveUp, boundVars>>

TakeLogin ==
    /\ phase = "command" /\ inbox # <<>> /\ Head(inbox)[2] \in {"LOGIN", "PLAIN", "AUTH"}
    /\ phase' = IF Head(inbox)[2] = "AUTH" THEN "challenge" ELSE "attempt"
    /\ tag' = Head(inbox)[1] /\ inbox' = Tail(inbox)
    /\ UNCHANGED <<oauth, verified, specialUse, sent, upstreamVars, toldVars, accepted, gaveUp, boundVars>>

\* "+ ": the next line is the payload, whatever it is; one that cannot be decoded
\* is an attempt of nobody.
TakePayload ==
    /\ phase = "challenge" /\ inbox # <<>>
    /\ inbox' = Tail(inbox)
    /\ IF Head(inbox)[2] = "payload" THEN phase' = "attempt" /\ UNCHANGED <<upstreamVars, toldVars>>
                                     ELSE Refuse
    /\ UNCHANGED <<loginVars, specialUse, sent, accepted, gaveUp, boundVars>>

\* start_attempt, verify_agent_login: a refusal ends the connection.
Attempt ==
    /\ phase = "attempt"
    /\ \/ phase' = "verify" /\ UNCHANGED <<upstreamVars, toldVars>>
       \/ Refuse
    /\ UNCHANGED <<loginVars, specialUse, clientVars, accepted, gaveUp, boundVars>>

Verify ==
    /\ phase = "verify"
    /\ \/ /\ verified' = TRUE /\ phase' = (IF oauth THEN "connect" ELSE "fetch")
          /\ UNCHANGED <<upstreamVars, toldVars>>
       \/ Refuse /\ UNCHANGED verified
    /\ UNCHANGED <<tag, oauth, specialUse, clientVars, accepted, gaveUp, boundVars>>

-----------------------------------------------------------------------------
(* The login upstream *)

\* fetch_credential.
Fetch ==
    /\ phase = "fetch" /\ phase' = "connect"
    /\ UNCHANGED <<loginVars, specialUse, clientVars, upstreamVars, toldVars, accepted, gaveUp, boundVars>>

\* An exception that nothing here catches: the connection is closed, no answer.
Raises ==
    /\ phase \in {"verify", "fetch", "token"} /\ Fault
    /\ Closed
    /\ UNCHANGED <<loginVars, specialUse, clientVars, toldVars, accepted, gaveUp>>

Connect ==
    /\ phase = "connect" /\ phase' = "hello"
    /\ alive' = TRUE /\ lines' = <<"hello">>
    /\ UNCHANGED <<loginVars, specialUse, clientVars, asked, toldVars, accepted, gaveUp, boundVars>>

Unreachable ==
    /\ phase = "connect" /\ Fault /\ Refuse
    /\ UNCHANGED <<loginVars, specialUse, clientVars, accepted, gaveUp>>

\* readline: a line, or nothing at the end of the stream.
Eof == ~alive /\ lines = <<>>
Line == IF lines = <<>> THEN "eof" ELSE Head(lines)
Readable == lines # <<>> \/ Eof
Read == lines' = IF lines = <<>> THEN lines ELSE Tail(lines)

\* The greeting is read, not forwarded; nothing is not an error.
Hello ==
    /\ phase = "hello" /\ Readable /\ Read
    /\ IF oauth THEN phase' = "token" /\ UNCHANGED <<alive, asked>>
                ELSE phase' = "auth" /\ Ask("login")
    /\ UNCHANGED <<loginVars, specialUse, clientVars, toldVars, accepted, gaveUp, boundVars>>

Token ==
    /\ phase = "token"
    /\ \/ phase' = "auth" /\ Ask("xoauth2") /\ UNCHANGED <<lines, toldVars, boundVars>>
       \/ Fault /\ Refuse
    /\ UNCHANGED <<loginVars, specialUse, clientVars, accepted, gaveUp>>

\* Untagged lines before the answer are forwarded, and searched for SPECIAL-USE.
Untagged ==
    /\ phase = "auth" /\ Line \in {"note", "special"} /\ Read
    /\ specialUse' = (specialUse \/ Line = "special")
    /\ UNCHANGED <<phase, loginVars, clientVars, alive, asked, toldVars, accepted, gaveUp, boundVars>>

\* (mutant) what is not a challenge is taken for success
AuthOkLoosely ==
    /\ phase = "auth" /\ Line \in {"OK", "NO"} /\ Read
    /\ Tell(tag, "OK") /\ phase' = "list" /\ Ask("list")
    /\ UNCHANGED <<loginVars, specialUse, clientVars, accepted, gaveUp, boundVars>>

\* _discover_special_use begins with the question that is left.
AuthOk ==
    /\ phase = "auth" /\ Line = "OK" /\ Read
    /\ Tell(tag, "OK")
    /\ phase' = (IF specialUse THEN "list" ELSE "caps") /\ Ask(IF specialUse THEN "list" ELSE "caps")
    /\ UNCHANGED <<loginVars, specialUse, clientVars, accepted, gaveUp, boundVars>>

\* (mutant) the end of the stream is one more line to skip
AuthNoOnly ==
    /\ phase = "auth" /\ Line = "NO"
    /\ IF oauth THEN Refuse
       ELSE phase' = "pumps" /\ Read /\ Tell(tag, "NO") /\ UNCHANGED <<alive, asked>>
    /\ UNCHANGED <<loginVars, specialUse, clientVars, accepted, gaveUp, boundVars>>

\* A refused XOAUTH2 closes the connection.  A refused LOGIN is forwarded, and the
\* pumps start nonetheless; so it is with a "+ " and with the end of the stream.
AuthNo ==
    /\ phase = "auth" /\ Line \in {"NO", "eof"} /\ Readable
    /\ IF oauth THEN Refuse
       ELSE /\ phase' = "pumps" /\ Read /\ UNCHANGED <<alive, asked>>
            /\ IF Line = "NO" THEN Tell(tag, "NO") ELSE UNCHANGED toldVars
    /\ UNCHANGED <<loginVars, specialUse, clientVars, accepted, gaveUp, boundVars>>

AuthPlus ==
    /\ phase = "auth" /\ Line = "plus" /\ Read
    /\ IF oauth THEN phase' = "abort" /\ Ask("abort") ELSE phase' = "pumps" /\ UNCHANGED <<alive, asked>>
    /\ UNCHANGED <<loginVars, specialUse, clientVars, toldVars, accepted, gaveUp, boundVars>>

\* (mutant) the empty line is sent and the pumps start: the NO is read there
AbortThenPump ==
    /\ phase = "abort" /\ phase' = "pumps" /\ Tell(tag, "NO")
    /\ UNCHANGED <<loginVars, specialUse, clientVars, upstreamVars, accepted, gaveUp, boundVars>>

\* The empty line completes the exchange; the NO that is read is not forwarded.
Abort ==
    /\ phase = "abort" /\ Readable /\ Refuse
    /\ UNCHANGED <<loginVars, specialUse, clientVars, accepted, gaveUp, boundVars>>

-----------------------------------------------------------------------------
(* Discovery of SPECIAL-USE folders *)

\* Lines that are collected.
Collect ==
    /\ phase \in Questions /\ Line \in {"note", "special"} /\ Read
    /\ specialUse' = (specialUse \/ Line = "special")
    /\ UNCHANGED <<phase, loginVars, clientVars, alive, asked, toldVars, accepted, gaveUp, boundVars>>

\* (mutant) the LIST is asked for and left to the pumps
CapsThenPump ==
    /\ phase = "caps" /\ Line = "caps" /\ Read /\ phase' = "pumps"
    /\ IF specialUse THEN Ask("list") ELSE UNCHANGED <<alive, asked>>
    /\ UNCHANGED <<loginVars, specialUse, clientVars, toldVars, accepted, gaveUp, boundVars>>

CapsEnd ==
    /\ phase = "caps" /\ Line = "caps" /\ Read
    /\ IF specialUse THEN phase' = "list" /\ Ask("list") ELSE phase' = "pumps" /\ UNCHANGED <<alive, asked>>
    /\ UNCHANGED <<loginVars, specialUse, clientVars, toldVars, accepted, gaveUp, boundVars>>

ListEnd ==
    /\ phase = "list" /\ Line = "list" /\ Read /\ phase' = "pumps"
    /\ UNCHANGED <<loginVars, specialUse, clientVars, alive, asked, toldVars, accepted, gaveUp, boundVars>>

\* The deadline passes, the cap on lines is reached, or the stream ends.
GiveUp ==
    /\ phase \in Questions /\ phase' = "pumps" /\ gaveUp' = TRUE
    /\ UNCHANGED <<loginVars, specialUse, clientVars, upstreamVars, toldVars, accepted, boundVars>>

\* The upstream pump (LineRelay) as far as what was begun above is concerned.
Pump ==
    /\ phase = "pumps" /\ lines # <<>> /\ Read
    /\ answers' = (IF Line \in {"OK", "NO"} THEN Append(answers, <<tag, Line>>) ELSE answers)
    /\ leaked' = leaked \cup ({Line} \cap Questions)
    /\ UNCHANGED <<phase, loginVars, specialUse, clientVars, alive, asked, accepted, gaveUp, boundVars>>

PumpEnds ==
    /\ phase = "pumps" /\ Eof /\ phase' = "closed"
    /\ UNCHANGED <<loginVars, specialUse, clientVars, upstreamVars, toldVars, accepted, gaveUp, boundVars>>

-----------------------------------------------------------------------------
(* The client and the upstream server *)

Send(verb) ==
    /\ sent < MaxCommands /\ sent' = sent + 1
    /\ inbox' = Append(inbox, <<sent', verb>>)
    /\ UNCHANGED <<phase, loginVars, specialUse, upstreamVars, toldVars, accepted, gaveUp, boundVars>>

\* The client has gone: its next read ends the connection.
HangUp ==
    /\ phase \in {"command", "challenge"} /\ inbox = <<>> /\ Closed
    /\ UNCHANGED <<loginVars, specialUse, clientVars, toldVars, accepted, gaveUp, boundVars>>

\* What may answer each request; the challenge is answered by an abort first.
Answers(request) ==
    CASE request \in {"login", "xoauth2"} ->
              {<<"OK">>, <<"special", "OK">>, <<"NO">>} \cup (IF request = "xoauth2" THEN {<<"plus">>} ELSE {})
      [] request = "abort" -> {<<"NO">>}
      [] request = "caps" -> {<<"special", "caps">>, <<"note", "caps">>}
      [] OTHER -> {<<"list">>}

Serve ==
    /\ alive /\ asked # <<>>
    /\ \E answer \in Answers(Head(asked)) :
          /\ lines' = lines \o answer
          /\ accepted' = (accepted \/ (Head(asked) \in {"login", "xoauth2"} /\ answer[Len(answer)] = "OK"))
    /\ asked' = Tail(asked)
    /\ UNCHANGED <<phase, loginVars, specialUse, clientVars, alive, toldVars, gaveUp, boundVars>>

Note ==
    /\ alive /\ notes < MaxNotes /\ notes' = notes + 1 /\ lines' = Append(lines, "note")
    /\ UNCHANGED <<phase, loginVars, specialUse, clientVars, alive, asked, toldVars, accepted, gaveUp, faults>>

UpstreamCloses ==
    /\ alive /\ Fault /\ alive' = FALSE /\ asked' = <<>>
    /\ UNCHANGED <<phase, loginVars, specialUse, clientVars, lines, toldVars, accepted, gaveUp>>

\* What the coroutine does by itself.
Handler ==
    \/ Greet \/ AnswerHere \/ Logout \/ TakeLogin \/ TakePayload \/ Attempt \/ Verify
    \/ Fetch \/ Raises \/ Connect \/ Unreachable \/ Hello \/ Token
    \/ Untagged \/ AuthOk \/ AuthNo \/ AuthPlus \/ Abort
    \/ Collect \/ CapsEnd \/ ListEnd \/ GiveUp \/ Pump \/ PumpEnds

Next == Handler \/ (\E v \in Verbs : Send(v)) \/ HangUp \/ Serve \/ Note \/ UpstreamCloses

Spec == Init /\ [][Next]_vars

\* The event loop runs the coroutine when it can go on, the upstream answers.
FairSpec == Spec /\ WF_vars(Handler) /\ WF_vars(Serve)

-----------------------------------------------------------------------------
(* Properties *)

\* Commands are answered in order, each once, the login too, whatever the upstream
\* sends and whoever answers; and it is answered OK only if the agent was verified
\* here and the upstream has accepted the real credentials.
\* gateway/proxy.py:1845 - one line read too few "mistakes the CAPABILITY response
\* for an auth failure".
LoginAnswerIsTrue ==
    /\ \A i, j \in DOMAIN answers : i < j => answers[i][1] < answers[j][1]
    /\ \A i \in DOMAIN answers : answers[i] = <<tag, "OK">> => verified /\ accepted

\* The proxy's own questions and the answers to them stay out of the client's
\* stream, unless the discovery was given up.
\* gateway/proxy.py:294 - "the proxy has exclusive use of the upstream stream and
\* can consume the responses without leaking them to the client".
DiscoveryIsHidden == leaked # {} => gaveUp

\* A login ends: in the pumps, or with the connection closed, however the
\* discovery goes, as long as the upstream answers or closes.
LoginEnds == phase = "attempt" ~> phase \in {"pumps", "closed"}

(* What comments say and the code does not keep to *)

\* gateway/proxy.py:252-253 - stray lines "surface to the client as unsolicited
\* responses, which IMAP clients are required to tolerate": the tagged end of the
\* exchange is none.
StraysAreUntagged == leaked = {}

\* gateway/proxy.py:1557-1560 - "Rewrite LOGIN with upstream_user +
\* upstream_password -> forward", then the pumps: they start after a refused LOGIN
\* too, and stage what the agent sends.
PumpsAreLoggedIn == phase = "pumps" => accepted

=============================================================================
