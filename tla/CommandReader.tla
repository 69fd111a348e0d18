----------------------------- MODULE CommandReader -----------------------------
(***************************************************************************)
(* How _client_to_upstream (gateway/proxy.py) cuts what the agent sends into *)
(* command lines and literals, which literals it asks for, reads and throws  *)
(* away, and what becomes of the command: the two sides must agree on every  *)
(* byte, although the proxy refuses most literals and the client sends       *)
(* non-synchronizing ones without asking.                                   *)
(*                                                                         *)
(* A command is a verb and its literals; its line number p ends in literal   *)
(* number p, the last one in none.  What is done with a command that was     *)
(* read is in ImapSession.                                                  *)
(***************************************************************************)
EXTENDS Naturals, Sequences, FiniteSets, SequencesExt, FiniteSetsExt

CONSTANTS
    MaxScript     \* bound on the commands of a client

ReaderAssumption == MaxScript \in Nat

VARIABLES
    script, waiting, gone,  \* the client: commands begun, the literal it waits
                            \* to be asked for, has it hung up?
    input,                  \* what the client sent and the proxy has not read
    reading, hand,          \* what is read next; the line of a command in hand
    replies,                \* answers, and continuations, in their order
    forwarded, kept         \* commands sent upstream; operations staged

vars == <<script, waiting, gone, input, reading, hand, replies, forwarded, kept>>

\* A literal is empty, fits, or is above _MAX_APPEND_BYTES.
Literals == [sync : BOOLEAN, size : {"empty", "fits", "above"}]
Sync(size) == [sync |-> TRUE, size |-> size]
Command(verb, lits) == [verb |-> verb, lits |-> lits]

\* "sent" is an APPEND to the provider's sent folder, "other" stands for every
\* other verb that carries literals, and for an APPEND of a literal8; "local" for
\* blocked, unknown and answered commands, "bad" for lines with a bare CR or NUL.
Commands ==
    {Command(v, <<>>) : v \in {"read", "write", "local", "bad"}}
    \cup {Command(v, <<l>>) : v \in {"append", "other", "bad"}, l \in Literals}
    \cup {Command("append", <<l, m>>) : l \in {Sync("fits"), [sync |-> FALSE, size |-> "fits"]},
                                        m \in Literals}
    \cup {Command("sent", <<Sync("fits")>>)}

NoLine == [cmd |-> 0, part |-> 0]
Tokens == [what : {"line", "data"}, cmd : 1 .. MaxScript, part : 1 .. 3, whole : BOOLEAN]

Parts(c) == Len(c.lits) + 1
Ends(t) == t.part = Parts(script[t.cmd]) \/ ~t.whole     \* the line has no literal
Literal(t) == script[t.cmd].lits[t.part]
AsksFirst(t) == ~Ends(t) /\ Literal(t).sync
SendsOn(t) == ~Ends(t) /\ ~Literal(t).sync

\* The client waits at a literal of its last command; only the last piece of what
\* was under way may be cut, when the client has gone.
TypeOK ==
    /\ script \in Seq(Commands) /\ Len(script) <= MaxScript
    /\ waiting \in 0 .. 2 /\ gone \in BOOLEAN
    /\ \A k \in DOMAIN input : input[k] \in Tokens /\ (input[k].whole \/ (gone /\ k = Len(input)))
    /\ reading \in {"command", "body", "rest", "discard", "tail", "stage", "lost", "closed"}
    /\ reading \in {"body", "rest", "discard", "tail", "stage"} => hand.cmd \in DOMAIN script
    /\ \A o \in kept : o.cmd \in DOMAIN script

Init ==
    /\ script = <<>> /\ waiting = 0 /\ gone = FALSE
    /\ input = <<>> /\ reading = "command" /\ hand = NoLine
    /\ replies = <<>> /\ forwarded = {} /\ kept = {}

-----------------------------------------------------------------------------
(* The client (external)                                                    *)

Token(what, i, p) == <<[what |-> what, cmd |-> i, part |-> p, whole |-> TRUE]>>
Data(c, i, p) == IF c.lits[p].size = "empty" THEN <<>> ELSE Token("data", i, p)

\* The line of command number i it stops at, sending from line p on.
Stop(c, p) == Min({q \in p .. Parts(c) : q = Parts(c) \/ c.lits[q].sync})

\* The lines from p on, each after the literal before it.
Lines(c, i, p) ==
    FlattenSeq([k \in 1 .. Stop(c, p) - p + 1 |->
        LET q == p + k - 1 IN (IF q = 1 THEN <<>> ELSE Data(c, i, q - 1)) \o Token("line", i, q)])

Sends(c, i, p) ==
    /\ input' = input \o Lines(c, i, p)
    /\ waiting' = IF Stop(c, p) = Parts(c) THEN 0 ELSE Stop(c, p)

Answers(i) == {r \in ToSet(replies) : r.cmd = i /\ r.kind # "plus"}
Latest == Len(script)

\* It does not wait for the answer to one command to send the next.
ClientBegins ==
    /\ ~gone /\ reading # "closed" /\ waiting = 0 /\ Latest < MaxScript
    /\ \E c \in Commands : script' = Append(script, c) /\ Sends(c, Latest + 1, 1)
    /\ UNCHANGED <<gone, reading, hand, replies, forwarded, kept>>

ClientGoesOn ==
    /\ ~gone /\ waiting > 0
    /\ \E k \in DOMAIN replies : replies[k] = [cmd |-> Latest, kind |-> "plus", part |-> waiting]
    /\ Sends(script[Latest], Latest, waiting + 1)
    /\ UNCHANGED <<script, gone, reading, hand, replies, forwarded, kept>>

\* Refused: it must not send the literal.
ClientGivesUp ==
    /\ ~gone /\ waiting > 0 /\ Answers(Latest) # {}
    /\ waiting' = 0
    /\ UNCHANGED <<script, gone, input, reading, hand, replies, forwarded, kept>>

\* Of what was under way any beginning arrives, cut anywhere.
ClientGone ==
    /\ ~gone /\ gone' = TRUE
    /\ \E n \in 0 .. Len(input), whole \in BOOLEAN :
          input' = [k \in 1 .. n |-> [input[k] EXCEPT !.whole = (whole \/ k < n)]]
    /\ UNCHANGED <<script, waiting, reading, hand, replies, forwarded, kept>>

Client == ClientBegins \/ ClientGoesOn \/ ClientGivesUp

-----------------------------------------------------------------------------
(* _client_to_upstream *)

Reply(i, kind) == replies' = Append(replies, [cmd |-> i, kind |-> kind, part |-> 0])

\* What the client sent next is what the proxy takes it for.
InPlace(t) ==
    CASE reading = "command" -> t.what = "line" /\ t.part = 1
      [] reading \in {"body", "discard"} -> t = [hand EXCEPT !.what = "data", !.whole = t.whole]
      [] reading \in {"rest", "tail"} -> t.what = "line" /\ t.cmd = hand.cmd /\ t.part = hand.part + 1

\* The next piece is read.
Take(r) ==
    /\ reading = r /\ input # <<>> /\ InPlace(Head(input))
    /\ input' = Tail(input)
    /\ UNCHANGED <<script, waiting, gone>>

\* The connection ends, and whoever asks for more bytes finds out.
NoMore(r) == reading = r /\ input = <<>> /\ gone /\ UNCHANGED <<script, waiting, gone, input>>

Verb(i) == script[i].verb

\* After the data come as lines and the lines as data, which is not followed.
LoseStep ==
    /\ reading \notin {"stage", "lost", "closed"} /\ input # <<>> /\ ~InPlace(Head(input))
    /\ reading' = "lost"
    /\ UNCHANGED <<script, waiting, gone, input, hand, replies, forwarded, kept>>

RejectBad ==
    /\ Take("command")
    /\ LET t == Head(input) IN Verb(t.cmd) = "bad" /\ Reply(t.cmd, "bad")
    /\ UNCHANGED <<reading, hand, forwarded, kept>>

\* Before the continuation: the client does not send the literal.
RefuseSync ==
    /\ Take("command")
    /\ LET t == Head(input) IN
          Verb(t.cmd) = "other" /\ AsksFirst(t) /\ Reply(t.cmd, "no")
    /\ UNCHANGED <<reading, hand, forwarded, kept>>

\* The continuation; an empty literal is not read.
BeginAppend ==
    /\ Take("command")
    /\ LET t == Head(input) IN
          /\ Verb(t.cmd) \in {"append", "sent"} /\ AsksFirst(t)
          /\ replies' = Append(replies, [cmd |-> t.cmd, kind |-> "plus", part |-> 1])
          /\ hand' = t
          /\ reading' = IF Literal(t).size = "empty" THEN "rest" ELSE "body"
    /\ UNCHANGED <<forwarded, kept>>

TakeBody ==
    /\ Take("body")
    /\ reading' = IF Head(input).whole THEN "rest" ELSE "closed"
    /\ UNCHANGED <<hand, replies, forwarded, kept>>

\* _discard_nonsync_literals: an empty literal is not read, and the connection ends
\* rather than read one above the bound.
BeginDiscard(t) ==
    CASE Literal(t).size = "empty" -> reading' = "tail" /\ UNCHANGED replies
      [] Literal(t).size = "fits"  -> reading' = "discard" /\ UNCHANGED replies
      [] Literal(t).size = "above" -> reading' = "closed" /\ Reply(t.cmd, "bye")

\* (mutant) a second message is not noticed
TakeRestAsEnd ==
    /\ Take("rest") /\ hand' = Head(input) /\ reading' = "stage"
    /\ UNCHANGED <<replies, forwarded, kept>>

\* The rest of the command line, which may announce another message.
TakeRest ==
    /\ Take("rest") /\ hand' = Head(input)
    /\ LET t == Head(input) IN
          \/ Ends(t) /\ reading' = "stage" /\ UNCHANGED replies
          \/ AsksFirst(t) /\ Reply(t.cmd, "no") /\ reading' = "command"
          \/ SendsOn(t) /\ BeginDiscard(t)
    /\ UNCHANGED <<forwarded, kept>>

\* At the end of the stream readline returns the empty line.
RestAtEnd ==
    /\ NoMore("rest") /\ reading' = "stage"
    /\ UNCHANGED <<hand, replies, forwarded, kept>>

\* create_operation, or suppress_append; the answer is the same when it raises.
StageAppend ==
    /\ reading = "stage" /\ reading' = "command"
    /\ Reply(hand.cmd, "ok")
    /\ \/ /\ Verb(hand.cmd) # "sent"
          /\ kept' = kept \cup {[cmd |-> hand.cmd, body |-> script[hand.cmd].lits[1].size = "fits"]}
       \/ UNCHANGED kept
    /\ UNCHANGED <<script, waiting, gone, input, hand, forwarded>>

RefuseNonsync ==
    /\ Take("command") /\ hand' = Head(input)
    /\ Verb(hand'.cmd) # "bad" /\ SendsOn(hand')
    /\ BeginDiscard(hand')
    /\ UNCHANGED <<forwarded, kept>>

Discard ==
    /\ Take("discard")
    /\ reading' = IF Head(input).whole THEN "tail" ELSE "closed"
    /\ UNCHANGED <<hand, replies, forwarded, kept>>

\* (mutant) one literal is discarded
TakeTailAsEnd ==
    /\ Take("tail") /\ hand' = Head(input)
    /\ Reply(hand.cmd, "no") /\ reading' = "command"
    /\ UNCHANGED <<forwarded, kept>>

\* The line goes on after the literal, perhaps with another.
TakeTail ==
    /\ Take("tail") /\ hand' = Head(input)
    /\ IF SendsOn(hand') THEN BeginDiscard(hand')
                         ELSE reading' = "command" /\ Reply(hand.cmd, "no")
    /\ UNCHANGED <<forwarded, kept>>

\* A line without literals.  At the end of the stream readline returns what there
\* is of it, and no one can tell which verb, or how many UIDs, were cut off.
Dispatch ==
    /\ Take("command")
    /\ LET t == Head(input) IN
          /\ Ends(t) /\ (Verb(t.cmd) # "bad" \/ ~t.whole)
          /\ \E verb \in IF t.whole THEN {Verb(t.cmd)} ELSE {"read", "write", "local"} :
                \/ verb = "read" /\ forwarded' = forwarded \cup {t.cmd} /\ UNCHANGED <<replies, kept>>
                \/ /\ verb = "write" /\ Reply(t.cmd, "ok") /\ UNCHANGED forwarded
                   /\ \/ kept' = kept \cup {[cmd |-> t.cmd, body |-> FALSE]}
                      \/ UNCHANGED kept
                \/ verb = "local" /\ Reply(t.cmd, "no") /\ UNCHANGED <<forwarded, kept>>
    /\ UNCHANGED <<reading, hand>>

ReaderStops ==
    /\ \E r \in {"command", "body", "discard", "tail"} : NoMore(r)
    /\ reading' = "closed"
    /\ UNCHANGED <<hand, replies, forwarded, kept>>

Reader ==
    \/ RejectBad \/ RefuseSync \/ BeginAppend \/ TakeBody \/ TakeRest \/ RestAtEnd \/ StageAppend
    \/ RefuseNonsync \/ Discard \/ TakeTail \/ Dispatch
    \/ LoseStep \/ ReaderStops

Next == Client \/ ClientGone \/ Reader

Spec == Init /\ [][Next]_vars

\* The task runs on; the client sends what it is asked for and takes a refusal for
\* one, or hangs up.
FairSpec == Spec /\ WF_vars(Reader) /\ WF_vars(ClientGoesOn \/ ClientGivesUp)

-----------------------------------------------------------------------------
(* Properties *)

\* Client and proxy agree where each command begins, whatever literals were
\* refused, discarded or left unasked for, except after a line with a bare CR or
\* NUL whose literal the client did send.
\* gateway/proxy.py:540 - the literal is "discarded here, never forwarded".
InStep == reading = "lost" => \E i \in DOMAIN script : Verb(i) = "bad" /\ script[i].lits # <<>>

\* A literal is stored as the body of the operation if it fits, and a client that
\* stays finds its APPEND staged only when it was told OK, for the one message it
\* sent; a command with any other literal is refused and leaves nothing anywhere;
\* none is answered twice, nor out of turn.
\* gateway/proxy.py:688 - "the whole command fails and nothing is staged".
AppendIsWhole ==
    /\ \A o \in kept :
          LET lits == script[o.cmd].lits IN
          ~gone => /\ Answers(o.cmd) # {} /\ \A r \in Answers(o.cmd) : r.kind = "ok"
                   /\ lits # <<>> => Verb(o.cmd) = "append" /\ Len(lits) = 1 /\ lits[1].sync
                   /\ o.body <=> lits = <<Sync("fits")>>
    /\ ~gone => \A i \in forwarded : script[i].lits = <<>>
    /\ \A k, l \in DOMAIN replies :
          k < l => \/ replies[k].cmd < replies[l].cmd
                   \/ replies[k].cmd = replies[l].cmd /\ replies[k].kind = "plus"

\* Every command is answered or forwarded, or the connection ends; neither side
\* waits for the other for ever.
CommandsEnd ==
    \A i \in 1 .. MaxScript : Len(script) >= i ~>
        \/ i \in forwarded \/ Answers(i) # {}
        \/ reading \in {"lost", "closed"} \/ gone

(* What comments say and the code does not keep to *)

\* gateway/proxy.py:688 - "RFC 3502 makes MULTIAPPEND atomic, so the whole command
\* fails and nothing is staged": when the connection ends after the first message,
\* that one is staged.
MultiappendIsAtomic ==
    \A o \in kept : Len(script[o.cmd].lits) < 2

\* gateway/proxy.py:595 - "Fails closed": a line cut off by the end of the
\* connection is a command like any other.
CutLinesAreDropped ==
    gone => \A o \in kept : Verb(o.cmd) \in {"write", "append"}

=============================================================================
