------------------------------ MODULE LineRelay ------------------------------
(***************************************************************************)
(* gateway/proxy.py, _upstream_to_client: the pump that cuts the upstream    *)
(* byte stream into response lines, rewrites or suppresses some of them and *)
(* relays announced literals verbatim.  Chunks of the stream end where TCP  *)
(* pleases.                                                                 *)
(*                                                                         *)
(* The stream is a sequence of fragments.  A response line is a head and an *)
(* end, the end holding the CRLF and, where the line announces a literal,   *)
(* its {N}; a literal is LiteralSize fragments that look like a line "exists".*)
(***************************************************************************)
EXTENDS Naturals, Sequences, SequencesExt

CONSTANTS
    MaxUnits,     \* bound on the responses of a stream
    MaxChunk      \* bound on the fragments of a chunk (_READ_CHUNK)

RelayAssumption == MaxUnits \in Nat \ {0} /\ MaxChunk \in Nat \ {0}

VARIABLES
    stream,         \* what the upstream sends
    splits,         \* do chunks also end in the middle of a response line?
    got,            \* fragments received; those after done are the buffer
    done,           \* fragments relayed or suppressed
    literal,        \* literal_remaining, in fragments
    afterLiteral,   \* after_literal
    out             \* what the client was sent: [at, rewritten]

vars == <<stream, splits, got, done, literal, afterLiteral, out>>

LiteralSize == 2

Line(kind)  == <<[line |-> kind, part |-> "head", body |-> FALSE],
                 [line |-> kind, part |-> "end",  body |-> FALSE]>>
Literal     == <<[line |-> "exists", part |-> "head", body |-> TRUE],
                 [line |-> "exists", part |-> "end",  body |-> TRUE]>>

\* Untagged and tagged responses; "* N EXISTS"; a FETCH of a message whose MOVE
\* is pending; responses with one literal, and with two; a FETCH of the UID
\* and a literal, of a message that is not and that is pending MOVE.
Units == {
    Line("data"), Line("exists"), Line("moved"),
    Line("announce") \o Literal \o Line("data"),
    Line("announce") \o Literal \o Line("announce") \o Literal \o Line("data"),
    Line("fetch_literal") \o Literal \o Line("data"),
    Line("moved_literal") \o Literal \o Line("data")}

Announcing == {"announce", "fetch_literal", "moved_literal"}

Init ==
    /\ \E n \in 1 .. MaxUnits : \E u \in [1 .. n -> Units] : stream = FlattenSeq(u)
    /\ splits \in BOOLEAN
    /\ got = 0 /\ done = 0
    /\ literal = 0 /\ afterLiteral = FALSE
    /\ out = <<>>

Ends == {i \in done + 1 .. got : stream[i].part = "end"}
FirstEnd == CHOOSE i \in Ends : \A j \in Ends : i <= j

\* The loop has used up what it can of the buffer.
Drained == IF literal > 0 THEN got = done ELSE Ends = {}

Forward(to, rewritten) ==
    out' = out \o [k \in 1 .. to - done |-> [at |-> done + k, rewritten |-> rewritten]]

ReadChunk ==
    /\ Drained /\ got = done /\ got < Len(stream)
    /\ \E n \in 1 .. MaxChunk :
          /\ got + n <= Len(stream)
          /\ splits \/ stream[got + n].part = "end" \/ stream[got + n].body
          /\ got' = got + n
    /\ UNCHANGED <<stream, splits, done, literal, afterLiteral, out>>

RelayLiteral ==
    /\ literal > 0 /\ got > done
    /\ LET n == IF got - done < literal THEN got - done ELSE literal
       IN  /\ Forward(done + n, FALSE)
           /\ done' = done + n
           /\ literal' = literal - n
           /\ afterLiteral' = (literal = n)
    /\ UNCHANGED <<stream, splits, got>>

\* What the pump takes the first line of the buffer for: a line whose head
\* has gone out before matches none of its patterns.
LineKind == IF stream[done + 1].part = "head" THEN stream[done + 1].line ELSE "rest"

\* (mutant) continues_response is forgotten
AnnouncesAtStartOnly(e) == stream[e].line \in Announcing /\ LineKind # "rest" /\ ~afterLiteral

\* A data response, or the line after a literal, may announce a literal.
Announces(e) ==
    /\ stream[e].line \in Announcing
    /\ LineKind # "rest" \/ afterLiteral

\* (mutant) the suppressed line stays in the buffer
SuppressNothing ==
    /\ literal = 0 /\ Ends # {} /\ LineKind = "moved"
    /\ UNCHANGED vars

\* The message is pending MOVE: the agent must not see it any more.  Lines that
\* announce a literal are dealt with before this test.
SuppressFetch ==
    /\ literal = 0 /\ Ends # {} /\ LineKind = "moved"
    /\ done' = FirstEnd /\ afterLiteral' = FALSE
    /\ UNCHANGED <<stream, splits, got, literal, out>>

ForwardLine ==
    /\ literal = 0 /\ Ends # {} /\ LineKind # "moved"
    /\ Forward(FirstEnd, LineKind = "exists")
    /\ done' = FirstEnd
    /\ literal' = IF Announces(FirstEnd) THEN LiteralSize ELSE 0
    /\ afterLiteral' = FALSE
    /\ UNCHANGED <<stream, splits, got>>

\* The beginning of a line is sent on as it is and the buffer emptied.
ForwardPartial ==
    /\ literal = 0 /\ Ends = {} /\ got > done
    /\ Forward(got, FALSE)
    /\ done' = got
    /\ UNCHANGED <<stream, splits, got, literal, afterLiteral>>

Next == ReadChunk \/ RelayLiteral \/ SuppressFetch \/ ForwardLine \/ ForwardPartial

Spec == Init /\ [][Next]_vars

\* The upstream goes on sending and the pump's task goes on running.
FairSpec == Spec /\ WF_vars(Next)

-----------------------------------------------------------------------------
(* Properties *)

\* The relay is never ahead of what it received, nor past the end of a literal.
TypeOK ==
    /\ done \in 0 .. got /\ got \in 0 .. Len(stream)
    /\ literal \in 0 .. LiteralSize /\ afterLiteral \in BOOLEAN
    /\ \A k \in DOMAIN out : out[k].at \in 1 .. done

\* However the stream is cut, the client gets every fragment but those of
\* suppressed lines, once and in order.
NothingLost ==
    /\ \A k \in 2 .. Len(out) : out[k - 1].at < out[k].at
    /\ \A i \in 1 .. done : stream[i].line = "moved" \/ \E k \in DOMAIN out : out[k].at = i

\* gateway/proxy.py:1221 - literal bytes "are relayed verbatim and never
\* treated as response lines": the client, who counts them, stays in step.  It
\* holds as long as no chunk ends inside the line that announces the literal.
LiteralsVerbatim ==
    ~splits => \A i \in 1 .. done : stream[i].body => [at |-> i, rewritten |-> FALSE] \in ToSet(out)

\* gateway/proxy.py:1524 - "These partial bytes will be re-buffered on the next
\* chunk".  They are not, so that it takes chunks of whole lines for every line to
\* be filtered.
FiltersApply ==
    ~splits => \A k \in DOMAIN out :
        LET f == stream[out[k].at] IN
        /\ f.line # "moved"
        /\ f.line = "exists" /\ ~f.body => out[k].rewritten

\* The agent never sees a FETCH of a message whose MOVE is pending.
\* gateway/proxy.py:1422 - "Suppress FETCH lines for UIDs that are pending MOVE
\* from the current folder."
MovedIsHidden ==
    \A k \in DOMAIN out : stream[out[k].at].line \notin {"moved", "moved_literal"}

\* Nothing the upstream sent is held back for ever.
AllIsRelayed == <>(done = Len(stream))

=============================================================================
