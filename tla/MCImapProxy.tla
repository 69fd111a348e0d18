----------------------------- MODULE MCImapProxy -----------------------------
(***************************************************************************)
(* Instances for TLC of what the IMAP proxy is made of: the two tasks of a  *)
(* connection (ImapSession), the loop that cuts the upstream's bytes into   *)
(* lines and literals (LineRelay), the reading of the agent's commands       *)
(* (CommandReader) and the readers of UID sets (UidSets).                   *)
(* They share no variable, so that what holds of each while the others      *)
(* stand still holds of all together: a behaviour moves one `part` only.    *)
(***************************************************************************)
EXTENDS ImapSession

CONSTANTS MaxUnits, MaxChunk, MaxUid, MaxScript

VARIABLES
    part,                                                   \* the one that moves
    stream, splits, got, done, literal, afterLiteral, out,  \* of LineRelay
    uids, set,                                              \* of UidSetReaders
    script, waiting, gone, input, reading, hand, replies, forwarded, kept   \* of CommandReader

relayVars == <<stream, splits, got, done, literal, afterLiteral, out>>
setVars   == <<uids, set>>
readVars  == <<script, waiting, gone, input, reading, hand, replies, forwarded, kept>>

Pump == INSTANCE LineRelay
Sets == INSTANCE UidSetReaders
Commands == INSTANCE CommandReader

ASSUME UidsAssumption == MaxUid \in Nat
ASSUME PumpAssumption == Pump!RelayAssumption
ASSUME ReadersAssumption == Commands!ReaderAssumption

RelayStands ==
    /\ stream = <<>> /\ splits = FALSE /\ got = 0 /\ done = 0
    /\ literal = 0 /\ afterLiteral = FALSE /\ out = <<>>
SetsStand == uids = {} /\ set = {}

ProxyInit ==
    \/ part = "session" /\ Init /\ RelayStands /\ SetsStand /\ Commands!Init
    \/ part = "relay" /\ Init /\ ~eager /\ Pump!Init /\ SetsStand /\ Commands!Init
    \/ part = "sets" /\ Init /\ ~eager /\ RelayStands /\ Sets!Init /\ Commands!Init
    \/ part = "reader" /\ Init /\ ~eager /\ RelayStands /\ SetsStand /\ Commands!Init

ProxyNext ==
    \/ part = "session" /\ Next /\ UNCHANGED <<part, relayVars, setVars, readVars>>
    \/ part = "relay" /\ Pump!Next /\ UNCHANGED <<part, vars, setVars, readVars>>
    \/ part = "sets" /\ Sets!Next /\ UNCHANGED <<part, vars, relayVars, readVars>>
    \/ part = "reader" /\ Commands!Next /\ UNCHANGED <<part, vars, relayVars, setVars>>

ProxySpec ==
    /\ ProxyInit /\ [][ProxyNext]_<<part, vars, relayVars, setVars, readVars>>
    /\ WF_vars(part = "session" /\ Staging)
    /\ WF_vars(part = "session" /\ UpstreamToClient)
    /\ WF_vars(part = "session" /\ Upstream)
    /\ WF_relayVars(part = "relay" /\ Pump!Next)
    /\ WF_readVars(part = "reader" /\ Commands!Reader)
    /\ WF_readVars(part = "reader" /\ (Commands!ClientGoesOn \/ Commands!ClientGivesUp))

\* Both streams are read as they were written.  However the upstream's is cut, the
\* client gets all of it but suppressed FETCH lines, once and in order; as long as
\* no chunk ends inside a line the literals are byte for byte and every other line
\* has been through the filters (_upstream_to_client).  The agent's commands are
\* read from where they begin, whatever literals they carry, and an APPEND is
\* staged whole or refused (_client_to_upstream).
\* gateway/proxy.py:1221 - literal bytes "are relayed verbatim and never treated
\* as response lines".
StreamsAreFaithful ==
    /\ Pump!NothingLost /\ Pump!LiteralsVerbatim /\ Pump!FiltersApply
    /\ Commands!InStep /\ Commands!AppendIsWhole

\* Every command the agent has begun is answered, by one task or the other, or the
\* connection ends, and nothing the upstream sent is held back for ever.
AllIsAnswered == CommandsAreAnswered /\ Commands!CommandsEnd /\ Pump!AllIsRelayed

\* The three readers of UID sets: the one that takes snapshots finds what the set
\* denotes, those that hide or patch messages never touch another message, and
\* all agree on plain numbers and ascending ranges (_expand_uid_set,
\* get_pending_move_uids_for_folder, _uid_in_set).
SetsAreRead == Sets!ExpandIsMeaning /\ Sets!ShownOnlyIfMeant /\ Sets!PlainSetsAgree

=============================================================================
