------------------------------ MODULE MCStartup ------------------------------
(***************************************************************************)
(* Instances for TLC of what happens before agents are served: init_db in    *)
(* every process that starts (SchemaMigration), the login of an IMAP         *)
(* connection (ImapLogin), and an operator's scripts over the credentials    *)
(* (SecretScripts).  They share no variable: a behaviour moves one `part`.   *)
(***************************************************************************)
EXTENDS SchemaMigration, Sequences

CONSTANTS
    MaxCommands, MaxNotes,      \* of ImapLogin
    MaxKeys, MaxRefs            \* of SecretScripts

VARIABLES
    part,                                                           \* the one that moves
    phase, tag, oauth, verified, specialUse, inbox, sent, alive, asked, lines,
    answers, leaked, accepted, gaveUp, notes, loginFaults,          \* of ImapLogin
    column, store, puts, hosted, key, rotation, migration, teardown, late, disconnected,
    scriptFaults                                                    \* of SecretScripts

loginVars ==
    <<phase, tag, oauth, verified, specialUse, inbox, sent, alive, asked, lines,
      answers, leaked, accepted, gaveUp, notes, loginFaults>>
scriptVars ==
    <<column, store, puts, hosted, key, rotation, migration, teardown, late, disconnected, scriptFaults>>

Imap == INSTANCE ImapLogin WITH faults <- loginFaults
Scripts == INSTANCE SecretScripts WITH faults <- scriptFaults

ASSUME LoginsAssumption == Imap!LoginAssumption
ASSUME SecretsAssumption == Scripts!ScriptsAssumption

\* Those that do not move start in one of their initial states.
StartupInit ==
    /\ part \in {"schema", "login", "scripts"}
    /\ Init /\ Imap!Init /\ Scripts!Init
    /\ part # "schema" => db.token = "plain" /\ ~db.other /\ db.strays
                          /\ db.credentials.columns = {} /\ db.credentials.notnull
    /\ part # "login" => ~oauth
    /\ part # "scripts" => hosted /\ column = [a \in Agents |-> <<"plain">>]

StartupNext ==
    \/ part = "schema" /\ Next /\ UNCHANGED <<part, loginVars, scriptVars>>
    \/ part = "login" /\ Imap!Next /\ UNCHANGED <<part, vars, scriptVars>>
    \/ part = "scripts" /\ Scripts!Next /\ UNCHANGED <<part, vars, loginVars>>

StartupSpec ==
    /\ StartupInit /\ [][StartupNext]_<<part, vars, loginVars, scriptVars>>
    /\ \A p \in Procs : WF_vars(part = "schema" /\ Statement(p) /\ UNCHANGED faults)
    /\ WF_loginVars(part = "login" /\ Imap!Handler)
    /\ WF_loginVars(part = "login" /\ Imap!Serve)

\* Commands of a connection are answered in order, each once, a login OK only when
\* it was verified here and accepted upstream; and the proxy's own questions stay out
\* of the client's stream, unless they were given up (handle_client,
\* _discover_special_use).
LoginIsTrue == Imap!LoginAnswerIsTrue /\ Imap!DiscoveryIsHidden

\* Each secret in use can be read while the scripts run and wherever they end
\* (rotate_master_key.py, migrate_secrets.py).
SecretsAreReadable == Scripts!SecretsAreReadable

\* The container comes up whatever crashes and collisions there are at first, and
\* each login ends (docker-entrypoint.sh, handle_client).
AgentsAreServed ==
    /\ part = "schema" => ContainerComesUp
    /\ Imap!LoginEnds

=============================================================================
