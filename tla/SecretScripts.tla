---------------------------- MODULE SecretScripts ----------------------------
(***************************************************************************)
(* The two scripts an operator runs beside the running services over the    *)
(* secrets in agent_credentials: scripts/rotate_master_key.py encrypts them *)
(* under a new key, scripts/migrate_secrets.py moves them to the external   *)
(* store; with what gateway/credentials.py makes of a stored value.  Each   *)
(* row has one secret, and a value is                                      *)
(*   <<"null">>, <<"plain">>, <<"v1", key>> or <<"v2", reference>>.         *)
(***************************************************************************)
EXTENDS Naturals, FiniteSets

CONSTANTS
    Agents,         \* rows that exist or may be created
    MaxKeys,        \* bound on master keys
    MaxRefs,        \* bound on secrets put into the store
    MaxFaults       \* bound on processes that end and calls that fail

ScriptsAssumption == MaxKeys \in Nat \ {0} /\ MaxRefs \in Nat /\ MaxFaults \in Nat

VARIABLES
    column,         \* the committed values
    store,          \* references the external store holds
    puts,           \* how many it has ever held
    hosted,         \* NUVRAIL_SECRET_BACKEND: the store, or "local"
    key,            \* the master key the services, and scripts, are started with
    rotation,       \* where it is, the key it writes, the rows it has read, its transaction
    migration,      \* where it is, the rows it has read, those to go, the row in hand, its value
    teardown,       \* of each agent being disconnected: the value that was read
    late,           \* history: written between what a rotation read and the new key
    disconnected,   \* history: agents whose columns have been nulled
    faults

vars == <<column, store, puts, hosted, key, rotation, migration, teardown, late, disconnected, faults>>

Null == <<"null">>
V1 == {"v1"} \X (1 .. MaxKeys)
V2 == {"v2"} \X (1 .. MaxRefs)
Values == {Null, <<"plain">>} \cup V1 \cup V2

NoRotation == [pc |-> "off", to |-> 0, read |-> [a \in {} |-> Null], tx |-> [a \in {} |-> Null]]
NoMigration == [pc |-> "off", read |-> [a \in {} |-> Null], todo |-> {}, row |-> {}, value |-> Null]

\* A transaction holds rows that were read, encrypted under the new key.
TypeOK ==
    /\ column \in [Agents -> Values] /\ store \subseteq 1 .. puts /\ puts \in 0 .. MaxRefs
    /\ key \in 1 .. MaxKeys /\ hosted \in BOOLEAN
    /\ rotation.pc \in {"off", "write", "committed"}
    /\ DOMAIN rotation.tx \subseteq DOMAIN rotation.read
    /\ \A a \in DOMAIN rotation.tx : rotation.tx[a] = <<"v1", rotation.to>>
    /\ migration.pc \in {"off", "row", "update"} /\ migration.todo \subseteq DOMAIN migration.read
    /\ late \cup disconnected \cup DOMAIN teardown \subseteq Agents

Init ==
    /\ column \in [Agents -> {Null, <<"plain">>, <<"v1", 1>>}]
    /\ store = {} /\ puts = 0 /\ hosted \in BOOLEAN /\ key = 1
    /\ rotation = NoRotation /\ migration = NoMigration
    /\ teardown = [a \in {} |-> Null] /\ late = {} /\ disconnected = {} /\ faults = 0

\* SQLite lets one write at a time: the rotation, from its first UPDATE on.
Unlocked == DOMAIN rotation.tx = {}

\* fetch_credential: a value of a given form is read whatever the backend is now.
Resolves(v, k) ==
    \/ v = <<"plain">>
    \/ v \in V1 /\ v[2] = k
    \/ v \in V2 /\ v[2] \in store

\* store_credential: an envelope, or a secret put into the store.
StoreOne(v) ==
    IF hosted THEN /\ puts < MaxRefs /\ puts' = puts + 1
                   /\ store' = store \cup {puts'} /\ v = <<"v2", puts'>>
              ELSE v = <<"v1", key>> /\ UNCHANGED <<puts, store>>

-----------------------------------------------------------------------------
(* The services *)

\* POST /agents, the callback: stored, then inserted (Credentials has the steps).
Create(a) ==
    /\ column[a] = Null /\ a \notin disconnected \cup DOMAIN teardown /\ Unlocked
    /\ \E v \in V1 \cup V2 : StoreOne(v) /\ column' = [column EXCEPT ![a] = v]
    /\ late' = IF rotation.pc = "off" THEN late ELSE late \cup {a}
    /\ UNCHANGED <<hosted, key, rotation, migration, teardown, disconnected, faults>>

\* An agent is disconnected: its secret deleted where it is read to be, then NULL.
Disconnect(a) ==
    /\ column[a] # Null /\ a \notin DOMAIN teardown
    /\ teardown' = [b \in DOMAIN teardown \cup {a} |-> IF b = a THEN column[a] ELSE teardown[b]]
    /\ store' = store \ {r \in store : column[a] = <<"v2", r>>}
    /\ UNCHANGED <<column, puts, hosted, key, rotation, migration, late, disconnected, faults>>

Nulled(a) ==
    /\ a \in DOMAIN teardown /\ Unlocked
    /\ column' = [column EXCEPT ![a] = Null]
    /\ teardown' = [b \in DOMAIN teardown \ {a} |-> teardown[b]]
    /\ disconnected' = disconnected \cup {a}
    /\ UNCHANGED <<store, puts, hosted, key, rotation, migration, late, faults>>

-----------------------------------------------------------------------------
(* rotate_master_key.py *)

\* The rows are read before the first UPDATE begins the transaction.
Rotate ==
    /\ rotation.pc = "off" /\ key < MaxKeys
    /\ rotation' = [NoRotation EXCEPT !.pc = "write", !.to = key + 1, !.read = column]
    /\ UNCHANGED <<column, store, puts, hosted, key, migration, teardown, late, disconnected, faults>>

Encrypted == {a \in DOMAIN rotation.read : rotation.read[a] \in V1}

\* (mutant) each row is committed by itself
ReencryptNow(a) ==
    /\ rotation.pc = "write" /\ a \in Encrypted \ DOMAIN rotation.tx
    /\ rotation' = [rotation EXCEPT !.read = [b \in DOMAIN @ \ {a} |-> @[b]]]
    /\ column' = [column EXCEPT ![a] = <<"v1", rotation.to>>]
    /\ UNCHANGED <<store, puts, hosted, key, migration, teardown, late, disconnected, faults>>

\* A row whose value the old key does not open ends the script (Abort).
Reencrypt(a) ==
    /\ rotation.pc = "write" /\ a \in Encrypted \ DOMAIN rotation.tx /\ rotation.read[a][2] = key
    /\ rotation' = [rotation EXCEPT !.tx =
                       [b \in DOMAIN @ \cup {a} |-> IF b = a THEN <<"v1", rotation.to>> ELSE @[b]]]
    /\ UNCHANGED <<column, store, puts, hosted, key, migration, teardown, late, disconnected, faults>>

\* By the row's id, whatever it holds by now.
CommitRotation ==
    /\ rotation.pc = "write" /\ Encrypted = DOMAIN rotation.tx
    /\ column' = [a \in Agents |-> IF a \in DOMAIN rotation.tx THEN rotation.tx[a] ELSE column[a]]
    /\ rotation' = [NoRotation EXCEPT !.pc = "committed", !.to = rotation.to]
    /\ UNCHANGED <<store, puts, hosted, key, migration, teardown, late, disconnected, faults>>

\* sys.exit(1) inside `async with get_db`: nothing is committed.
Abort ==
    /\ rotation.pc = "write"
    /\ \E a \in Encrypted : rotation.read[a][2] # key
    /\ rotation' = NoRotation
    /\ UNCHANGED <<column, store, puts, hosted, key, migration, teardown, late, disconnected, faults>>

\* "set NUVRAIL_MASTER_KEY in your .env, then restart gateway": scripts under way end.
Restart ==
    /\ rotation.pc = "committed"
    /\ key' = rotation.to /\ rotation' = NoRotation /\ migration' = NoMigration
    /\ UNCHANGED <<column, store, puts, hosted, teardown, late, disconnected, faults>>

-----------------------------------------------------------------------------
(* migrate_secrets.py *)

Migrate ==
    /\ migration.pc = "off"
    /\ migration' = [NoMigration EXCEPT !.pc = "row", !.read = column,
                                        !.todo = {a \in Agents : column[a] \notin V2 \cup {Null}}]
    /\ UNCHANGED <<column, store, puts, hosted, key, rotation, teardown, late, disconnected, faults>>

\* fetch_credential with the key of its process, then store_credential.
PutSecret(a) ==
    /\ migration.pc = "row" /\ a \in migration.todo /\ Resolves(migration.read[a], key)
    /\ \E v \in V1 \cup V2 :
          /\ StoreOne(v)
          /\ migration' = [migration EXCEPT !.pc = "update", !.todo = @ \ {a}, !.row = {a}, !.value = v]
    /\ UNCHANGED <<column, hosted, key, rotation, teardown, late, disconnected, faults>>

\* By the row's id, in a transaction of its own.
UpdateRow(a) ==
    /\ migration.pc = "update" /\ migration.row = {a} /\ Unlocked
    /\ column' = [column EXCEPT ![a] = migration.value]
    /\ migration' = [migration EXCEPT !.pc = "row", !.row = {}, !.value = Null]
    /\ late' = IF rotation.pc = "off" THEN late ELSE late \cup {a}
    /\ UNCHANGED <<store, puts, hosted, key, rotation, teardown, disconnected, faults>>

\* Done, or sys.exit(1) at a secret that cannot be read: what was done stays.
MigrationEnds ==
    /\ migration.pc = "row"
    /\ \A a \in migration.todo : ~Resolves(migration.read[a], key)
    /\ migration' = NoMigration
    /\ UNCHANGED <<column, store, puts, hosted, key, rotation, teardown, late, disconnected, faults>>

\* A script is ended between two steps; the store or the database fails.
ScriptDies ==
    /\ faults < MaxFaults /\ faults' = faults + 1
    /\ \/ rotation.pc = "write" /\ rotation' = NoRotation /\ UNCHANGED migration
       \/ migration.pc # "off" /\ migration' = NoMigration /\ UNCHANGED rotation
    /\ UNCHANGED <<column, store, puts, hosted, key, teardown, late, disconnected>>

Next ==
    \/ \E a \in Agents : Create(a) \/ Disconnect(a) \/ Nulled(a) \/ Reencrypt(a) \/ PutSecret(a) \/ UpdateRow(a)
    \/ Rotate \/ CommitRotation \/ Abort \/ Restart \/ Migrate \/ MigrationEnds \/ ScriptDies

Spec == Init /\ [][Next]_vars

-----------------------------------------------------------------------------
(* Properties *)

\* While the scripts run, wherever they end and whatever they meet, each secret in
\* use can be read with the key of the services, or with the new one once the
\* rotation has committed: but for rows written since the rotation read its own.
\* scripts/migrate_secrets.py:11-12 - "the proxy keeps working while you migrate".
SecretsAreReadable ==
    \A a \in Agents \ (late \cup disconnected \cup DOMAIN teardown) :
        column[a] = Null \/ Resolves(column[a], IF rotation.pc = "committed" THEN rotation.to ELSE key)

(* What comments say and the code does not keep to *)

\* scripts/rotate_master_key.py:6-7 - "decrypts every encrypted credential in the DB
\* using the OLD key and re-encrypts it with a NEW key": not one stored meanwhile;
\* and it ends the next rotation.
RotationReachesAll ==
    rotation.pc = "off" => \A a \in Agents \ disconnected : column[a] \in V1 => column[a][2] = key

\* scripts/migrate_secrets.py:9 - "the script is idempotent and safe to re-run": a
\* secret that was put but not written to its row stays in the store, and the next
\* run puts another.
RerunLeavesNothing ==
    \A r \in store : (\E a \in Agents : column[a] = <<"v2", r>>) \/ migration.value = <<"v2", r>>

\* api/routes/auth.py:586-588 - external secrets are deleted "BEFORE nulling the
\* reference columns": both scripts write back what they have read before.
DisconnectedStaysEmpty == \A a \in disconnected : column[a] = Null

=============================================================================
