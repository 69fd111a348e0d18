--------------------------- MODULE SchemaMigration ---------------------------
(***************************************************************************)
(* init_db of gateway/state_db.py, run by the API and the IMAP proxy when   *)
(* they start and by every IMAP connection: statements that look at the     *)
(* schema and statements that change it, over one SQLite file.  Python's    *)
(* sqlite3 opens a transaction before an INSERT, UPDATE or DELETE only: a   *)
(* CREATE, ALTER or DROP before the first of them commits by itself, what   *)
(* follows it is committed at the end or not at all.                        *)
(***************************************************************************)
EXTENDS Naturals, FiniteSets

CONSTANTS
    Starters,       \* processes whose failure restarts the container
    Connections,    \* IMAP connections, whose failure is a warning
    Agents,         \* agents that may be added once the container is up
    MaxFaults       \* bound on crashes and busy timeouts

NoOne == "none"
ASSUME MigrationAssumption ==
    /\ MaxFaults \in Nat /\ Starters # {} /\ Starters \cap Connections = {}
    /\ NoOne \notin Starters \cup Connections

VARIABLES
    db,             \* the database as the holder of the write lock sees it
    committed,      \* as all others do
    lock,           \* the process with an open transaction
    pc,
    toHash,         \* of each process: has it read a token in plain text?
    missing,        \* the columns it found to be missing
    notnull,        \* was upstream_password NOT NULL when it looked?
    added,          \* history: rows ever inserted into agent_credentials
    failed,         \* history: did an init_db fail, or a process end within one?
    settled,        \* history: has an init_db ended with no other under way?
    faults

localVars == <<toHash, missing, notnull>>
histVars == <<added, failed, settled>>
vars == <<db, committed, lock, pc, localVars, histVars, faults>>

Procs == Starters \cup Connections
Columns == {"oauth2_provider", "upstream_smtp_host", "sent_folder"}
NoTable == [exists |-> FALSE, rows |-> {}, columns |-> {}, notnull |-> FALSE, last |-> 0]

\* A row is an agent and the id AUTOINCREMENT gave it.
Rows == (Agents \cup {"legacy"}) \X (1 .. Cardinality(Agents) + 1)
Ids(rows) == {r[2] : r \in rows}

\* What init_db may find: tokens in plain text, columns missing, folders without
\* owner and messages of theirs, a NOT NULL password.  `other` stands for the
\* columns of the tables that are looked at just before they are changed.
Legacy ==
    [token : {"plain", "hashed"}, other : BOOLEAN, folders : {"unowned", "owned"},
     aside : {FALSE}, strays : BOOLEAN, old : {NoTable},
     credentials : [exists : {TRUE}, rows : {{<<"legacy", 1>>}}, columns : {{}, Columns},
                    notnull : BOOLEAN, last : {1}]]

\* A transaction is open from the first write of an init_db to its end; without
\* one everybody sees the same.
TypeOK ==
    /\ \A d \in {db, committed} :
          /\ d.credentials.rows \cup d.old.rows \subseteq Rows
          /\ d.credentials.columns \cup d.old.columns \subseteq Columns
          /\ d.token \in {"plain", "hashed", "new"} /\ d.folders \in {"unowned", "owned", "absent"}
    /\ lock = NoOne => committed = db
    /\ \A p \in Procs : missing[p] \subseteq Columns /\ (p = lock => pc[p] \notin {"out", "create", "tokens", "up"})

Init ==
    /\ db \in {d \in Legacy : d.strays <=> d.folders = "unowned"} /\ committed = db
    /\ lock = NoOne
    /\ pc = [p \in Procs |-> IF p \in Starters THEN "create" ELSE "out"]
    /\ toHash = [p \in Procs |-> FALSE] /\ missing = [p \in Procs |-> {}]
    /\ notnull = [p \in Procs |-> FALSE]
    /\ added = db.credentials.rows /\ failed = FALSE /\ settled = FALSE /\ faults = 0

View(p) == IF lock = p THEN db ELSE committed
Running == {p \in Procs : pc[p] \notin {"out", "up"}}
Goto(p, l) == pc' = [pc EXCEPT ![p] = l]

\* The container ends, with what its processes had not committed, and starts again.
RestartContainer ==
    /\ db' = committed /\ lock' = NoOne
    /\ pc' = [p \in Procs |-> IF p \in Starters THEN "create" ELSE "out"]
    /\ toHash' = [p \in Procs |-> FALSE] /\ missing' = [p \in Procs |-> {}]
    /\ notnull' = [p \in Procs |-> FALSE]

\* An init_db raises: the transaction is lost; a connection goes on without.
Raise(p) ==
    /\ IF p \in Starters THEN RestartContainer
       ELSE /\ Goto(p, "out") /\ UNCHANGED localVars
            /\ IF lock = p THEN db' = committed /\ lock' = NoOne ELSE UNCHANGED <<db, lock>>
    /\ failed' = TRUE /\ UNCHANGED <<committed, added, settled>>

\* A statement on the schema waits for the write lock, raises when it cannot be
\* done, and commits by itself outside a transaction.
Schema(p, possible, new, next) ==
    /\ lock \in {NoOne, p}
    /\ IF possible THEN /\ db' = new /\ committed' = (IF lock = p THEN committed ELSE new)
                        /\ Goto(p, next) /\ UNCHANGED <<lock, localVars, histVars>>
                   ELSE Raise(p)

\* One on rows opens a transaction and keeps it.
Write(p, possible, new, next) ==
    /\ lock \in {NoOne, p}
    /\ IF possible THEN /\ db' = new /\ lock' = p
                        /\ Goto(p, next) /\ UNCHANGED <<committed, localVars, histVars>>
                   ELSE Raise(p)

\* A look at the database, or nothing to do.
Look(p, next) == Goto(p, next) /\ UNCHANGED <<db, committed, lock, histVars>>

-----------------------------------------------------------------------------
(* The statements of init_db, in order *)

\* executescript: CREATE TABLE IF NOT EXISTS.
CreateTables(p) ==
    /\ pc[p] = "create"
    /\ Schema(p, TRUE,
          [db EXCEPT !.folders = IF @ = "absent" THEN "owned" ELSE @,
                     !.credentials = IF @.exists THEN @ ELSE
                        [NoTable EXCEPT !.exists = TRUE, !.columns = Columns \ {"sent_folder"}]],
          "tokens")

ReadTokens(p) ==
    /\ pc[p] = "tokens"
    /\ toHash' = [toHash EXCEPT ![p] = View(p).token = "plain"]
    /\ Look(p, "rehash") /\ UNCHANGED <<missing, notnull>>

\* By the user's id, whatever the row holds by now.
Rehash(p) ==
    /\ pc[p] = "rehash"
    /\ IF toHash[p] THEN Write(p, TRUE, [db EXCEPT !.token = "hashed"], "inspect")
                    ELSE Look(p, "inspect") /\ UNCHANGED localVars

\* PRAGMA table_info(agent_credentials): the last statements still go by it.
Inspect(p) ==
    /\ pc[p] = "inspect"
    /\ missing' = [missing EXCEPT ![p] = Columns \ View(p).credentials.columns]
    /\ notnull' = [notnull EXCEPT ![p] = View(p).credentials.notnull]
    /\ Look(p, "other") /\ UNCHANGED toHash

\* "duplicate column name" if another has added it between the two.
OtherColumns(p) ==
    \/ pc[p] = "other" /\ View(p).other /\ Look(p, "add") /\ UNCHANGED localVars
    \/ pc[p] = "other" /\ ~View(p).other /\ Look(p, "add_other") /\ UNCHANGED localVars
    \/ pc[p] = "add_other" /\ Schema(p, ~db.other, [db EXCEPT !.other = TRUE], "add")

\* (mutant) the columns are added without a look at what there is
AddColumnsAnyway(p) ==
    /\ pc[p] = "add"
    /\ Schema(p, db.credentials.columns = {}, [db EXCEPT !.credentials.columns = Columns], "folders")

AddColumns(p) ==
    /\ pc[p] = "add"
    /\ IF missing[p] = {} THEN Look(p, "folders") /\ UNCHANGED localVars
       ELSE Schema(p, db.credentials.exists /\ missing[p] \cap db.credentials.columns = {},
                   [db EXCEPT !.credentials.columns = @ \cup missing[p]], "folders")

-----------------------------------------------------------------------------
(* The mirror's folders get an owner *)

InspectFolders(p) ==
    /\ pc[p] = "folders"
    /\ Look(p, IF View(p).folders = "unowned" THEN "rename_folders" ELSE "rename")
    /\ UNCHANGED localVars

\* (mutant) the messages of the old folders are left
WipeNothing(p) ==
    /\ pc[p] = "wipe" /\ Write(p, TRUE, db, "rename")

\* Rename, create, drop, and the messages of what was dropped are deleted.
OwnFolders(p) ==
    \/ /\ pc[p] = "rename_folders"
       /\ Schema(p, db.folders # "absent" /\ ~db.aside, [db EXCEPT !.folders = "absent", !.aside = TRUE], "create_folders")
    \/ /\ pc[p] = "create_folders"
       /\ Schema(p, db.folders = "absent", [db EXCEPT !.folders = "owned"], "drop_folders")
    \/ /\ pc[p] = "drop_folders"
       /\ Schema(p, db.aside, [db EXCEPT !.aside = FALSE], "wipe")

WipeMessages(p) ==
    /\ pc[p] = "wipe" /\ Write(p, TRUE, [db EXCEPT !.strays = FALSE], "rename")

-----------------------------------------------------------------------------
(* agent_credentials is rebuilt without the NOT NULL *)

\* (mutant) what an earlier attempt left aside is dropped first
SetAsideOver(p) ==
    /\ pc[p] = "rename"
    /\ IF ~notnull[p] THEN Look(p, "commit") /\ UNCHANGED localVars
       ELSE Schema(p, db.credentials.exists,
                   [db EXCEPT !.old = db.credentials, !.credentials = NoTable], "recreate")

SetAside(p) ==
    /\ pc[p] = "rename"
    /\ IF ~notnull[p] THEN Look(p, "commit") /\ UNCHANGED localVars
       ELSE Schema(p, db.credentials.exists /\ ~db.old.exists,
                   [db EXCEPT !.old = db.credentials, !.credentials = NoTable], "recreate")

\* The table as this CREATE TABLE has it: it lacks two columns.
Recreate(p) ==
    /\ pc[p] = "recreate"
    /\ Schema(p, ~db.credentials.exists, 
              [db EXCEPT !.credentials = [NoTable EXCEPT !.exists = TRUE, !.columns = {"oauth2_provider"}]], "copy")

\* "UNIQUE constraint failed" if an id has been given to another row already.
Copy(p) ==
    /\ pc[p] = "copy"
    /\ Write(p, db.old.exists /\ db.credentials.exists /\ Ids(db.old.rows) \cap Ids(db.credentials.rows) = {},
             [db EXCEPT !.credentials.rows = @ \cup db.old.rows,
                        !.credentials.last = IF db.old.last > @ THEN db.old.last ELSE @], "drop")

DropOld(p) ==
    /\ pc[p] = "drop" /\ Schema(p, db.old.exists, [db EXCEPT !.old = NoTable], "commit")

\* The end: the commit, if there is a transaction.
Commit(p) ==
    /\ pc[p] = "commit" /\ Goto(p, "up")
    /\ committed' = (IF lock = p THEN db ELSE committed)
    /\ lock' = (IF lock = p THEN NoOne ELSE lock)
    /\ settled' = (settled \/ (Running = {p} /\ ~failed))
    /\ UNCHANGED <<db, localVars, added, failed>>

Statement(p) ==
    \/ CreateTables(p) \/ ReadTokens(p) \/ Rehash(p) \/ Inspect(p) \/ OtherColumns(p) \/ AddColumns(p)
    \/ InspectFolders(p) \/ OwnFolders(p) \/ WipeMessages(p)
    \/ SetAside(p) \/ Recreate(p) \/ Copy(p) \/ DropOld(p) \/ Commit(p)

-----------------------------------------------------------------------------
(* Around it *)

\* The proxy accepts connections as soon as it is up.
Connect(c) ==
    /\ c \in Connections /\ pc[c] \in {"out", "up"} /\ \A p \in Starters : pc[p] = "up"
    /\ Goto(c, "create") /\ UNCHANGED <<db, committed, lock, localVars, histVars, faults>>

\* POST /agents, and a login: the API is up while others still run their init_db.
AddAgent(a) ==
    /\ \E p \in Starters : pc[p] = "up"
    /\ lock = NoOne /\ \A r \in added : r[1] # a
    /\ db.credentials.exists /\ "upstream_smtp_host" \in db.credentials.columns
    /\ LET row == <<a, db.credentials.last + 1>>
       IN  /\ db' = [db EXCEPT !.credentials.rows = @ \cup {row}, !.credentials.last = @ + 1]
           /\ added' = added \cup {row}
    /\ committed' = db'
    /\ UNCHANGED <<lock, pc, localVars, failed, settled, faults>>

Login ==
    /\ \E p \in Starters : pc[p] = "up"
    /\ lock = NoOne /\ db.token = "hashed"
    /\ db' = [db EXCEPT !.token = "new"] /\ committed' = db'
    /\ UNCHANGED <<lock, pc, localVars, histVars, faults>>

\* A process ends, or waits for the lock longer than the busy timeout.
Crash ==
    /\ faults < MaxFaults /\ faults' = faults + 1
    /\ RestartContainer /\ failed' = (failed \/ Running # {})
    /\ UNCHANGED <<committed, added, settled>>

BusyTimeout(p) ==
    /\ faults < MaxFaults /\ faults' = faults + 1
    /\ lock \notin {NoOne, p}
    /\ pc[p] \notin {"out", "up", "tokens", "inspect", "other", "folders", "commit"} /\ Raise(p)

Next ==
    \/ \E p \in Procs : (Statement(p) /\ UNCHANGED faults) \/ BusyTimeout(p) \/ Connect(p)
    \/ (\E a \in Agents : AddAgent(a)) \/ Login \/ Crash

Spec == Init /\ [][Next]_vars

\* Each process goes on with its init_db, and a failed container is restarted.
FairSpec == Spec /\ \A p \in Procs : WF_vars(Statement(p) /\ UNCHANGED faults)

-----------------------------------------------------------------------------
(* Properties *)

\* No credential is destroyed: wherever processes fail or meet, each row is in
\* the table or in the one set aside (the copy and the drop are one transaction).
\* gateway/state_db.py:550 - "we must rename, recreate, copy, and drop".
RowsSurvive == added \subseteq committed.credentials.rows \cup committed.old.rows

\* When no init_db has failed and none is under way, the migration is complete:
\* credentials are where they are looked for, no token is in plain text, no
\* message of a folder without owner is left.
\* gateway/state_db.py:503-504 - "Wiping the un-owned mirror is the only
\* fail-closed option".
MigratedWhole ==
    ~failed /\ Running = {} =>
        /\ added \subseteq db.credentials.rows /\ ~db.credentials.notnull
        /\ db.token # "plain" /\ db.other /\ db.folders = "owned" /\ ~db.strays

\* Whatever crashes and collisions there are at first, in the end every process
\* is up: each restart finds less to do.
\* docker-entrypoint.sh:9-10 - "if any process exits non-zero, the container exits
\* immediately so Docker restart policy handles recovery".
ContainerComesUp == <>[](\A p \in Starters : pc[p] = "up")

\* What init_db makes of the schema.
Shape == [d |-> db.credentials.columns, n |-> db.credentials.notnull, t |-> db.credentials.exists,
          o |-> db.other, f |-> db.folders]

(* What comments say and the code does not keep to *)

\* gateway/state_db.py:551 - "This is idempotent: the PRAGMA notnull flag is
\* checked first"; :334 - "to stay idempotent across repeated startups": once an
\* init_db has ended by itself, another leaves the schema as it is.
InitIsIdempotent == [][settled => Shape' = Shape]_vars

\* gateway/state_db.py:503-506 - wiping the un-owned mirror is "the only
\* fail-closed option", "so no row outlives its folder".
StraysAreWiped == (\A p \in Starters : pc[p] = "up") => ~committed.strays

\* gateway/state_db.py:550 - rename, recreate, copy: a process that ends before
\* the copy leaves the credentials in the table set aside, and no later start
\* looks there.
RowsAreReached == (\A p \in Starters : pc[p] = "up") /\ Running = {} => added \subseteq db.credentials.rows

\* gateway/state_db.py:316-318 - plain tokens are hashed: the hash of the old one
\* may replace a token issued since.
NewTokenLives == [][db.token = "new" => db'.token = "new"]_vars

=============================================================================
