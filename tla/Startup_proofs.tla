--------------------------- MODULE Startup_proofs ---------------------------
(***************************************************************************)
(* Theorems about what happens before agents are served, for any number of  *)
(* processes, connections, agents, keys, crashes and collisions: no         *)
(* migration loses a credential and one that nothing disturbs is complete   *)
(* (SchemaMigration); a login is answered as it went (ImapLogin); and the   *)
(* secrets can be read while the scripts run (SecretScripts).               *)
(***************************************************************************)
EXTENDS MCStartup, TLAPS

(* No credential is lost *)

Table ==
    [exists : BOOLEAN, rows : SUBSET ((Agents \cup {"legacy"}) \X Nat), columns : SUBSET Columns,
     notnull : BOOLEAN, last : Nat]

Database ==
    [token : {"plain", "hashed", "new"}, other : BOOLEAN, folders : {"unowned", "owned", "absent"},
     aside : BOOLEAN, strays : BOOLEAN, old : Table, credentials : Table]

Labels ==
    {"out", "create", "tokens", "rehash", "inspect", "other", "add_other", "add", "folders",
     "rename_folders", "create_folders", "drop_folders", "wipe", "rename", "recreate",
     "copy", "drop", "commit", "up"}

Shapes ==
    /\ db \in Database /\ committed \in Database
    /\ pc \in [Procs -> Labels] /\ missing \in [Procs -> SUBSET Columns]
    /\ added \subseteq (Agents \cup {"legacy"}) \X Nat

\* A table that does not exist has no rows, and one of the two has each row.
Keeps(d) ==
    /\ ~d.credentials.exists => d.credentials.rows = {}
    /\ ~d.old.exists => d.old.rows = {}
    /\ added \subseteq d.credentials.rows \cup d.old.rows

\* Outside a transaction all see the same; and whoever is about to drop the table set
\* aside has copied it in the transaction that is open.
Isolated ==
    /\ lock = NoOne => committed = db
    /\ \A p \in Procs :
          pc[p] = "drop" => lock = p /\ db.old.rows \subseteq db.credentials.rows

RowsInv == Shapes /\ Keeps(db) /\ Keeps(committed) /\ Isolated

-----------------------------------------------------------------------------

\* The tables there can be.
LEMMA TableTypes ==
    /\ NoTable \in Table
    /\ \A c \in SUBSET Columns, n \in BOOLEAN :
          [exists |-> TRUE, rows |-> {<<"legacy", 1>>}, columns |-> c, notnull |-> n, last |-> 1] \in Table
BY DEF NoTable, Table

\* The old database has all its rows.
LEMMA InitKeepsRows == Init => RowsInv
<1> SUFFICES ASSUME Init PROVE RowsInv
  OBVIOUS
<1>1. db \in Legacy /\ committed = db /\ added = db.credentials.rows
  BY DEF Init
<1>2. db.credentials \in [exists : {TRUE}, rows : {{<<"legacy", 1>>}}, columns : {{}, Columns},
                        notnull : BOOLEAN, last : {1}]
  BY <1>1 DEF Legacy
<1>3. db.credentials \in Table
  <2>1. {<<"legacy", 1>>} \in SUBSET ((Agents \cup {"legacy"}) \X Nat)
    OBVIOUS
  <2> QED BY <1>2, <2>1 DEF Table
<1>4. db.old = NoTable
  BY <1>1 DEF Legacy
<1>5. db \in Database
  BY <1>1, <1>3, <1>4, TableTypes DEF Legacy, Database
<1>6. Keeps(db)
  <2>1. db.credentials.exists = TRUE
    BY <1>2
  <2>2. db.old.rows = {}
    BY <1>4 DEF NoTable
  <2> QED BY <1>1, <2>1, <2>2 DEF Keeps
<1>7. added \subseteq (Agents \cup {"legacy"}) \X Nat
  BY <1>1, <1>3 DEF Table
<1>8. pc \in [Procs -> Labels] /\ missing \in [Procs -> SUBSET Columns]
  BY DEF Init, Labels
<1>9. Isolated
  BY <1>1 DEF Init, Isolated
<1> QED
  BY <1>1, <1>5, <1>6, <1>7, <1>8, <1>9 DEF RowsInv, Shapes

\* The end of the container, with what its processes had not committed.
LEMMA RestartKeepsRows ==
    ASSUME RowsInv, RestartContainer, UNCHANGED <<committed, added>>
    PROVE  RowsInv'
<1>1. Shapes'
  BY DEF RowsInv, RestartContainer, Shapes, Labels
<1>2. Keeps(db)' /\ Keeps(committed)'
  BY DEF RowsInv, RestartContainer, Keeps
<1>3. Isolated'
  BY DEF RowsInv, RestartContainer, Isolated
<1> QED BY <1>1, <1>2, <1>3 DEF RowsInv

\* An init_db that raises.
LEMMA RaiseKeepsRows ==
    ASSUME RowsInv, NEW p \in Procs, Raise(p)
    PROVE  RowsInv'
<1>1. CASE p \in Starters
  BY <1>1, RestartKeepsRows DEF Raise
<1>2. CASE p \notin Starters
  <2> USE <1>2 DEF Raise, Goto, localVars, RowsInv
  <2>1. Shapes'
    BY DEF Shapes, Labels
  <2>2. Keeps(db)' /\ Keeps(committed)'
    BY DEF Keeps
  <2>3. Isolated'
    BY MigrationAssumption DEF Isolated, Shapes, Procs
  <2> QED BY <2>1, <2>2, <2>3
<1> QED BY <1>1, <1>2

\* A statement on the schema that leaves the rows in their tables.
LEMMA SchemaKeepsRows ==
    ASSUME RowsInv, NEW p \in Procs, NEW possible, NEW new, NEW next \in Labels \ {"drop"},
           possible => new \in Database /\ Keeps(new),
           pc[p] # "drop",
           Schema(p, possible, new, next)
    PROVE  RowsInv'
<1>1. CASE Raise(p)
  BY <1>1, RaiseKeepsRows
<1>2. CASE possible
  <2> USE <1>2 DEF Schema, Goto, localVars, histVars, RowsInv
  <2>1. Shapes'
    BY DEF Shapes
  <2>2. Keeps(db)' /\ Keeps(committed)'
    BY DEF Keeps
  <2>3. Isolated'
    BY MigrationAssumption DEF Isolated, Shapes, Procs
  <2> QED BY <2>1, <2>2, <2>3
<1> QED BY <1>1, <1>2 DEF Schema

\* One on rows: what it copies is whole before the other table may be dropped.
LEMMA WriteKeepsRows ==
    ASSUME RowsInv, NEW p \in Procs, NEW possible, NEW new, NEW next \in Labels,
           possible => new \in Database /\ Keeps(new),
           possible /\ next = "drop" => new.old.rows \subseteq new.credentials.rows,
           pc[p] # "drop",
           Write(p, possible, new, next)
    PROVE  RowsInv'
<1>1. CASE Raise(p)
  BY <1>1, RaiseKeepsRows
<1>2. CASE possible
  <2> USE <1>2 DEF Write, Goto, localVars, histVars, RowsInv
  <2>1. Shapes'
    BY DEF Shapes
  <2>2. Keeps(db)' /\ Keeps(committed)'
    BY DEF Keeps
  <2>3. Isolated'
    BY MigrationAssumption DEF Isolated, Shapes, Procs
  <2> QED BY <2>1, <2>2, <2>3
<1> QED BY <1>1, <1>2 DEF Write

\* A look at the database.
LEMMA LookKeepsRows ==
    ASSUME RowsInv, NEW p \in Procs, NEW next \in Labels \ {"drop"},
           Look(p, next), missing' \in [Procs -> SUBSET Columns]
    PROVE  RowsInv'
<1> USE DEF Look, Goto, histVars, RowsInv
<1>1. Shapes'
  BY DEF Shapes
<1>2. Keeps(db)' /\ Keeps(committed)'
  BY DEF Keeps
<1>3. Isolated'
  BY DEF Isolated, Shapes
<1> QED BY <1>1, <1>2, <1>3

-----------------------------------------------------------------------------
(* The statements that touch the two tables *)

\* CREATE TABLE IF NOT EXISTS gives an empty table where there is none.
LEMMA CreateKeepsRows ==
    ASSUME RowsInv, NEW p \in Procs, CreateTables(p) PROVE RowsInv'
<1> DEFINE new ==
      [db EXCEPT !.folders = IF @ = "absent" THEN "owned" ELSE @,
                 !.credentials = IF @.exists THEN @ ELSE
                    [NoTable EXCEPT !.exists = TRUE, !.columns = Columns \ {"sent_folder"}]]
<1>0. db \in Database /\ db.credentials \in Table /\ Keeps(db)
  BY DEF RowsInv, Shapes, Database
<1>1. new.old = db.old /\ new.credentials.rows = db.credentials.rows /\ new \in Database
  BY ONLY <1>0 DEF Keeps, Database, Table, NoTable
<1>2. Keeps(new)
  BY ONLY <1>0, <1>1 DEF Keeps, Database, Table, NoTable
<1>3. pc[p] # "drop" /\ "tokens" \in Labels \ {"drop"} /\ Schema(p, TRUE, new, "tokens")
  BY DEF CreateTables, Labels
<1> QED
  BY <1>1, <1>2, <1>3, SchemaKeepsRows

\* ALTER TABLE RENAME: the rows go with the name.
LEMMA SetAsideKeepsRows ==
    ASSUME RowsInv, NEW p \in Procs, SetAside(p) PROVE RowsInv'
<1> DEFINE new == [db EXCEPT !.old = db.credentials, !.credentials = NoTable]
<1> DEFINE possible == db.credentials.exists /\ ~db.old.exists
<1>1. new \in Database /\ new.old = db.credentials /\ new.credentials = NoTable
  BY TableTypes DEF RowsInv, Shapes, Database
<1>2. possible => Keeps(new)
  BY <1>1 DEF RowsInv, Keeps, NoTable
<1>3. CASE Look(p, "commit") /\ UNCHANGED localVars
  BY <1>3, LookKeepsRows DEF Labels, localVars, RowsInv, Shapes
<1>4. CASE Schema(p, possible, new, "recreate")
  BY <1>1, <1>2, <1>4, SchemaKeepsRows DEF SetAside, Labels
<1> QED
  BY <1>3, <1>4 DEF SetAside

\* CREATE TABLE: a new empty table beside the old one.
LEMMA RecreateKeepsRows ==
    ASSUME RowsInv, NEW p \in Procs, Recreate(p) PROVE RowsInv'
<1> DEFINE new == [db EXCEPT !.credentials = [NoTable EXCEPT !.exists = TRUE, !.columns = {"oauth2_provider"}]]
<1>1. new \in Database /\ new.old = db.old /\ new.credentials.rows = {} /\ new.credentials.exists = TRUE
  BY DEF RowsInv, Shapes, Database, Table, NoTable, Columns
<1>2. ~db.credentials.exists => Keeps(new)
  BY <1>1 DEF RowsInv, Keeps
<1>3. pc[p] # "drop" /\ "copy" \in Labels \ {"drop"} /\ Schema(p, ~db.credentials.exists, new, "copy")
  BY DEF Recreate, Labels
<1> QED
  BY <1>1, <1>2, <1>3, SchemaKeepsRows

\* INSERT ... SELECT: the rows are in both tables.
LEMMA CopyKeepsRows ==
    ASSUME RowsInv, NEW p \in Procs, Copy(p) PROVE RowsInv'
<1> DEFINE new ==
      [db EXCEPT !.credentials.rows = @ \cup db.old.rows,
                 !.credentials.last = IF db.old.last > @ THEN db.old.last ELSE @]
<1> DEFINE possible ==
      db.old.exists /\ db.credentials.exists /\ Ids(db.old.rows) \cap Ids(db.credentials.rows) = {}
<1>1. /\ new \in Database /\ new.old = db.old
      /\ new.credentials.rows = db.credentials.rows \cup db.old.rows
      /\ new.credentials.exists = db.credentials.exists
  BY DEF RowsInv, Shapes, Database, Table
<1>2. possible => Keeps(new)
  BY <1>1 DEF RowsInv, Keeps
<1>3. pc[p] # "drop" /\ "drop" \in Labels /\ Write(p, possible, new, "drop")
  BY DEF Copy, Labels
<1> HIDE DEF possible, new
<1> QED
  BY <1>1, <1>2, <1>3, WriteKeepsRows

\* Only here can rows go, and they have been copied.
LEMMA DropKeepsRows ==
    ASSUME RowsInv, NEW p \in Procs, DropOld(p) PROVE RowsInv'
<1> DEFINE new == [db EXCEPT !.old = NoTable]
<1>1. new \in Database /\ new.old = NoTable /\ new.credentials = db.credentials
  BY TableTypes DEF RowsInv, Shapes, Database
<1>2. lock = p /\ pc[p] = "drop" /\ db.old.rows \subseteq db.credentials.rows
  BY DEF DropOld, RowsInv, Isolated
<1>3. Keeps(new)
  BY <1>1, <1>2 DEF RowsInv, Keeps, NoTable
<1>4. CASE Raise(p)
  BY <1>4, RaiseKeepsRows
<1>5. CASE db' = new /\ committed' = committed /\ Goto(p, "commit") /\ UNCHANGED <<lock, localVars, histVars>>
  <2> USE <1>5 DEF Goto, localVars, histVars, RowsInv
  <2>1. Shapes'
    BY <1>1 DEF Shapes, Labels
  <2>2. Keeps(db)' /\ Keeps(committed)'
    BY <1>3 DEF Keeps
  <2>3. Isolated'
    BY <1>2, MigrationAssumption DEF Isolated, Shapes, Procs
  <2> QED BY <2>1, <2>2, <2>3
<1> QED
  BY <1>2, <1>4, <1>5 DEF DropOld, Schema

-----------------------------------------------------------------------------
(* All others leave them alone *)

\* A change of anything else.
LEMMA OtherFields ==
    ASSUME RowsInv, NEW d \in Database, d.old = db.old,
           d.credentials.rows = db.credentials.rows,
           d.credentials.exists = db.credentials.exists
    PROVE  Keeps(d)
BY DEF RowsInv, Keeps

\* Steps that change no table.
LEMMA OthersKeepRows ==
    ASSUME RowsInv, NEW p \in Procs,
           \/ ReadTokens(p) \/ Rehash(p) \/ Inspect(p) \/ OtherColumns(p) \/ AddColumns(p)
           \/ InspectFolders(p) \/ OwnFolders(p) \/ WipeMessages(p)
    PROVE  RowsInv'
<1> USE DEF Labels
<1>0. db \in Database /\ missing \in [Procs -> SUBSET Columns]
  BY DEF RowsInv, Shapes
<1>1. CASE ReadTokens(p)
  BY <1>0, <1>1, LookKeepsRows DEF ReadTokens
<1>2. CASE Rehash(p)
  <2> DEFINE new == [db EXCEPT !.token = "hashed"]
  <2>1. new \in Database /\ Keeps(new)
    BY <1>0, OtherFields DEF Database
  <2> QED BY <1>0, <1>2, <2>1, LookKeepsRows, WriteKeepsRows DEF Rehash, localVars
<1>3. CASE Inspect(p)
  BY <1>0, <1>3, LookKeepsRows DEF Inspect
<1>4. CASE OtherColumns(p)
  <2> DEFINE new == [db EXCEPT !.other = TRUE]
  <2>1. new \in Database /\ Keeps(new)
    BY <1>0, OtherFields DEF Database
  <2> QED BY <1>0, <1>4, <2>1, LookKeepsRows, SchemaKeepsRows DEF OtherColumns, localVars
<1>5. CASE AddColumns(p)
  <2> DEFINE new == [db EXCEPT !.credentials.columns = @ \cup missing[p]]
  <2>1. new \in Database /\ Keeps(new)
    BY <1>0, OtherFields DEF Database, Table
  <2> DEFINE possible == db.credentials.exists /\ missing[p] \cap db.credentials.columns = {}
  <2>2. CASE Look(p, "folders") /\ UNCHANGED localVars
    BY <1>0, <2>2, LookKeepsRows DEF localVars
  <2>3. CASE pc[p] = "add" /\ Schema(p, possible, new, "folders")
    <3> HIDE DEF possible, new
    <3> QED BY <2>1, <2>3, SchemaKeepsRows
  <2> QED BY <1>5, <2>2, <2>3 DEF AddColumns
<1>6. CASE InspectFolders(p)
  BY <1>0, <1>6, LookKeepsRows DEF InspectFolders, localVars
<1>7. CASE OwnFolders(p)
  <2> DEFINE aside == [db EXCEPT !.folders = "absent", !.aside = TRUE]
             made == [db EXCEPT !.folders = "owned"]
             gone == [db EXCEPT !.aside = FALSE]
  <2>1. \A d \in {aside, made, gone} : d \in Database /\ Keeps(d)
    BY <1>0, OtherFields DEF Database
  <2> QED BY <1>7, <2>1, SchemaKeepsRows DEF OwnFolders
<1>8. CASE WipeMessages(p)
  <2> DEFINE new == [db EXCEPT !.strays = FALSE]
  <2>1. new \in Database /\ Keeps(new)
    BY <1>0, OtherFields DEF Database
  <2> QED BY <1>8, <2>1, WriteKeepsRows DEF WipeMessages
<1> QED
  BY <1>1, <1>2, <1>3, <1>4, <1>5, <1>6, <1>7, <1>8

\* What was isolated becomes what all see.
LEMMA CommitKeepsRows ==
    ASSUME RowsInv, NEW p \in Procs, Commit(p) PROVE RowsInv'
<1> USE DEF Commit, Goto, localVars, RowsInv
<1>1. Shapes'
  BY DEF Shapes, Labels
<1>2. Keeps(db)' /\ Keeps(committed)'
  BY DEF Keeps
<1>3. Isolated'
  BY DEF Isolated, Shapes
<1> QED BY <1>1, <1>2, <1>3

\* The row that is inserted is in both views: no transaction is open.
LEMMA AddKeepsRows ==
    ASSUME RowsInv, NEW a \in Agents, AddAgent(a) PROVE RowsInv'
<1> DEFINE row == <<a, db.credentials.last + 1>>
           new == [db EXCEPT !.credentials.rows = @ \cup {row}, !.credentials.last = @ + 1]
<1>1. db \in Database /\ db.credentials \in Table /\ db.credentials.last \in Nat
  BY DEF RowsInv, Shapes, Database, Table
<1>2. row \in (Agents \cup {"legacy"}) \X Nat
  BY <1>1
<1>3. /\ new \in Database /\ new.old = db.old
      /\ new.credentials.rows = db.credentials.rows \cup {row}
      /\ new.credentials.exists = db.credentials.exists
  <2> HIDE DEF row
  <2>1. new = [db EXCEPT !.credentials = new.credentials]
    BY <1>1 DEF Database, Table
  <2>2. /\ new.credentials.rows = db.credentials.rows \cup {row}
        /\ new.credentials.exists = db.credentials.exists
    BY <1>1 DEF Database, Table
  <2>3. new.credentials.last = db.credentials.last + 1
    BY <1>1 DEF Database, Table
  <2>4. new.credentials \in Table
    <3>1. db.credentials.rows \cup {row} \in SUBSET ((Agents \cup {"legacy"}) \X Nat)
      BY <1>1, <1>2 DEF Table
    <3>2. db.credentials.last + 1 \in Nat
      BY <1>1
    <3> QED BY <1>1, <3>1, <3>2 DEF Database, Table
  <2> QED BY <1>1, <2>1, <2>2, <2>4 DEF Database
<1>4. /\ db' = new /\ committed' = new /\ added' = added \cup {row}
      /\ lock = NoOne /\ db.credentials.exists
      /\ UNCHANGED <<lock, pc, missing>>
  BY DEF AddAgent, localVars
<1> HIDE DEF row, new
<1>5. Shapes'
  BY <1>3, <1>4, <1>2 DEF RowsInv, Shapes
<1>6. Keeps(db)' /\ Keeps(committed)'
  BY <1>3, <1>4 DEF RowsInv, Keeps
<1>7. Isolated'
  BY <1>4, MigrationAssumption DEF RowsInv, Isolated, Procs
<1> QED
  BY <1>5, <1>6, <1>7 DEF RowsInv

\* A login, a crash, a lock that is waited for too long, a connection.
LEMMA EnvironmentKeepsRows ==
    ASSUME RowsInv, Login \/ Crash \/ \E p \in Procs : BusyTimeout(p) \/ Connect(p)
    PROVE  RowsInv'
<1>1. CASE Login
  <2> DEFINE new == [db EXCEPT !.token = "new"]
  <2>1. new \in Database /\ Keeps(new) /\ new.credentials = db.credentials /\ new.old = db.old
    BY OtherFields DEF RowsInv, Shapes, Database
  <2> USE <1>1 DEF Login, localVars, histVars, RowsInv
  <2>2. Shapes'
    BY <2>1 DEF Shapes
  <2>3. Keeps(db)' /\ Keeps(committed)'
    BY <2>1 DEF Keeps
  <2>4. Isolated'
    BY <2>1 DEF Isolated
  <2> QED BY <2>2, <2>3, <2>4
<1>2. CASE Crash
  BY <1>2, RestartKeepsRows DEF Crash
<1>3. ASSUME NEW p \in Procs, BusyTimeout(p) PROVE RowsInv'
  BY <1>3, RaiseKeepsRows DEF BusyTimeout
<1>4. ASSUME NEW c \in Procs, Connect(c) PROVE RowsInv'
  <2> USE <1>4 DEF Connect, Goto, localVars, histVars, RowsInv
  <2>1. Shapes'
    BY DEF Shapes, Labels
  <2>2. Keeps(db)' /\ Keeps(committed)'
    BY DEF Keeps
  <2>3. Isolated'
    BY DEF Isolated, Shapes
  <2> QED BY <2>1, <2>2, <2>3
<1> QED
  BY <1>1, <1>2, <1>3, <1>4

\* All the steps of Next.
LEMMA StepKeepsRows == RowsInv /\ [Next]_vars => RowsInv'
<1> SUFFICES ASSUME RowsInv, [Next]_vars PROVE RowsInv'
  OBVIOUS
<1>1. ASSUME NEW p \in Procs, Statement(p) PROVE RowsInv'
  BY <1>1, CreateKeepsRows, SetAsideKeepsRows, RecreateKeepsRows, CopyKeepsRows, DropKeepsRows,
     CommitKeepsRows, OthersKeepRows DEF Statement
<1>2. CASE UNCHANGED vars
  BY <1>2 DEF vars, localVars, histVars, RowsInv, Shapes, Keeps, Isolated
<1> QED
  BY <1>1, <1>2, AddKeepsRows, EnvironmentKeepsRows DEF Next

\* No credential is destroyed by a migration, however many processes run it,
\* wherever they end, and whatever agents are added meanwhile: each row ever inserted
\* is in the table or in the one that a rebuild has set aside (init_db).
THEOREM RowsAlwaysSurvive == Spec => []RowsSurvive
<1>1. RowsInv => RowsSurvive
  BY DEF RowsInv, Keeps, RowsSurvive
<1> QED
  BY <1>1, InitKeepsRows, StepKeepsRows, PTL DEF Spec

-----------------------------------------------------------------------------
(* An undisturbed migration is complete *)

\* How far an init_db has come, by the label it is at.
AfterInspect == Labels \ {"out", "create", "tokens", "rehash", "inspect"}
AfterOther == AfterInspect \ {"other", "add_other"}
AfterFolders == AfterOther \ {"add", "folders", "rename_folders"}
AfterRename == {"recreate", "copy", "drop", "commit", "up"}

\* What has been migrated stays so.
Later(d, e) ==
    /\ d.token # "plain" => e.token # "plain"
    /\ d.other => e.other
    /\ d.folders # "unowned" => e.folders # "unowned"
    /\ ~d.credentials.notnull => ~e.credentials.notnull

\* Whoever has come past a statement has done it or found it done.
Reached(p) ==
    /\ pc[p] \in AfterInspect \cup {"inspect"} => db.token # "plain"
    /\ pc[p] = "rehash" /\ ~toHash[p] => db.token # "plain"
    /\ pc[p] \in AfterOther => db.other
    /\ pc[p] \in AfterFolders => db.folders # "unowned"
    /\ pc[p] \in AfterRename => ~db.credentials.notnull
    /\ pc[p] \in AfterInspect /\ ~notnull[p] => ~db.credentials.notnull
    /\ p \in Starters => pc[p] # "out"

\* What takes several statements is in the hands of one who is at them.
Begun ==
    /\ db.folders = "absent" => \E p \in Procs : pc[p] = "create_folders"
    /\ db.strays => db.folders = "unowned" \/ \E p \in Procs : pc[p] \in {"create_folders", "drop_folders", "wipe"}
    /\ db.old.exists => \E p \in Procs : pc[p] \in {"recreate", "copy", "drop"}

Held == lock # NoOne => lock \in Running

Locals == toHash \in [Procs -> BOOLEAN] /\ notnull \in [Procs -> BOOLEAN]
Whole == Later(committed, db) /\ (\A p \in Procs : Reached(p)) /\ Begun /\ Held
WholeInv == RowsInv /\ Locals /\ (failed \/ Whole)

-----------------------------------------------------------------------------

\* A statement that p has done, by what it leaves: all others stand where they stood.
LEMMA OnwardKeepsWhole ==
    ASSUME RowsInv, Whole, NEW p \in Procs, NEW next \in Labels \ {"out"}, Goto(p, next),
           Later(db, db'), committed' \in {committed, db'},
           lock' = NoOne \/ lock' = lock \/ lock' = p, lock' = p => next # "up",
           \A q \in Procs \ {p} : toHash'[q] = toHash[q] /\ notnull'[q] = notnull[q],
           Reached(p)', Begun'
    PROVE  Whole'
<1>1. \A q \in Procs \ {p} : pc'[q] = pc[q]
  BY DEF Goto, RowsInv, Shapes
<1>2. pc'[p] = next
  BY DEF Goto, RowsInv, Shapes
<1>3. Later(committed, db)'
  BY DEF Whole, Later
<1>4. ASSUME NEW q \in Procs PROVE Reached(q)'
  <2>1. CASE q = p
    BY <2>1
  <2>2. CASE q # p
    BY <1>1, <2>2 DEF Whole, Reached, Later
  <2> QED BY <2>1, <2>2
<1>5. Held'
  <2>1. CASE lock' = p
    BY <1>2, <2>1 DEF Held, Running
  <2>2. CASE lock' # p
    BY <1>1, <2>2 DEF Held, Running, Whole
  <2> QED BY <2>1, <2>2
<1> QED BY <1>3, <1>4, <1>5 DEF Whole

\* A step of p that begins nothing and finishes nothing of what takes several.
LEMMA OthersBegun ==
    ASSUME RowsInv, Begun, NEW p \in Procs, NEW next \in Labels, Goto(p, next),
           db'.folders = "absent" => db.folders = "absent",
           db'.strays => db.strays /\ (db.folders = "unowned" => db'.folders = "unowned"),
           db'.old.exists => db.old.exists,
           pc[p] \notin {"create_folders", "drop_folders", "wipe", "recreate", "copy", "drop"}
    PROVE  Begun'
<1>1. \A q \in Procs : q # p => pc'[q] = pc[q]
  BY DEF Goto, RowsInv, Shapes
<1> QED BY <1>1 DEF Begun

\* A look at the database, and nothing to do.
LEMMA LookKeepsWhole ==
    ASSUME RowsInv, Whole, NEW p \in Procs, NEW next \in Labels \ {"out", "up"}, Look(p, next),
           \A q \in Procs \ {p} : toHash'[q] = toHash[q] /\ notnull'[q] = notnull[q],
           pc[p] \notin {"create_folders", "drop_folders", "wipe", "recreate", "copy", "drop"},
           Reached(p)'
    PROVE  Whole'
<1>1. Later(db, db') /\ committed' = committed /\ lock' = lock /\ Goto(p, next)
  BY DEF Look, Later
<1>2. Begun'
  BY <1>1, OthersBegun DEF Look, Whole
<1> QED BY <1>1, <1>2, OnwardKeepsWhole

\* A statement that changes the database.
LEMMA ChangeKeepsWhole ==
    ASSUME RowsInv, Whole, ~failed', NEW p \in Procs, NEW possible, NEW new, NEW next \in Labels \ {"out", "up"},
           Schema(p, possible, new, next) \/ Write(p, possible, new, next),
           possible => Later(db, new),
           db' = new /\ possible /\ Goto(p, next) => Reached(p)' /\ Begun'
    PROVE  Whole'
<1>1. ~Raise(p)
  BY DEF Raise
<1>2. /\ possible /\ db' = new /\ Goto(p, next) /\ committed' \in {committed, new}
      /\ lock' = lock \/ lock' = p
      /\ UNCHANGED <<toHash, notnull>>
  BY <1>1 DEF Schema, Write, localVars
<1>3. Reached(p)' /\ Begun' /\ Later(db, db')
  BY <1>2
<1> QED BY <1>2, <1>3, OnwardKeepsWhole

\* What p sees is there, or has been changed by itself.
LEMMA SeenIsThere ==
    ASSUME Whole, NEW p \in Procs
    PROVE  Later(View(p), db)
BY DEF Whole, Later, View

-----------------------------------------------------------------------------

\* The sets of labels.
LEMMA Order ==
    /\ {"create", "tokens", "rehash", "inspect", "other", "add_other", "add", "folders",
        "rename_folders", "create_folders", "drop_folders", "wipe", "rename", "recreate",
        "copy", "drop", "commit", "up"} \subseteq Labels
    /\ AfterRename \subseteq AfterFolders
    /\ AfterFolders \subseteq AfterOther /\ AfterOther \subseteq AfterInspect
    /\ {"create", "tokens", "rehash", "inspect"} \cap AfterInspect = {}
    /\ {"other", "add_other"} \subseteq AfterInspect \ AfterOther
    /\ {"add", "folders", "rename_folders"} \subseteq AfterOther \ AfterFolders
    /\ {"create_folders", "drop_folders", "wipe", "rename"} \subseteq AfterFolders \ AfterRename
BY DEF AfterRename, AfterFolders, AfterOther, AfterInspect, Labels

\* Where p is to be, and what it knows then.
LEMMA ReachedAt ==
    ASSUME RowsInv, NEW p \in Procs, NEW next, Goto(p, next), next \in Labels \ {"out"}
    PROVE  /\ next \in {"create", "tokens"} => Reached(p)'
           /\ next = "rehash" /\ (~toHash'[p] => db'.token # "plain") => Reached(p)'
           /\ next = "inspect" /\ db'.token # "plain" => Reached(p)'
           /\ /\ next \in AfterInspect /\ db'.token # "plain"
              /\ (~notnull'[p] => ~db'.credentials.notnull)
              /\ (next \in AfterOther => db'.other)
              /\ (next \in AfterFolders => db'.folders # "unowned")
              /\ (next \in AfterRename => ~db'.credentials.notnull)
              => Reached(p)'
<1>1. pc'[p] = next
  BY DEF Goto, RowsInv, Shapes
<1> QED BY <1>1, Order DEF Reached

\* The tables are created and the tokens hashed: whoever saw none in plain text goes on,
\* for no other makes one plain again.
LEMMA TokensKeepWhole ==
    ASSUME WholeInv, ~failed', Whole, NEW p \in Procs, CreateTables(p) \/ ReadTokens(p) \/ Rehash(p)
    PROVE  Whole'
<1>0. RowsInv /\ Locals /\ db \in Database /\ db.credentials \in Table /\ Begun /\ Reached(p)
  BY DEF WholeInv, RowsInv, Shapes, Database, Whole
<1>1. CASE CreateTables(p)
  <2> DEFINE new ==
        [db EXCEPT !.folders = IF @ = "absent" THEN "owned" ELSE @,
                   !.credentials = IF @.exists THEN @ ELSE
                      [NoTable EXCEPT !.exists = TRUE, !.columns = Columns \ {"sent_folder"}]]
  <2>1. /\ new.token = db.token /\ new.other = db.other /\ new.strays = db.strays /\ new.old = db.old
        /\ new.folders = (IF db.folders = "absent" THEN "owned" ELSE db.folders)
        /\ new.credentials.notnull => db.credentials.notnull
    BY <1>0 DEF Database, Table, NoTable
  <2>2. pc[p] = "create" /\ Schema(p, TRUE, new, "tokens")
    BY <1>1 DEF CreateTables
  <2> HIDE DEF new
  <2>3. Later(db, new)
    BY <2>1 DEF Later
  <2>4. ASSUME db' = new, Goto(p, "tokens") PROVE Reached(p)' /\ Begun'
    <3>1. Reached(p)'
      BY <1>0, <2>4, ReachedAt DEF Labels
    <3>2. Begun'
      BY <1>0, <2>1, <2>2, <2>4, OthersBegun DEF Labels
    <3> QED BY <3>1, <3>2
  <2> QED BY <1>0, <2>2, <2>3, <2>4, ChangeKeepsWhole DEF Labels
<1>2. CASE ReadTokens(p)
  <2>1. /\ pc[p] = "tokens" /\ Look(p, "rehash") /\ notnull' = notnull /\ Goto(p, "rehash") /\ db' = db
        /\ toHash' = [toHash EXCEPT ![p] = View(p).token = "plain"]
    BY <1>2 DEF ReadTokens, Look
  <2>2. toHash'[p] = (View(p).token = "plain") /\ \A q \in Procs \ {p} : toHash'[q] = toHash[q]
    BY <1>0, <2>1 DEF Locals
  <2>3. ~toHash'[p] => db'.token # "plain"
    BY <2>1, <2>2, SeenIsThere DEF Later
  <2>4. Reached(p)'
    BY <1>0, <2>1, <2>3, ReachedAt DEF Labels
  <2> QED BY <1>0, <2>1, <2>2, <2>4, LookKeepsWhole DEF Labels
<1>3. CASE Rehash(p)
  <2>0. pc[p] = "rehash"
    BY <1>3 DEF Rehash
  <2>1. CASE toHash[p]
    <3> DEFINE new == [db EXCEPT !.token = "hashed"]
    <3>1. /\ new.token = "hashed" /\ new.other = db.other /\ new.strays = db.strays /\ new.old = db.old
          /\ new.folders = db.folders /\ new.credentials = db.credentials
      BY <1>0 DEF Database
    <3>2. Write(p, TRUE, new, "inspect")
      BY <1>3, <2>1 DEF Rehash
    <3> HIDE DEF new
    <3>3. Later(db, new)
      BY <3>1 DEF Later
    <3>4. ASSUME db' = new, Goto(p, "inspect") PROVE Reached(p)' /\ Begun'
      <4>1. Reached(p)'
        BY <1>0, <3>1, <3>4, ReachedAt DEF Labels
      <4>2. Begun'
        BY <1>0, <2>0, <3>1, <3>4, OthersBegun DEF Labels
      <4> QED BY <4>1, <4>2
    <3> QED BY <1>0, <3>2, <3>3, <3>4, ChangeKeepsWhole DEF Labels
  <2>2. CASE ~toHash[p]
    <3>1. Look(p, "inspect") /\ UNCHANGED <<toHash, notnull, db>> /\ Goto(p, "inspect")
      BY <1>3, <2>2 DEF Rehash, Look, localVars
    <3>2. db'.token # "plain"
      BY <1>0, <2>0, <2>2, <3>1 DEF Reached
    <3>3. Reached(p)'
      BY <1>0, <3>1, <3>2, ReachedAt DEF Labels
    <3> QED BY <1>0, <2>0, <3>1, <3>3, LookKeepsWhole DEF Labels
  <2> QED BY <2>1, <2>2
<1> QED BY <1>1, <1>2, <1>3

\* The columns: each is there when somebody has come past its ALTER TABLE.
LEMMA ColumnsKeepWhole ==
    ASSUME WholeInv, ~failed', Whole, NEW p \in Procs, Inspect(p) \/ OtherColumns(p) \/ AddColumns(p)
    PROVE  Whole'
<1>0. RowsInv /\ Locals /\ db \in Database /\ db.credentials \in Table /\ Begun /\ Reached(p)
  BY DEF WholeInv, RowsInv, Shapes, Database, Whole
<1>1. CASE Inspect(p)
  <2>1. /\ pc[p] = "inspect" /\ Look(p, "other") /\ toHash' = toHash /\ Goto(p, "other") /\ db' = db
        /\ notnull' = [notnull EXCEPT ![p] = View(p).credentials.notnull]
    BY <1>1 DEF Inspect, Look
  <2>2. notnull'[p] = View(p).credentials.notnull /\ \A q \in Procs \ {p} : notnull'[q] = notnull[q]
    BY <1>0, <2>1 DEF Locals
  <2>3. ~notnull'[p] => ~db'.credentials.notnull
    BY <2>1, <2>2, SeenIsThere DEF Later
  <2>4. db.token # "plain"
    BY <1>0, <2>1 DEF Reached
  <2>5. Reached(p)'
    BY <1>0, <2>1, <2>3, <2>4, ReachedAt, Order DEF Labels
  <2> QED BY <1>0, <2>1, <2>2, <2>5, LookKeepsWhole DEF Labels
<1>2. ASSUME NEW next \in {"add", "add_other", "folders"}, Look(p, next), UNCHANGED localVars,
             pc[p] \in {"other", "add"}, next # "add_other" => db.other
      PROVE  Whole'
  <2>1. db' = db /\ Goto(p, next) /\ UNCHANGED <<toHash, notnull>>
    BY <1>2 DEF Look, localVars
  <2>2. db.token # "plain" /\ (~notnull[p] => ~db.credentials.notnull)
    BY <1>0, <1>2, Order DEF Reached
  <2>3. Reached(p)'
    BY <1>0, <1>2, <2>1, <2>2, ReachedAt, Order DEF Labels
  <2> QED BY <1>0, <1>2, <2>1, <2>3, LookKeepsWhole DEF Labels
<1>3. ASSUME NEW possible, NEW new \in Database, NEW next \in {"add", "folders"}, Schema(p, possible, new, next),
             pc[p] \in {"add_other", "add"}, new.other,
             /\ new.token = db.token /\ new.strays = db.strays /\ new.old = db.old
             /\ new.folders = db.folders /\ new.credentials.notnull = db.credentials.notnull
      PROVE  Whole'
  <2>1. db.token # "plain" /\ (~notnull[p] => ~db.credentials.notnull)
    BY <1>0, <1>3, Order DEF Reached
  <2>2. Later(db, new)
    BY <1>3 DEF Later
  <2>3. ASSUME db' = new, Goto(p, next), notnull' = notnull PROVE Reached(p)' /\ Begun'
    <3>1. Reached(p)'
      BY <1>0, <1>3, <2>1, <2>3, ReachedAt, Order DEF Labels
    <3>2. Begun'
      BY <1>0, <1>3, <2>3, OthersBegun DEF Labels
    <3> QED BY <3>1, <3>2
  <2>4. ~Raise(p) /\ notnull' = notnull
    BY <1>3 DEF Raise, Schema, localVars
  <2> QED BY <1>0, <1>3, <2>2, <2>3, <2>4, ChangeKeepsWhole DEF Labels
<1>4. CASE OtherColumns(p)
  <2> DEFINE new == [db EXCEPT !.other = TRUE]
  <2>1. /\ new \in Database /\ new.other /\ new.token = db.token /\ new.strays = db.strays /\ new.old = db.old
        /\ new.folders = db.folders /\ new.credentials.notnull = db.credentials.notnull
    BY <1>0 DEF Database
  <2>2. View(p).other => db.other
    BY SeenIsThere DEF Later
  <2> QED BY <1>2, <1>3, <1>4, <2>1, <2>2 DEF OtherColumns
<1>5. CASE AddColumns(p)
  <2> DEFINE new == [db EXCEPT !.credentials.columns = @ \cup missing[p]]
             possible == db.credentials.exists /\ missing[p] \cap db.credentials.columns = {}
  <2>0. pc[p] = "add" /\ db.other /\ missing[p] \subseteq Columns
    BY <1>0, <1>5, Order DEF AddColumns, Reached, RowsInv, Shapes
  <2>1. /\ new \in Database /\ new.other /\ new.token = db.token /\ new.strays = db.strays /\ new.old = db.old
        /\ new.folders = db.folders /\ new.credentials.notnull = db.credentials.notnull
    BY <1>0, <2>0 DEF Database, Table
  <2>2. \/ Look(p, "folders") /\ UNCHANGED localVars
        \/ Schema(p, possible, new, "folders")
    BY <1>5 DEF AddColumns
  <2> HIDE DEF new, possible
  <2> QED BY <1>2, <1>3, <2>0, <2>1, <2>2
<1> QED BY <1>1, <1>4, <1>5

\* The folders of the mirror are replaced in four statements.  Another may look between
\* them, and go on, but whoever began finishes, or has failed.
LEMMA FoldersKeepWhole ==
    ASSUME WholeInv, ~failed', Whole, NEW p \in Procs, InspectFolders(p) \/ OwnFolders(p) \/ WipeMessages(p)
    PROVE  Whole'
<1>0. RowsInv /\ Locals /\ db \in Database /\ Begun /\ Reached(p)
  BY DEF WholeInv, RowsInv, Shapes, Whole
<1>1. /\ pc[p] \in {"folders", "rename_folders", "create_folders", "drop_folders", "wipe"}
      /\ db.token # "plain" /\ (~notnull[p] => ~db.credentials.notnull) /\ db.other
      /\ pc[p] \in {"create_folders", "drop_folders", "wipe"} => db.folders # "unowned"
  <2>1. pc[p] \in {"folders", "rename_folders", "create_folders", "drop_folders", "wipe"}
    BY DEF InspectFolders, OwnFolders, WipeMessages
  <2> QED BY <1>0, <2>1, Order DEF Reached
<1>2. CASE InspectFolders(p)
  <2> DEFINE next == IF View(p).folders = "unowned" THEN "rename_folders" ELSE "rename"
  <2>1. Look(p, next) /\ Goto(p, next) /\ db' = db /\ UNCHANGED <<toHash, notnull>> /\ pc[p] = "folders"
    BY <1>2 DEF InspectFolders, Look, localVars
  <2>2. next = "rename" => db.folders # "unowned"
    BY SeenIsThere DEF Later
  <2>3. next \in {"rename", "rename_folders"}
    OBVIOUS
  <2> HIDE DEF next
  <2>4. Reached(p)'
    BY <1>0, <1>1, <2>1, <2>2, <2>3, ReachedAt, Order DEF Labels
  <2> QED BY <1>0, <2>1, <2>3, <2>4, LookKeepsWhole DEF Labels
<1>3. ASSUME NEW possible, NEW new \in Database, NEW next \in {"create_folders", "drop_folders", "wipe", "rename"},
             Schema(p, possible, new, next) \/ Write(p, possible, new, next),
             new.token = db.token, new.other = db.other, new.credentials = db.credentials,
             possible => new.folders # "unowned",
             db' = new /\ Goto(p, next) => Begun'
      PROVE  Whole'
  <2>1. possible => Later(db, new)
    BY <1>3 DEF Later
  <2>2. ~Raise(p) /\ notnull' = notnull /\ possible
    BY <1>3 DEF Raise, Schema, Write, localVars
  <2>3. ASSUME db' = new, Goto(p, next) PROVE Reached(p)' /\ Begun'
    <3>1. Reached(p)'
      BY <1>0, <1>1, <1>3, <2>2, <2>3, ReachedAt, Order DEF Labels
    <3> QED BY <1>3, <2>3, <3>1
  <2> QED BY <1>0, <1>3, <2>1, <2>3, ChangeKeepsWhole DEF Labels
<1>4. \A next : Goto(p, next) => pc'[p] = next /\ \A q \in Procs : q # p => pc'[q] = pc[q]
  BY <1>0 DEF Goto, RowsInv, Shapes
<1>5. CASE OwnFolders(p) /\ pc[p] = "rename_folders"
  <2> DEFINE new == [db EXCEPT !.folders = "absent", !.aside = TRUE]
             possible == db.folders # "absent" /\ ~db.aside
  <2>1. /\ new \in Database /\ new.token = db.token /\ new.other = db.other /\ new.credentials = db.credentials
        /\ new.old = db.old /\ new.strays = db.strays /\ new.folders = "absent"
    BY <1>0 DEF Database
  <2>2. Schema(p, possible, new, "create_folders")
    BY <1>5 DEF OwnFolders
  <2> HIDE DEF new, possible
  <2>3. db' = new /\ Goto(p, "create_folders") => Begun'
    BY <1>0, <1>4, <1>5, <2>1 DEF Begun
  <2> QED BY <1>3, <2>1, <2>2, <2>3
<1>6. CASE OwnFolders(p) /\ pc[p] = "create_folders"
  <2> DEFINE new == [db EXCEPT !.folders = "owned"]
             possible == db.folders = "absent"
  <2>1. /\ new \in Database /\ new.token = db.token /\ new.other = db.other /\ new.credentials = db.credentials
        /\ new.old = db.old /\ new.strays = db.strays /\ new.folders = "owned"
    BY <1>0 DEF Database
  <2>2. Schema(p, possible, new, "drop_folders")
    BY <1>6 DEF OwnFolders
  <2> HIDE DEF new, possible
  <2>3. db' = new /\ Goto(p, "drop_folders") => Begun'
    BY <1>0, <1>1, <1>4, <1>6, <2>1 DEF Begun
  <2> QED BY <1>3, <2>1, <2>2, <2>3
<1>7. CASE OwnFolders(p) /\ pc[p] = "drop_folders"
  <2> DEFINE new == [db EXCEPT !.aside = FALSE]
             possible == db.aside
  <2>1. /\ new \in Database /\ new.token = db.token /\ new.other = db.other /\ new.credentials = db.credentials
        /\ new.old = db.old /\ new.strays = db.strays /\ new.folders = db.folders
    BY <1>0 DEF Database
  <2>2. Schema(p, possible, new, "wipe")
    BY <1>7 DEF OwnFolders
  <2> HIDE DEF new, possible
  <2>3. db' = new /\ Goto(p, "wipe") => Begun'
    BY <1>0, <1>1, <1>4, <1>7, <2>1 DEF Begun
  <2> QED BY <1>1, <1>3, <1>7, <2>1, <2>2, <2>3
<1>8. CASE WipeMessages(p)
  <2> DEFINE new == [db EXCEPT !.strays = FALSE]
  <2>1. /\ new \in Database /\ new.token = db.token /\ new.other = db.other /\ new.credentials = db.credentials
        /\ new.old = db.old /\ ~new.strays /\ new.folders = db.folders
    BY <1>0 DEF Database
  <2>2. Write(p, TRUE, new, "rename") /\ pc[p] = "wipe"
    BY <1>8 DEF WipeMessages
  <2> HIDE DEF new
  <2>3. db' = new /\ Goto(p, "rename") => Begun'
    BY <1>0, <1>1, <1>4, <2>1, <2>2 DEF Begun
  <2> QED BY <1>1, <1>3, <2>1, <2>2, <2>3
<1> QED BY <1>2, <1>5, <1>6, <1>7, <1>8 DEF OwnFolders

\* agent_credentials is rebuilt in four statements.  Only one can be at it: for a second
\* there is a table set aside already, and it fails.
LEMMA RebuildKeepsWhole ==
    ASSUME WholeInv, ~failed', Whole, NEW p \in Procs, SetAside(p) \/ Recreate(p) \/ Copy(p) \/ DropOld(p)
    PROVE  Whole'
<1>0. RowsInv /\ Locals /\ db \in Database /\ db.credentials \in Table /\ Begun /\ Reached(p)
  BY DEF WholeInv, RowsInv, Shapes, Database, Whole
<1>1. /\ pc[p] \in {"rename", "recreate", "copy", "drop"}
      /\ db.token # "plain" /\ (~notnull[p] => ~db.credentials.notnull) /\ db.other
      /\ db.folders # "unowned" /\ (pc[p] # "rename" => ~db.credentials.notnull)
  <2>1. pc[p] \in {"rename", "recreate", "copy", "drop"}
    BY DEF SetAside, Recreate, Copy, DropOld
  <2> QED BY <1>0, <2>1, Order DEF Reached, AfterRename
<1>2. \A next : Goto(p, next) => pc'[p] = next /\ \A q \in Procs : q # p => pc'[q] = pc[q]
  BY <1>0 DEF Goto, RowsInv, Shapes
<1>3. ASSUME NEW possible, NEW new \in Database, NEW next \in {"recreate", "copy", "drop", "commit"},
             Schema(p, possible, new, next) \/ Write(p, possible, new, next),
             new.token = db.token, new.other = db.other, new.folders = db.folders, new.strays = db.strays,
             ~new.credentials.notnull, new.old.exists => next # "commit"
      PROVE  Whole'
  <2>1. possible => Later(db, new)
    BY <1>3 DEF Later
  <2>2. ~Raise(p) /\ notnull' = notnull /\ possible
    BY <1>3 DEF Raise, Schema, Write, localVars
  <2>3. ASSUME db' = new, Goto(p, next) PROVE Reached(p)' /\ Begun'
    <3>1. Reached(p)'
      BY <1>0, <1>1, <1>3, <2>2, <2>3, ReachedAt, Order DEF Labels, AfterRename
    <3>2. pc'[p] = next /\ \A q \in Procs : q # p => pc'[q] = pc[q]
      BY <1>2, <2>3
    <3>3. Begun'
      BY <1>0, <1>1, <1>3, <2>3, <3>2 DEF Begun
    <3> QED BY <3>1, <3>3
  <2> QED BY <1>0, <1>3, <2>1, <2>3, ChangeKeepsWhole DEF Labels
<1>4. CASE SetAside(p)
  <2>1. CASE notnull[p]
    <3> DEFINE new == [db EXCEPT !.old = db.credentials, !.credentials = NoTable]
               possible == db.credentials.exists /\ ~db.old.exists
    <3>1. /\ new \in Database /\ new.token = db.token /\ new.other = db.other /\ new.folders = db.folders
          /\ new.strays = db.strays /\ ~new.credentials.notnull
      BY <1>0, TableTypes DEF Database, NoTable
    <3>2. Schema(p, possible, new, "recreate")
      BY <1>4, <2>1 DEF SetAside
    <3> HIDE DEF new, possible
    <3> QED BY <1>3, <3>1, <3>2
  <2>2. CASE ~notnull[p]
    <3>1. Look(p, "commit") /\ UNCHANGED <<toHash, notnull, db>> /\ Goto(p, "commit") /\ pc[p] = "rename"
      BY <1>4, <2>2 DEF SetAside, Look, localVars
    <3>2. Reached(p)'
      BY <1>0, <1>1, <2>2, <3>1, ReachedAt, Order DEF Labels, AfterRename
    <3> QED BY <1>0, <3>1, <3>2, LookKeepsWhole DEF Labels
  <2> QED BY <2>1, <2>2
<1>5. CASE Recreate(p)
  <2> DEFINE new == [db EXCEPT !.credentials = [NoTable EXCEPT !.exists = TRUE, !.columns = {"oauth2_provider"}]]
  <2>1. /\ new \in Database /\ new.token = db.token /\ new.other = db.other /\ new.folders = db.folders
        /\ new.strays = db.strays /\ ~new.credentials.notnull
    <3>1. [NoTable EXCEPT !.exists = TRUE, !.columns = {"oauth2_provider"}] \in Table
      BY DEF Table, NoTable, Columns
    <3> QED BY <1>0, <3>1 DEF Database, NoTable
  <2>2. Schema(p, ~db.credentials.exists, new, "copy")
    BY <1>5 DEF Recreate
  <2> HIDE DEF new
  <2> QED BY <1>3, <2>1, <2>2
<1>6. CASE Copy(p)
  <2> DEFINE new ==
        [db EXCEPT !.credentials.rows = @ \cup db.old.rows,
                   !.credentials.last = IF db.old.last > @ THEN db.old.last ELSE @]
             possible ==
        db.old.exists /\ db.credentials.exists /\ Ids(db.old.rows) \cap Ids(db.credentials.rows) = {}
  <2>0. pc[p] = "copy" /\ Write(p, possible, new, "drop")
    BY <1>6 DEF Copy
  <2>1. /\ new \in Database /\ new.token = db.token /\ new.other = db.other /\ new.folders = db.folders
        /\ new.strays = db.strays /\ new.credentials.notnull = db.credentials.notnull
    BY <1>0 DEF Database, Table
  <2> HIDE DEF new, possible
  <2> QED BY <1>1, <1>3, <2>0, <2>1
<1>7. CASE DropOld(p)
  <2> DEFINE new == [db EXCEPT !.old = NoTable]
  <2>0. pc[p] = "drop" /\ Schema(p, db.old.exists, new, "commit")
    BY <1>7 DEF DropOld
  <2>1. /\ new \in Database /\ new.token = db.token /\ new.other = db.other /\ new.folders = db.folders
        /\ new.strays = db.strays /\ new.credentials.notnull = db.credentials.notnull /\ ~new.old.exists
    BY <1>0, TableTypes DEF Database, NoTable
  <2> HIDE DEF new
  <2> QED BY <1>1, <1>3, <2>0, <2>1
<1> QED BY <1>4, <1>5, <1>6, <1>7

\* The end: what was done is what all see.
LEMMA CommitKeepsWhole ==
    ASSUME WholeInv, Whole, NEW p \in Procs, Commit(p)
    PROVE  Whole'
<1>0. RowsInv /\ Begun /\ Reached(p)
  BY DEF WholeInv, Whole
<1>1. /\ pc[p] = "commit" /\ Goto(p, "up") /\ UNCHANGED <<db, toHash, notnull>>
      /\ committed' \in {committed, db}
      /\ lock' = (IF lock = p THEN NoOne ELSE lock)
  BY DEF Commit, localVars
<1>2. Later(db, db')
  BY <1>1 DEF Later
<1>3. Reached(p)'
  BY <1>0, <1>1, ReachedAt, Order DEF Labels, AfterRename, Reached
<1>4. Begun'
  BY <1>0, <1>1, OthersBegun DEF Labels
<1>5. p # NoOne
  BY MigrationAssumption DEF Procs
<1>6. lock' # p
  BY <1>1, <1>5
<1> QED BY <1>0, <1>1, <1>2, <1>3, <1>4, <1>6, OnwardKeepsWhole DEF Labels

\* A change that no init_db makes.
LEMMA ElsewhereKeepsWhole ==
    ASSUME WholeInv, Whole, lock = NoOne, committed' = db', UNCHANGED <<lock, pc, localVars>>,
           Later(db, db'), db'.folders = db.folders, db'.strays = db.strays, db'.old = db.old
    PROVE  Whole'
BY DEF Whole, Later, Reached, Begun, Held, localVars

\* A crash while no init_db is under way loses nothing, one within an init_db is a failure.
LEMMA EnvironmentKeepsWhole ==
    ASSUME WholeInv, ~failed', Whole,
           (\E a \in Agents : AddAgent(a)) \/ Login \/ Crash \/ \E p \in Procs : BusyTimeout(p) \/ Connect(p)
    PROVE  Whole'
<1>0. RowsInv /\ Locals /\ db \in Database /\ db.credentials \in Table
  BY DEF WholeInv, RowsInv, Shapes, Database
<1>1. ASSUME NEW a \in Agents, AddAgent(a) PROVE Whole'
  <2> DEFINE row == <<a, db.credentials.last + 1>>
             new == [db EXCEPT !.credentials.rows = @ \cup {row}, !.credentials.last = @ + 1]
  <2>1. db' = new /\ committed' = new /\ lock = NoOne /\ UNCHANGED <<lock, pc, localVars>>
    BY <1>1 DEF AddAgent
  <2>2. /\ new.token = db.token /\ new.other = db.other /\ new.folders = db.folders /\ new.old = db.old
        /\ new.strays = db.strays /\ new.credentials.notnull = db.credentials.notnull
    <3> HIDE DEF row
    <3> QED BY <1>0 DEF Database, Table
  <2> HIDE DEF new
  <2>3. Later(db, db')
    BY <2>1, <2>2 DEF Later
  <2> QED BY <2>1, <2>2, <2>3, ElsewhereKeepsWhole
<1>2. CASE Login
  <2>1. db' = [db EXCEPT !.token = "new"] /\ committed' = db' /\ lock = NoOne /\ UNCHANGED <<lock, pc, localVars>>
    BY <1>2 DEF Login
  <2>2. /\ db'.token = "new" /\ db'.other = db.other /\ db'.folders = db.folders /\ db'.old = db.old
        /\ db'.strays = db.strays /\ db'.credentials = db.credentials
    BY <1>0, <2>1 DEF Database
  <2>3. Later(db, db')
    BY <2>2 DEF Later
  <2> QED BY <2>1, <2>2, <2>3, ElsewhereKeepsWhole
<1>3. CASE Crash
  <2>1. Running = {} /\ RestartContainer /\ UNCHANGED committed
    BY <1>3 DEF Crash
  <2>2. lock = NoOne /\ committed = db
    BY <1>0, <2>1 DEF Whole, Held, RowsInv, Isolated
  <2>3. db' = db /\ committed' = db /\ lock' = NoOne
    BY <2>1, <2>2 DEF RestartContainer
  <2>4. /\ db.folders # "absent" /\ ~db.old.exists /\ (db.strays => db.folders = "unowned")
    BY <2>1 DEF Whole, Begun, Running
  <2>5. Begun' /\ Held' /\ Later(committed, db)'
    BY <2>3, <2>4 DEF Begun, Held, Later
  <2>6. \A q \in Procs : pc'[q] = (IF q \in Starters THEN "create" ELSE "out")
    BY <2>1 DEF RestartContainer
  <2>7. \A q \in Procs : Reached(q)'
    BY <2>6 DEF Reached, AfterInspect, AfterOther, AfterFolders, AfterRename
  <2> QED BY <2>5, <2>7 DEF Whole
<1>4. ASSUME NEW p \in Procs, BusyTimeout(p) PROVE Whole'
  BY <1>4 DEF BusyTimeout, Raise
<1>5. ASSUME NEW c \in Procs, Connect(c) PROVE Whole'
  <2>1. Goto(c, "create") /\ UNCHANGED <<db, committed, lock, toHash, notnull>> /\ pc[c] \in {"out", "up"}
    BY <1>5 DEF Connect, localVars
  <2>2. Later(db, db')
    BY <2>1 DEF Later
  <2>3. Reached(c)'
    BY <1>0, <2>1, ReachedAt DEF Labels
  <2>4. Begun'
    BY <1>0, <2>1, OthersBegun DEF Labels, Whole
  <2> QED BY <1>0, <2>1, <2>2, <2>3, <2>4, OnwardKeepsWhole DEF Labels
<1> QED BY <1>1, <1>2, <1>3, <1>4, <1>5

\* What the processes remember is a flag each.
LEMMA StepKeepsLocals == RowsInv /\ Locals /\ [Next]_vars => Locals'
<1> SUFFICES ASSUME RowsInv, Locals, [Next]_vars PROVE Locals'
  OBVIOUS
<1>1. UNCHANGED localVars => Locals'
  BY DEF localVars, Locals
<1>2. RestartContainer => Locals'
  BY DEF RestartContainer, Locals
<1>3. ASSUME NEW p \in Procs, Raise(p) PROVE Locals'
  BY <1>1, <1>2, <1>3 DEF Raise
<1>4. ASSUME NEW p \in Procs, NEW possible, NEW new, NEW next, Schema(p, possible, new, next) PROVE Locals'
  BY <1>1, <1>3, <1>4 DEF Schema
<1>5. ASSUME NEW p \in Procs, NEW possible, NEW new, NEW next, Write(p, possible, new, next) PROVE Locals'
  BY <1>1, <1>3, <1>5 DEF Write
<1>6. ASSUME NEW p \in Procs, ReadTokens(p) \/ Inspect(p) PROVE Locals'
  <2>1. View(p).credentials.notnull \in BOOLEAN
    BY DEF View, RowsInv, Shapes, Database, Table
  <2>2. CASE ReadTokens(p)
    BY <2>2 DEF ReadTokens, Locals
  <2>3. CASE Inspect(p)
    BY <2>1, <2>3 DEF Inspect, Locals
  <2> QED BY <1>6, <2>2, <2>3
<1>7. ASSUME NEW p \in Procs, Statement(p) PROVE Locals'
  <2>1. CASE CreateTables(p) \/ Rehash(p) \/ Recreate(p) \/ Copy(p) \/ DropOld(p) \/ Commit(p)
    BY <1>1, <1>4, <1>5, <2>1 DEF CreateTables, Rehash, Recreate, Copy, DropOld, Commit
  <2>2. CASE OtherColumns(p) \/ AddColumns(p) \/ InspectFolders(p) \/ OwnFolders(p)
    BY <1>1, <1>4, <2>2 DEF OtherColumns, AddColumns, InspectFolders, OwnFolders
  <2>3. CASE WipeMessages(p) \/ SetAside(p)
    BY <1>1, <1>4, <1>5, <2>3 DEF WipeMessages, SetAside
  <2> QED BY <1>6, <1>7, <2>1, <2>2, <2>3 DEF Statement
<1>8. ASSUME NEW p \in Procs, BusyTimeout(p) \/ Connect(p) PROVE Locals'
  BY <1>1, <1>3, <1>8 DEF BusyTimeout, Connect
<1>9. CASE (\E a \in Agents : AddAgent(a)) \/ Login \/ Crash
  BY <1>1, <1>2, <1>9 DEF AddAgent, Login, Crash
<1>10. CASE UNCHANGED vars
  BY <1>1, <1>10 DEF vars
<1> QED BY <1>7, <1>8, <1>9, <1>10 DEF Next

\* A failure is not forgotten.
LEMMA FailureStays == failed /\ [Next]_vars => failed'
<1> SUFFICES ASSUME failed, [Next]_vars PROVE failed'
  OBVIOUS
<1>1. UNCHANGED histVars => failed'
  BY DEF histVars
<1>2. ASSUME NEW p \in Procs, Raise(p) PROVE failed'
  BY <1>2 DEF Raise
<1>3. ASSUME NEW p \in Procs, NEW possible, NEW new, NEW next,
             Schema(p, possible, new, next) \/ Write(p, possible, new, next) PROVE failed'
  BY <1>1, <1>2, <1>3 DEF Schema, Write
<1>4. ASSUME NEW p \in Procs, NEW next, Look(p, next) PROVE failed'
  BY <1>1, <1>4 DEF Look
<1>5. ASSUME NEW p \in Procs, Statement(p) PROVE failed'
  <2>1. CASE CreateTables(p) \/ ReadTokens(p) \/ Rehash(p) \/ Inspect(p) \/ Recreate(p) \/ Copy(p) \/ DropOld(p)
    BY <1>3, <1>4, <2>1 DEF CreateTables, ReadTokens, Rehash, Inspect, Recreate, Copy, DropOld
  <2>2. CASE OtherColumns(p) \/ AddColumns(p) \/ InspectFolders(p) \/ OwnFolders(p)
    BY <1>3, <1>4, <2>2 DEF OtherColumns, AddColumns, InspectFolders, OwnFolders
  <2>3. CASE WipeMessages(p) \/ SetAside(p)
    BY <1>3, <1>4, <2>3 DEF WipeMessages, SetAside
  <2>4. CASE Commit(p)
    BY <2>4 DEF Commit
  <2> QED BY <1>5, <2>1, <2>2, <2>3, <2>4 DEF Statement
<1>6. ASSUME NEW p \in Procs, BusyTimeout(p) \/ Connect(p) PROVE failed'
  BY <1>1, <1>2, <1>6 DEF BusyTimeout, Connect
<1>7. CASE Crash
  BY <1>7, Zenon DEF Crash
<1>8. CASE (\E a \in Agents : AddAgent(a)) \/ Login
  BY <1>1, <1>8 DEF AddAgent, Login
<1>9. CASE UNCHANGED vars
  BY <1>1, <1>9 DEF vars
<1> QED BY <1>5, <1>6, <1>7, <1>8, <1>9 DEF Next

\* All the steps of Next.
LEMMA StepKeepsWhole == WholeInv /\ [Next]_vars => WholeInv'
<1> SUFFICES ASSUME WholeInv, [Next]_vars PROVE WholeInv'
  OBVIOUS
<1>1. RowsInv' /\ Locals'
  BY StepKeepsRows, StepKeepsLocals DEF WholeInv
<1>2. CASE failed'
  BY <1>1, <1>2 DEF WholeInv
<1>3. CASE ~failed'
  <2>1. Whole
    BY <1>3, FailureStays DEF WholeInv
  <2>2. ASSUME NEW p \in Procs, Statement(p) PROVE Whole'
    BY <1>3, <2>1, <2>2, TokensKeepWhole, ColumnsKeepWhole, FoldersKeepWhole, RebuildKeepsWhole, CommitKeepsWhole
       DEF Statement
  <2>3. CASE UNCHANGED vars
    <3>1. UNCHANGED <<db, committed, lock, pc, toHash, notnull>>
      BY <2>3 DEF vars, localVars
    <3>2. Later(committed, db)'
      BY <2>1, <3>1 DEF Later, Whole
    <3>3. \A p \in Procs : Reached(p)'
      BY <2>1, <3>1 DEF Reached, Whole
    <3>4. Begun'
      BY <2>1, <3>1 DEF Begun, Whole
    <3>5. Held'
      BY <2>1, <3>1 DEF Held, Running, Whole
    <3> QED BY <1>1, <3>2, <3>3, <3>4, <3>5 DEF Whole, WholeInv
  <2>4. ASSUME (\E a \in Agents : AddAgent(a)) \/ Login \/ Crash \/ \E p \in Procs : BusyTimeout(p) \/ Connect(p)
        PROVE  Whole'
    BY <1>3, <2>1, <2>4, EnvironmentKeepsWhole
  <2> QED BY <1>1, <2>2, <2>3, <2>4 DEF WholeInv, Next
<1> QED BY <1>2, <1>3

\* The old database, and every process that starts at its first statement.
LEMMA InitIsWhole == Init => WholeInv
<1> SUFFICES ASSUME Init PROVE WholeInv
  OBVIOUS
<1>1. RowsInv /\ Locals
  BY InitKeepsRows DEF Init, Locals
<1>2. /\ committed = db /\ lock = NoOne /\ db.folders \in {"unowned", "owned"} /\ (db.strays <=> db.folders = "unowned")
      /\ db.old = NoTable
  BY DEF Init, Legacy
<1>3. Later(committed, db) /\ Begun /\ Held
  BY <1>2 DEF Later, Begun, Held, NoTable
<1>4. \A p \in Procs : pc[p] \in {"create", "out"} /\ (p \in Starters => pc[p] # "out")
  BY DEF Init
<1>5. \A p \in Procs : Reached(p)
  BY <1>4 DEF Reached, AfterInspect, AfterOther, AfterFolders, AfterRename
<1> QED BY <1>1, <1>3, <1>5 DEF WholeInv, Whole

\* When no init_db has failed and none is under way, however many processes ran it at
\* once, the migration is complete (init_db): each row is in the table, no token is in
\* plain text, no column is missing, no message of a folder without owner is left.
THEOREM AlwaysMigratedWhole == Spec => []MigratedWhole
<1>1. WholeInv => MigratedWhole
  <2> SUFFICES ASSUME WholeInv, ~failed, Running = {}
               PROVE  /\ added \subseteq db.credentials.rows /\ ~db.credentials.notnull
                      /\ db.token # "plain" /\ db.other /\ db.folders = "owned" /\ ~db.strays
    BY DEF MigratedWhole
  <2>1. PICK p \in Starters : TRUE
    BY MigrationAssumption
  <2>2. \A q \in Procs : pc[q] \in {"out", "up"}
    BY DEF Running
  <2>3. p \in Procs /\ Reached(p)
    BY DEF WholeInv, Whole, Procs
  <2>4. pc[p] = "up"
    BY <2>2, <2>3 DEF Reached
  <2>5. "up" \in AfterRename /\ "up" \in AfterFolders /\ "up" \in AfterOther /\ "up" \in AfterInspect
    BY DEF AfterRename, AfterFolders, AfterOther, AfterInspect, Labels
  <2>6. ~db.credentials.notnull /\ db.token # "plain" /\ db.other /\ db.folders # "unowned"
    BY <2>3, <2>4, <2>5 DEF Reached
  <2>7. db.folders # "absent" /\ ~db.old.exists /\ ~db.strays
    BY <2>2, <2>6 DEF WholeInv, Whole, Begun
  <2>8. db.folders = "owned"
    BY <2>6, <2>7 DEF WholeInv, RowsInv, Shapes, Database
  <2>9. added \subseteq db.credentials.rows
    BY <2>7 DEF WholeInv, RowsInv, Keeps
  <2> QED BY <2>6, <2>7, <2>8, <2>9
<1> QED
  BY <1>1, InitIsWhole, StepKeepsWhole, PTL DEF Spec

-----------------------------------------------------------------------------
(* The login of an IMAP connection *)

\* What is numbered comes in order; all of it is above a number, or below one.
Increasing(s) == \A i, j \in DOMAIN s : i < j => s[i][1] < s[j][1]
Above(s, n) == \A i \in DOMAIN s : n < s[i][1]
Below(s, n) == \A i \in DOMAIN s : s[i][1] < n

\* What ends an answer of the upstream server.
Ends == {"OK", "NO", "plus", "caps", "list"}

\* The request the coroutine waits for, and what can end the answer to it.
Asking ==
    CASE phase = "auth" -> {IF oauth THEN "xoauth2" ELSE "login"}
      [] phase \in {"abort", "caps", "list"} -> {phase}
      [] phase = "pumps" /\ gaveUp -> {"caps", "list"}
      [] OTHER -> {}
Awaited ==
    CASE phase = "auth" -> IF oauth THEN {"OK", "NO", "plus"} ELSE {"OK", "NO"}
      [] phase = "abort" -> {"NO"}
      [] OTHER -> Asking

Unanswered ==
    {"challenge", "attempt", "verify", "fetch", "connect", "hello", "token", "auth", "abort"}
Verified ==
    {"fetch", "connect", "hello", "token", "auth", "abort", "caps", "list", "pumps"}
Requests == {"xoauth2", "login", "abort", "caps", "list"}
Lines == Ends \cup {"hello", "note", "special"}

ClientTypes ==
    /\ phase \in Unanswered \cup Verified \cup {"greet", "command", "closed"}
    /\ inbox \in Seq(Nat \X Imap!Verbs) /\ sent \in Nat /\ tag \in 0 .. sent
    /\ answers \in Seq(Nat \X {"OK", "NO"})
ServerTypes ==
    /\ oauth \in BOOLEAN /\ gaveUp \in BOOLEAN
    /\ asked \in Seq(Requests) /\ lines \in Seq(Lines)

\* Commands are taken in the order in which they were sent, each is answered before the
\* next is taken.
Numbered ==
    /\ Increasing(answers) /\ Increasing(inbox)
    /\ Below(answers, sent + 1) /\ Below(inbox, sent + 1) 
    /\ Above(inbox, tag) /\ Above(answers, 0) /\ Above(inbox, 0)
    /\ \A i \in DOMAIN answers : Above(inbox, answers[i][1])
    /\ phase \in {"greet", "command"} => tag = 0
    /\ phase \notin {"greet", "command", "closed"} => 0 < tag
    /\ phase \in Unanswered => Below(answers, tag)

\* One request is under way at most, and it is the one that is waited for.
Clear(s) == \A k \in DOMAIN s : s[k] \notin Ends
AtMostOne(s, X) ==
    /\ \A j, k \in DOMAIN s : s[j] \in Ends /\ s[k] \in Ends => j = k
    /\ \A k \in DOMAIN s : s[k] \in Ends => s[k] \in X
Truthful(s) == \A k \in DOMAIN s : s[k] = "OK" => accepted
Conversing ==
    /\ asked # <<>> => alive
    /\ phase = "closed" => ~alive
    /\ phase = "token" => oauth
    /\ Truthful(lines)
    /\ phase # "closed" => AtMostOne(lines, Awaited)
    /\ phase # "closed" /\ asked # <<>> => (\E r \in Asking : asked = <<r>>) /\ Clear(lines)

Told ==
    /\ phase \in Verified => verified
    /\ \A i \in DOMAIN answers : answers[i] = <<tag, "OK">> => verified /\ accepted
    /\ leaked # {} => gaveUp

LoginInv == ClientTypes /\ ServerTypes /\ Numbered /\ Conversing /\ Told

-----------------------------------------------------------------------------
\* The elements of a tail, and of a sequence with one more.
LEMMA TailElements ==
    ASSUME NEW X, NEW s \in Seq(Nat \X X), s # <<>>
    PROVE  /\ Head(s) = s[1] /\ 1 \in DOMAIN s /\ Head(s) \in Nat \X X /\ Tail(s) \in Seq(Nat \X X)
           /\ \A i \in DOMAIN Tail(s) : i \in Nat /\ i + 1 \in DOMAIN s /\ Tail(s)[i] = s[i + 1] /\ 1 < i + 1
           /\ \A i \in DOMAIN s : s[i] \in Nat \X X
OBVIOUS

\* The elements of a sequence with one more.
LEMMA AppendElements ==
    ASSUME NEW X, NEW s \in Seq(Nat \X X), NEW e \in Nat \X X
    PROVE  /\ Append(s, e) \in Seq(Nat \X X)
           /\ \A i \in DOMAIN Append(s, e) : \/ i = Len(s) + 1 /\ Append(s, e)[i] = e
                                             \/ i \in DOMAIN s /\ Append(s, e)[i] = s[i]
           /\ DOMAIN s = 1 .. Len(s) /\ Len(s) \in Nat
           /\ \A i \in DOMAIN s : s[i] \in Nat \X X
OBVIOUS

\* What is left when the first has been taken is in order, and above it.
LEMMA TailIsIncreasing ==
    ASSUME NEW X, NEW s \in Seq(Nat \X X), s # <<>>, Increasing(s)
    PROVE  Increasing(Tail(s)) /\ Above(Tail(s), Head(s)[1])
<1>0. /\ Head(s) = s[1] /\ 1 \in DOMAIN s
      /\ \A i \in DOMAIN Tail(s) : i \in Nat /\ i + 1 \in DOMAIN s /\ Tail(s)[i] = s[i + 1] /\ 1 < i + 1
  BY TailElements
<1>1. \A i, j \in DOMAIN Tail(s) : i < j => i + 1 < j + 1
  BY <1>0
<1>2. Increasing(Tail(s))
  BY ONLY <1>0, <1>1, Increasing(s) DEF Increasing
<1>3. Above(Tail(s), Head(s)[1])
  BY ONLY <1>0, Increasing(s) DEF Increasing, Above
<1> QED BY <1>2, <1>3

\* What is above a number stays there.
LEMMA TailIsAbove ==
    ASSUME NEW X, NEW s \in Seq(Nat \X X), s # <<>>, NEW n \in Nat, Above(s, n)
    PROVE  Above(Tail(s), n) /\ n < Head(s)[1]
BY TailElements DEF Above

\* What is below a number stays there.
LEMMA TailIsBelow ==
    ASSUME NEW X, NEW s \in Seq(Nat \X X), s # <<>>, NEW n \in Nat, Below(s, n)
    PROVE  Below(Tail(s), n) /\ Head(s)[1] < n
BY TailElements DEF Below

\* One that is above all others may be appended.
LEMMA AppendIsIncreasing ==
    ASSUME NEW X, NEW s \in Seq(Nat \X X), NEW e \in Nat \X X, Increasing(s), Below(s, e[1])
    PROVE  Increasing(Append(s, e))
BY AppendElements DEF Increasing, Below

\* One above the number may be appended.
LEMMA AppendIsAbove ==
    ASSUME NEW X, NEW s \in Seq(Nat \X X), NEW e \in Nat \X X, NEW n \in Nat, Above(s, n), n < e[1]
    PROVE  Above(Append(s, e), n)
BY AppendElements DEF Above

\* One below the number may be appended.
LEMMA AppendIsBelow ==
    ASSUME NEW X, NEW s \in Seq(Nat \X X), NEW e \in Nat \X X, NEW n \in Nat, Below(s, n), e[1] < n
    PROVE  Below(Append(s, e), n)
BY AppendElements DEF Below

\* What is above a number is above a smaller one.
LEMMA HigherAbove ==
    ASSUME NEW X, NEW s \in Seq(Nat \X X), NEW m \in Nat, NEW n \in Nat, m <= n
    PROVE  (Above(s, n) => Above(s, m)) /\ (Below(s, m) => Below(s, n))
<1>1. \A i \in DOMAIN s : s[i] \in Nat \X X
  OBVIOUS
<1> QED BY <1>1 DEF Above, Below

-----------------------------------------------------------------------------
\* A number that no answer has had yet.
Fresh(n) == tag < n /\ n <= sent /\ 0 < n /\ Below(answers, n)

\* The next command has not been answered, and all that follow come after it.
LEMMA HeadIsFresh ==
    ASSUME ClientTypes, Numbered, inbox # <<>>
    PROVE  /\ Head(inbox) \in Nat \X Imap!Verbs /\ Fresh(Head(inbox)[1])
           /\ Tail(inbox) \in Seq(Nat \X Imap!Verbs)
           /\ Increasing(Tail(inbox)) /\ Below(Tail(inbox), sent + 1)
           /\ Above(Tail(inbox), tag) /\ Above(Tail(inbox), 0) /\ Above(Tail(inbox), Head(inbox)[1])
           /\ \A i \in DOMAIN answers : Above(Tail(inbox), answers[i][1])
<1>1. inbox \in Seq(Nat \X Imap!Verbs) /\ sent \in Nat /\ tag \in Nat
  BY DEF ClientTypes
<1>2. \A i \in DOMAIN answers : answers[i][1] \in Nat
  BY DEF ClientTypes
<1>3. \A i \in DOMAIN answers : Above(Tail(inbox), answers[i][1]) /\ answers[i][1] < Head(inbox)[1]
  BY <1>1, <1>2, TailIsAbove DEF Numbered
<1>4. Head(inbox) \in Nat \X Imap!Verbs /\ Tail(inbox) \in Seq(Nat \X Imap!Verbs)
  BY <1>1, TailElements
<1>5. /\ Increasing(Tail(inbox)) /\ Below(Tail(inbox), sent + 1) /\ Head(inbox)[1] < sent + 1
      /\ Above(Tail(inbox), tag) /\ Above(Tail(inbox), 0) /\ Above(Tail(inbox), Head(inbox)[1])
      /\ tag < Head(inbox)[1] /\ 0 < Head(inbox)[1]
  <2>1. Increasing(Tail(inbox)) /\ Above(Tail(inbox), Head(inbox)[1])
    BY <1>1, TailIsIncreasing DEF Numbered
  <2>2. Below(Tail(inbox), sent + 1) /\ Head(inbox)[1] < sent + 1
    BY <1>1, TailIsBelow, sent + 1 \in Nat DEF Numbered
  <2>3. Above(Tail(inbox), tag) /\ tag < Head(inbox)[1]
    BY <1>1, TailIsAbove DEF Numbered
  <2>4. Above(Tail(inbox), 0) /\ 0 < Head(inbox)[1]
    BY <1>1, TailIsAbove, 0 \in Nat DEF Numbered
  <2> QED BY <2>1, <2>2, <2>3, <2>4
<1>6. Fresh(Head(inbox)[1])
  BY <1>1, <1>3, <1>4, <1>5 DEF Fresh, Below
<1> QED BY <1>3, <1>4, <1>5, <1>6

\* A command is answered: the one that has been taken, or the login.
LEMMA TellKeepsNumbers ==
    ASSUME ClientTypes, Numbered, NEW n \in Nat, NEW r \in {"OK", "NO"}, Imap!Tell(n, r),
           n <= sent, 0 < n, Below(answers, n),
           UNCHANGED <<sent, tag>>,
           \/ inbox' = inbox /\ n = tag
           \/ inbox' = Tail(inbox) /\ inbox # <<>> /\ n \in {tag, Head(inbox)[1]},
           \/ phase' = "closed"
           \/ phase' \in {"list", "caps", "pumps"} /\ n = tag
           \/ phase' = "command" /\ phase = "command"
    PROVE  ClientTypes' /\ Numbered'
<1>1. answers \in Seq(Nat \X {"OK", "NO"}) /\ inbox \in Seq(Nat \X Imap!Verbs) /\ sent \in Nat /\ tag \in Nat
  BY DEF ClientTypes
<1>2. <<n, r>> \in Nat \X {"OK", "NO"} /\ <<n, r>>[1] = n
  OBVIOUS
<1>3. answers' = Append(answers, <<n, r>>)
  BY DEF Imap!Tell
<1>4. /\ answers' \in Seq(Nat \X {"OK", "NO"}) /\ Increasing(answers')
      /\ Above(answers', 0) /\ Below(answers', sent + 1)
      /\ \A i \in DOMAIN answers' : answers'[i] = <<n, r>> \/ (i \in DOMAIN answers /\ answers'[i] = answers[i])
  <2> DEFINE e == <<n, r>>
  <2>0. e \in Nat \X {"OK", "NO"} /\ e[1] = n /\ answers' = Append(answers, e) /\ n < sent + 1
    BY <1>1, <1>2, <1>3
  <2> HIDE DEF e
  <2>1. Increasing(answers')
    BY <1>1, <2>0, AppendIsIncreasing DEF Numbered
  <2>2. Above(answers', 0)
    BY <1>1, <2>0, AppendIsAbove, 0 \in Nat DEF Numbered
  <2>3. Below(answers', sent + 1)
    BY <1>1, <2>0, AppendIsBelow, sent + 1 \in Nat DEF Numbered
  <2>4. /\ answers' \in Seq(Nat \X {"OK", "NO"})
        /\ \A i \in DOMAIN answers' : answers'[i] = e \/ (i \in DOMAIN answers /\ answers'[i] = answers[i])
    <3>1. answers \in Seq(Nat \X {"OK", "NO"})
      BY <1>1
    <3> QED BY <3>1, <2>0, AppendElements
  <2> QED BY <2>1, <2>2, <2>3, <2>4 DEF e
<1>5. /\ inbox' \in Seq(Nat \X Imap!Verbs)
      /\ Increasing(inbox') /\ Below(inbox', sent + 1) /\ Above(inbox', tag) /\ Above(inbox', 0) /\ Above(inbox', n)
      /\ \A i \in DOMAIN answers : Above(inbox', answers[i][1])
  BY <1>1, HeadIsFresh DEF Numbered
<1>6. \A i \in DOMAIN answers' : Above(inbox', answers'[i][1])
  BY <1>2, <1>4, <1>5
<1>7. ClientTypes'
  BY <1>4, <1>5 DEF ClientTypes, Verified
<1>8. /\ phase' \notin Unanswered /\ (phase' \in {"greet", "command"} => tag = 0)
      /\ phase' \notin {"greet", "command", "closed"} => 0 < tag
  BY DEF Unanswered, Numbered
<1> QED BY <1>1, <1>4, <1>5, <1>6, <1>7, <1>8 DEF Numbered

\* A step that takes no command and answers none.
LEMMA OthersKeepNumbers ==
    ASSUME ClientTypes, Numbered, UNCHANGED <<inbox, sent, tag, answers>>,
           phase' \in Unanswered \cup Verified \cup {"greet", "command", "closed"},
           phase' \in Unanswered => phase \in Unanswered,
           phase' \in {"greet", "command"} => phase \in {"greet", "command"},
           phase' \notin {"greet", "command", "closed"} => phase \notin {"greet", "command", "closed"}
    PROVE  ClientTypes' /\ Numbered'
BY DEF ClientTypes, Numbered, Increasing, Above, Below

\* The login is taken: all that was answered came before it.
LEMMA TakeLoginKeepsNumbers ==
    ASSUME ClientTypes, Numbered, Imap!TakeLogin
    PROVE  ClientTypes' /\ Numbered'
<1>1. /\ inbox # <<>> /\ inbox' = Tail(inbox) /\ tag' = Head(inbox)[1] /\ UNCHANGED <<sent, answers>>
      /\ phase' \in {"challenge", "attempt"}
  BY DEF Imap!TakeLogin, Imap!toldVars
<1>2. tag' \in 0 .. sent
  BY <1>1, HeadIsFresh DEF Fresh, ClientTypes
<1>3. ClientTypes'
  BY <1>1, <1>2, HeadIsFresh DEF ClientTypes, Unanswered
<1>4. Below(answers, tag') /\ phase' \notin {"greet", "command"} /\ 0 < tag'
  BY <1>1, HeadIsFresh DEF Fresh
<1> QED BY <1>1, <1>3, <1>4, HeadIsFresh DEF Numbered

\* The payload is taken: the login is yet to be answered.
LEMMA TakePayloadKeepsNumbers ==
    ASSUME ClientTypes, Numbered, phase = "challenge", inbox # <<>>, inbox' = Tail(inbox),
           phase' = "attempt", UNCHANGED <<sent, answers, tag>>
    PROVE  ClientTypes' /\ Numbered'
<1>1. ClientTypes'
  BY HeadIsFresh DEF ClientTypes, Unanswered
<1>2. Below(answers, tag) /\ 0 < tag
  BY DEF Unanswered, Numbered
<1> QED BY <1>1, <1>2, HeadIsFresh DEF Numbered

\* The client sends one more.
LEMMA SendKeepsNumbers ==
    ASSUME ClientTypes, Numbered, NEW v \in Imap!Verbs, Imap!Send(v)
    PROVE  ClientTypes' /\ Numbered'
<1>1. /\ inbox' = Append(inbox, <<sent + 1, v>>) /\ sent' = sent + 1
      /\ UNCHANGED <<tag, answers, phase>>
  BY DEF Imap!Send, Imap!toldVars, Imap!loginVars
<1>2. answers \in Seq(Nat \X {"OK", "NO"}) /\ inbox \in Seq(Nat \X Imap!Verbs) /\ sent \in Nat /\ tag \in 0 .. sent
  BY DEF ClientTypes
<1> DEFINE e == <<sent + 1, v>>
<1>3. e \in Nat \X Imap!Verbs /\ e[1] = sent + 1 /\ inbox' = Append(inbox, e)
  BY <1>1, <1>2
<1> HIDE DEF e
<1>4. Below(inbox, sent + 2) /\ Below(answers, sent + 2)
  BY <1>2, HigherAbove, sent + 1 \in Nat, sent + 2 \in Nat, sent + 1 <= sent + 2 DEF Numbered
<1>5. Increasing(inbox')
  BY <1>2, <1>3, AppendIsIncreasing DEF Numbered
<1>6. Below(inbox', sent + 2)
  BY <1>2, <1>3, <1>4, AppendIsBelow, sent + 2 \in Nat
<1>7. \A n \in Nat : n < sent + 1 /\ Above(inbox, n) => Above(inbox', n)
  BY <1>2, <1>3, AppendIsAbove
<1>8. Above(inbox', 0) /\ Above(inbox', tag)
  BY <1>2, <1>7, 0 < sent + 1, tag < sent + 1 DEF Numbered
<1>9. \A i \in DOMAIN answers : Above(inbox', answers[i][1])
  <2> SUFFICES ASSUME NEW i \in DOMAIN answers PROVE Above(inbox', answers[i][1])
    OBVIOUS
  <2>1. answers[i][1] \in Nat /\ answers[i][1] < sent + 1 /\ Above(inbox, answers[i][1])
    BY <1>2 DEF Numbered, Below
  <2> QED BY <1>7, <2>1
<1>10. ClientTypes'
  BY <1>1, <1>2, <1>3, AppendElements DEF ClientTypes
<1>11. sent' + 1 = sent + 2
  BY <1>1, <1>2
<1> QED BY <1>1, <1>4, <1>5, <1>6, <1>8, <1>9, <1>10, <1>11 DEF Numbered

-----------------------------------------------------------------------------

\* The lines that are left when one has been read.
LEMMA LinesOfTail ==
    ASSUME NEW s \in Seq(Lines), s # <<>>
    PROVE  /\ Head(s) = s[1] /\ 1 \in DOMAIN s /\ Head(s) \in Lines /\ Tail(s) \in Seq(Lines)
           /\ \A i \in DOMAIN Tail(s) : i \in Nat /\ i + 1 \in DOMAIN s /\ Tail(s)[i] = s[i + 1] /\ 1 # i + 1
OBVIOUS

\* What is left when a line has been read.
LEMMA ReadLeaves ==
    ASSUME ServerTypes, NEW X, AtMostOne(lines, X), Truthful(lines), lines # <<>>, Imap!Read
    PROVE  /\ lines' \in Seq(Lines) /\ AtMostOne(lines', X) /\ Truthful(lines') /\ Imap!Line \in Lines
           /\ Imap!Line \in Ends => Clear(lines') /\ Imap!Line \in X
           /\ Imap!Line = "OK" => accepted
           /\ Clear(lines) => Clear(lines') /\ Imap!Line \notin Ends
<1>0. lines \in Seq(Lines) /\ lines' = Tail(lines) /\ Imap!Line = Head(lines)
  BY DEF ServerTypes, Imap!Read, Imap!Line
<1>1. /\ Head(lines) = lines[1] /\ 1 \in DOMAIN lines /\ Head(lines) \in Lines /\ Tail(lines) \in Seq(Lines)
      /\ \A i \in DOMAIN Tail(lines) : i \in Nat /\ i + 1 \in DOMAIN lines /\ Tail(lines)[i] = lines[i + 1] /\ 1 # i + 1
  BY <1>0, LinesOfTail
<1>2. AtMostOne(Tail(lines), X)
  <2>1. \A j, k \in DOMAIN Tail(lines) : j + 1 = k + 1 => j = k
    BY <1>1
  <2> QED BY ONLY <1>1, <2>1, AtMostOne(lines, X) DEF AtMostOne
<1>3. Truthful(Tail(lines)) /\ (Head(lines) = "OK" => accepted)
  BY ONLY <1>1, Truthful(lines) DEF Truthful
<1>4. Head(lines) \in Ends => Clear(Tail(lines)) /\ Head(lines) \in X
  BY ONLY <1>1, AtMostOne(lines, X) DEF AtMostOne, Clear
<1>5. Clear(lines) => Clear(Tail(lines)) /\ Head(lines) \notin Ends
  BY ONLY <1>1 DEF Clear
<1> QED BY <1>0, <1>1, <1>2, <1>3, <1>4, <1>5

\* A line that ends nothing.
LEMMA NoteEndsNothing ==
    ASSUME ServerTypes, NEW X, AtMostOne(lines, X), Truthful(lines)
    PROVE  /\ Append(lines, "note") \in Seq(Lines)
           /\ AtMostOne(Append(lines, "note"), X) /\ Truthful(Append(lines, "note"))
           /\ Clear(lines) => Clear(Append(lines, "note"))
<1> DEFINE s == Append(lines, "note")
<1>1. lines \in Seq(Lines) /\ "note" \in Lines /\ "note" \notin Ends /\ "note" # "OK"
  BY DEF ServerTypes, Lines, Ends
<1>2. /\ s \in Seq(Lines)
      /\ \A k \in DOMAIN s : s[k] = "note" \/ (k \in DOMAIN lines /\ s[k] = lines[k])
  BY <1>1
<1> HIDE DEF s
<1>3. AtMostOne(s, X)
  BY ONLY <1>1, <1>2, AtMostOne(lines, X) DEF AtMostOne
<1>4. Truthful(s)
  BY ONLY <1>1, <1>2, Truthful(lines) DEF Truthful
<1>5. Clear(lines) => Clear(s)
  BY ONLY <1>1, <1>2 DEF Clear
<1> QED BY <1>2, <1>3, <1>4, <1>5 DEF s

\* An answer to a request: one line ends it, the last.
LEMMA AnswerEndsOnce ==
    ASSUME ServerTypes, Clear(lines), NEW answer \in Seq(Lines), answer # <<>>,
           \A i \in DOMAIN answer : answer[i] \in Ends => i = Len(answer)
    PROVE  /\ lines \o answer \in Seq(Lines)
           /\ AtMostOne(lines \o answer, {answer[Len(answer)]})
           /\ \A k \in DOMAIN (lines \o answer) :
                 (lines \o answer)[k] \in Ends => (lines \o answer)[k] = answer[Len(answer)]
<1> DEFINE s == lines \o answer
<1>1. lines \in Seq(Lines)
  BY DEF ServerTypes
<1>2. /\ s \in Seq(Lines) /\ Len(lines) \in Nat /\ Len(answer) \in Nat
      /\ \A k \in DOMAIN s : \/ k \in DOMAIN lines /\ s[k] = lines[k]
                             \/ k - Len(lines) \in DOMAIN answer /\ s[k] = answer[k - Len(lines)] /\ k \in Nat
  BY <1>1
<1> HIDE DEF s
<1>3. \A k \in DOMAIN s : s[k] \in Ends => k \in Nat /\ k - Len(lines) = Len(answer) /\ s[k] = answer[Len(answer)]
  BY ONLY <1>2, Clear(lines), \A i \in DOMAIN answer : answer[i] \in Ends => i = Len(answer) DEF Clear
<1>4. \A j, k \in DOMAIN s : s[j] \in Ends /\ s[k] \in Ends => j = k
  BY ONLY <1>2, <1>3
<1> QED BY <1>2, <1>3, <1>4 DEF AtMostOne, s

-----------------------------------------------------------------------------
Quiet == {"greet", "command", "challenge", "attempt", "verify", "fetch", "connect", "hello", "token"}
ServerInv == ServerTypes /\ Conversing

\* What is waited for in each phase.
LEMMA WaitsFor ==
    /\ phase \in Quiet => Asking = {} /\ Awaited = {}
    /\ phase = "auth" /\ oauth => Asking = {"xoauth2"} /\ Awaited = {"OK", "NO", "plus"}
    /\ phase = "auth" /\ ~oauth => Asking = {"login"} /\ Awaited = {"OK", "NO"}
    /\ phase = "abort" => Asking = {"abort"} /\ Awaited = {"NO"}
    /\ phase = "caps" => Asking = {"caps"} /\ Awaited = {"caps"}
    /\ phase = "list" => Asking = {"list"} /\ Awaited = {"list"}
    /\ phase = "pumps" /\ ~gaveUp => Asking = {} /\ Awaited = {}
    /\ phase = "pumps" /\ gaveUp => Asking = {"caps", "list"} /\ Awaited = {"caps", "list"}
BY DEF Asking, Awaited, Quiet

\* Lines that end nothing fit whatever is waited for.
LEMMA ClearIsOne ==
    ASSUME NEW s, Clear(s), NEW X PROVE AtMostOne(s, X) /\ Truthful(s)
BY DEF Clear, AtMostOne, Truthful, Ends

\* Nothing is read on a connection that is closed.
LEMMA ClosedConverses ==
    ASSUME ServerInv, Imap!Closed, UNCHANGED <<oauth, gaveUp, accepted>>
    PROVE  ServerInv'
BY DEF ServerInv, ServerTypes, Conversing, Truthful, Imap!Closed

\* A step of the client, or of the coroutine by itself.
LEMMA QuietConverses ==
    ASSUME ServerInv, UNCHANGED <<asked, lines, alive, oauth, gaveUp, accepted>>,
           phase' = phase \/ (phase' = "closed" /\ ~alive) \/ (phase \in Quiet /\ phase' \in Quiet \ {"token"})
    PROVE  ServerInv'
<1>1. ServerTypes' /\ Truthful(lines)' /\ (asked' # <<>> => alive')
  BY DEF ServerInv, ServerTypes, Conversing, Truthful
<1>2. CASE phase' = phase
  <2>1. Asking' = Asking /\ Awaited' = Awaited
    BY <1>2 DEF Asking, Awaited
  <2> QED BY <1>1, <1>2, <2>1 DEF ServerInv, Conversing, AtMostOne, Clear
<1>3. CASE phase' = "closed" /\ ~alive
  BY <1>1, <1>3 DEF ServerInv, Conversing
<1>4. CASE phase \in Quiet /\ phase' \in Quiet \ {"token"}
  <2>1. Asking = {} /\ Awaited = {} /\ phase # "closed"
    BY <1>4, WaitsFor DEF Quiet
  <2>2. Asking' = {} /\ Awaited' = {} /\ phase' \notin {"closed", "token"}
    BY <1>4 DEF Quiet, Asking, Awaited
  <2> QED BY <1>1, <1>4, <2>1, <2>2 DEF ServerInv, Conversing, AtMostOne, Clear
<1> QED BY <1>2, <1>3, <1>4

\* A request goes out when nothing is under way.
LEMMA AskConverses ==
    ASSUME ServerInv, asked = <<>>, NEW r \in Requests, Imap!Ask(r), Asking' = {r},
           lines' \in Seq(Lines), Clear(lines'), phase' \in {"auth", "abort", "caps", "list"}, UNCHANGED <<oauth, gaveUp, accepted>>
    PROVE  ServerInv'
<1>1. asked' \in {<<>>, <<r>>} /\ (asked' # <<>> => alive')
  BY DEF Imap!Ask
<1>2. ServerTypes'
  <2>1. <<>> \in Seq(Requests) /\ <<r>> \in Seq(Requests)
    OBVIOUS
  <2> QED BY <1>1, <2>1 DEF ServerInv, ServerTypes
<1>3. Clear(lines)' /\ AtMostOne(lines', Awaited') /\ Truthful(lines)'
  BY ClearIsOne DEF Clear, AtMostOne, Truthful, Ends
<1> QED BY <1>1, <1>2, <1>3 DEF ServerInv, Conversing, AtMostOne

\* A line is read that ends nothing, or what was waited for has been read and
\* nothing else is asked for.
LEMMA ReadConverses ==
    ASSUME ServerInv, phase # "closed", lines # <<>>, Imap!Read,
           UNCHANGED <<alive, asked, oauth, gaveUp, accepted>>,
           phase' = phase \/ (phase' = "pumps" /\ Imap!Line \in Ends)
    PROVE  ServerInv'
<1>1. /\ lines' \in Seq(Lines) /\ AtMostOne(lines', Awaited) /\ Truthful(lines')
      /\ Imap!Line \in Ends => Clear(lines')
      /\ Clear(lines) => Clear(lines') /\ Imap!Line \notin Ends
  BY ReadLeaves DEF ServerInv, Conversing
<1>2. ServerTypes' /\ Truthful(lines)' /\ (asked' # <<>> => alive')
  BY <1>1 DEF ServerInv, ServerTypes, Conversing, Truthful
<1>3. CASE phase' = phase
  <2>1. Asking' = Asking /\ Awaited' = Awaited
    BY <1>3 DEF Asking, Awaited
  <2> QED BY <1>1, <1>2, <1>3, <2>1 DEF ServerInv, Conversing, AtMostOne, Clear
<1>4. CASE phase' = "pumps" /\ Imap!Line \in Ends
  <2>1. asked = <<>> /\ Clear(lines')
    BY <1>1, <1>4 DEF ServerInv, Conversing
  <2>2. AtMostOne(lines, Awaited)'
    BY <2>1, ClearIsOne DEF AtMostOne, Clear
  <2> QED BY <1>2, <2>1, <2>2 DEF ServerInv, Conversing
<1> QED BY <1>3, <1>4

\* The greeting has been read: the first request goes out.
LEMMA HelloConverses ==
    ASSUME ServerInv, Imap!Hello PROVE ServerInv'
<1>0. phase = "hello" /\ Awaited = {} /\ Asking = {} /\ asked = <<>> /\ AtMostOne(lines, {})
  BY WaitsFor DEF Imap!Hello, Quiet, ServerInv, Conversing
<1>1. Clear(lines)
  BY <1>0 DEF AtMostOne, Clear
<1>2. lines' \in Seq(Lines) /\ Clear(lines')
  BY <1>1, ReadLeaves DEF ServerInv, Conversing, Imap!Hello, Imap!Read, ServerTypes
<1>3. CASE oauth
  <2>1. Asking' = {} /\ Awaited' = {} /\ phase' = "token" /\ UNCHANGED <<asked, alive, oauth, gaveUp, accepted>>
    BY <1>3 DEF Imap!Hello, Asking, Awaited, Imap!loginVars
  <2>2. ServerTypes' /\ Truthful(lines)' /\ AtMostOne(lines, Awaited)' /\ Clear(lines)'
    BY <1>2, <2>1, ClearIsOne DEF ServerInv, ServerTypes, Truthful, Clear, AtMostOne, Ends
  <2> QED BY <1>0, <1>3, <2>1, <2>2 DEF ServerInv, Conversing
<1>4. CASE ~oauth
  <2>1. phase' = "auth" /\ Asking' = {"login"} /\ Imap!Ask("login") /\ UNCHANGED <<oauth, gaveUp, accepted>>
    BY <1>4 DEF Imap!Hello, Asking, Imap!loginVars
  <2> QED BY <1>0, <1>2, <2>1, AskConverses DEF Requests
<1> QED BY <1>3, <1>4, <1>0 DEF ServerInv, ServerTypes

\* The connection is opened: nothing has been asked.
LEMMA ConnectConverses ==
    ASSUME ServerInv, Imap!Connect PROVE ServerInv'
<1>0. phase = "connect" /\ asked = <<>> /\ UNCHANGED <<oauth, gaveUp, accepted, asked>>
      /\ lines' = <<"hello">> /\ phase' = "hello"
  BY WaitsFor DEF Imap!Connect, Quiet, ServerInv, Conversing, Imap!loginVars
<1>1. lines' \in Seq(Lines) /\ Clear(lines')
  BY <1>0 DEF Lines, Clear, Ends
<1> QED
  BY <1>0, <1>1, ClearIsOne DEF ServerInv, ServerTypes, Conversing, Truthful, Clear, AtMostOne, Ends

\* The access token has come, or has not.
LEMMA TokenConverses ==
    ASSUME ServerInv, Imap!Token PROVE ServerInv'
<1>0. phase = "token" /\ oauth /\ Awaited = {} /\ Asking = {} /\ asked = <<>> /\ AtMostOne(lines, {})
  BY WaitsFor DEF Imap!Token, Quiet, ServerInv, Conversing
<1>1. Clear(lines) /\ lines \in Seq(Lines) /\ UNCHANGED <<oauth, gaveUp, accepted>>
  BY <1>0 DEF AtMostOne, Clear, ServerInv, ServerTypes, Imap!Token, Imap!loginVars
<1>2. CASE phase' = "auth" /\ Imap!Ask("xoauth2") /\ UNCHANGED lines
  <2>1. Asking' = {"xoauth2"}
    BY <1>0, <1>1, <1>2 DEF Asking
  <2> QED BY <1>0, <1>1, <1>2, <2>1, AskConverses DEF Requests
<1>3. CASE Imap!Refuse
  BY <1>1, <1>3, ClosedConverses DEF Imap!Refuse
<1> QED BY <1>2, <1>3 DEF Imap!Token

\* The answer to the login is read, whatever it is.
LEMMA AuthConverses ==
    ASSUME ServerInv, Imap!AuthOk \/ Imap!AuthNo \/ Imap!AuthPlus PROVE ServerInv'
<1>0. phase = "auth" /\ phase # "closed" /\ oauth \in BOOLEAN /\ lines \in Seq(Lines) 
      /\ UNCHANGED <<oauth, gaveUp, accepted>>
  BY DEF Imap!AuthOk, Imap!AuthNo, Imap!AuthPlus, Imap!loginVars, ServerInv, ServerTypes
<1>1. AtMostOne(lines, Awaited) /\ Truthful(lines)
  BY <1>0 DEF ServerInv, Conversing
<1>2. ASSUME Imap!Line \in Ends, Imap!Read
      PROVE  lines # <<>> /\ asked = <<>> /\ lines' \in Seq(Lines) /\ Clear(lines') /\ Imap!Line \in Awaited
  <2>1. lines # <<>>
    BY <1>2 DEF Imap!Line, Ends
  <2> QED BY <1>0, <1>1, <1>2, <2>1, ReadLeaves DEF ServerInv, Conversing
<1>3. CASE Imap!AuthOk
  <2> DEFINE r == IF specialUse THEN "list" ELSE "caps"
  <2>1. Imap!Line \in Ends /\ Imap!Read /\ phase' = r /\ Imap!Ask(r) /\ r \in Requests
    BY <1>3 DEF Imap!AuthOk, Ends, Requests
  <2>2. Asking' = {r}
    BY <2>1 DEF Asking
  <2> QED BY <1>0, <1>2, <2>1, <2>2, AskConverses
<1>4. CASE Imap!AuthNo
  <2>1. CASE oauth
    BY <1>0, <1>4, <2>1, ClosedConverses DEF Imap!AuthNo, Imap!Refuse
  <2>2. CASE ~oauth /\ lines # <<>>
    <3>1. phase' = "pumps" /\ Imap!Read /\ UNCHANGED <<alive, asked>> /\ Imap!Line \in {"NO", "eof"}
      BY <1>4, <2>2 DEF Imap!AuthNo
    <3>2. Imap!Line \in Lines
      BY <1>1, <2>2, <3>1, ReadLeaves DEF ServerInv
    <3>3. Imap!Line \in Ends
      BY <3>1, <3>2 DEF Ends, Lines
    <3> QED BY <1>0, <2>2, <3>1, <3>3, ReadConverses
  <2>3. CASE ~oauth /\ lines = <<>>
    <3>1. phase' = "pumps" /\ Imap!Read /\ UNCHANGED <<alive, asked>> /\ Imap!Readable
      BY <1>4, <2>3 DEF Imap!AuthNo
    <3>2. asked = <<>> /\ lines' = <<>>
      BY <2>3, <3>1 DEF Imap!Readable, Imap!Eof, ServerInv, Conversing, Imap!Read
    <3> QED BY <1>0, <3>1, <3>2, <2>3 DEF ServerInv, ServerTypes, Conversing, AtMostOne, Truthful, Clear
  <2> QED BY <1>0, <2>1, <2>2, <2>3
<1>5. CASE Imap!AuthPlus
  <2>1. Imap!Line = "plus" /\ Imap!Line \in Ends /\ Imap!Read
    BY <1>5 DEF Imap!AuthPlus, Ends
  <2>2. oauth
    BY <1>0, <1>2, <2>1, WaitsFor
  <2>3. phase' = "abort" /\ Imap!Ask("abort") /\ Asking' = {"abort"}
    BY <1>5, <2>2 DEF Imap!AuthPlus, Asking
  <2> QED BY <1>0, <1>2, <2>1, <2>3, AskConverses DEF Requests
<1> QED BY <1>3, <1>4, <1>5

\* The discovery goes on to its next question, ends, or is given up: what is asked
\* then is still to be answered.
LEMMA DiscoveryConverses ==
    ASSUME ServerInv, Imap!CapsEnd \/ Imap!ListEnd \/ Imap!GiveUp PROVE ServerInv'
<1>0. phase \in {"caps", "list"} /\ UNCHANGED <<oauth, accepted>>
  BY DEF Imap!CapsEnd, Imap!ListEnd, Imap!GiveUp, Imap!Questions, Imap!loginVars
<1>1. CASE Imap!CapsEnd \/ Imap!ListEnd
  <2>1. Imap!Line \in Ends /\ Imap!Read /\ lines # <<>> /\ UNCHANGED gaveUp
    BY <1>1 DEF Imap!CapsEnd, Imap!ListEnd, Imap!Line, Ends
  <2>2. asked = <<>> /\ lines' \in Seq(Lines) /\ Clear(lines')
    BY <1>0, <2>1, ReadLeaves DEF ServerInv, Conversing
  <2>3. CASE phase' = "pumps" /\ UNCHANGED <<alive, asked>>
    BY <1>0, <2>1, <2>3, ReadConverses
  <2>4. CASE phase' = "list" /\ Imap!Ask("list")
    <3>1. Asking' = {"list"}
      BY <2>4 DEF Asking
    <3> QED BY <1>0, <2>1, <2>2, <2>4, <3>1, AskConverses DEF Requests
  <2> QED BY <1>1, <2>3, <2>4 DEF Imap!CapsEnd, Imap!ListEnd
<1>2. CASE Imap!GiveUp
  <2>1. UNCHANGED <<asked, lines, alive>> /\ gaveUp' = TRUE /\ phase' = "pumps"
    BY <1>2 DEF Imap!GiveUp, Imap!upstreamVars
  <2>2. Asking \subseteq {"caps", "list"} /\ Awaited \subseteq {"caps", "list"} 
    BY <1>0, WaitsFor
  <2>3. Asking' = {"caps", "list"} /\ Awaited' = {"caps", "list"} 
    BY <2>1 DEF Asking, Awaited
  <2> QED BY <1>0, <2>1, <2>2, <2>3 DEF ServerInv, ServerTypes, Conversing, AtMostOne, Truthful, Clear
<1> QED BY <1>1, <1>2

\* The shape of an answer.
LEMMA AnswerShape ==
    ASSUME NEW x \in Ends, NEW answer \in {<<x>>, <<"special", x>>, <<"note", x>>}
    PROVE  /\ answer \in Seq(Lines) /\ answer # <<>> /\ answer[Len(answer)] = x
           /\ \A i \in DOMAIN answer : answer[i] \in Ends => i = Len(answer)
<1>1. {x, "special", "note"} \subseteq Lines /\ {"special", "note"} \cap Ends = {}
  BY DEF Lines, Ends
<1>2. CASE answer = <<x>>
  BY <1>1, <1>2
<1>3. ASSUME NEW y \in {"special", "note"}, answer = <<y, x>>
      PROVE  /\ answer \in Seq(Lines) /\ answer # <<>> /\ answer[Len(answer)] = x
             /\ \A i \in DOMAIN answer : answer[i] \in Ends => i = Len(answer)
  <2>1. answer \in Seq(Lines) /\ Len(answer) = 2 /\ answer[1] = y /\ answer[2] = x /\ DOMAIN answer = 1 .. 2
    BY <1>1, <1>3
  <2>2. answer[1] \notin Ends /\ answer # <<>>
    BY <1>1, <1>3, <2>1
  <2>3. \A i \in DOMAIN answer : i = 1 \/ i = 2
    BY <2>1
  <2>4. \A i \in DOMAIN answer : answer[i] \in Ends => i = 2
    BY ONLY <2>2, <2>3
  <2> QED BY <2>1, <2>2, <2>4
<1> QED BY <1>2, <1>3

\* The upstream server answers what it was asked, and nothing twice.
LEMMA ServeConverses ==
    ASSUME ServerInv, Imap!Serve PROVE ServerInv'
<1>0. asked # <<>> /\ UNCHANGED <<phase, oauth, gaveUp, alive>> /\ asked' = Tail(asked) /\ phase # "closed"
  BY DEF Imap!Serve, Imap!loginVars, ServerInv, Conversing
<1>1. PICK r \in Asking : asked = <<r>>
  BY <1>0 DEF ServerInv, Conversing
<1>2. Clear(lines) /\ asked' = <<>> /\ Head(asked) = r
  BY <1>0, <1>1 DEF ServerInv, Conversing
<1>3. PICK answer \in Imap!Answers(r) :
         /\ lines' = lines \o answer
         /\ accepted' = (accepted \/ (r \in {"login", "xoauth2"} /\ answer[Len(answer)] = "OK"))
  BY <1>2 DEF Imap!Serve
<1>4. /\ answer \in Seq(Lines) /\ answer # <<>> /\ answer[Len(answer)] \in Awaited
      /\ \A i \in DOMAIN answer : answer[i] \in Ends => i = Len(answer)
      /\ answer[Len(answer)] = "OK" => r \in {"login", "xoauth2"}
  <2>1. \/ phase = "auth" /\ oauth /\ r = "xoauth2"
        \/ phase = "auth" /\ ~oauth /\ r = "login"
        \/ phase = "abort" /\ r = "abort"
        \/ phase = "caps" /\ r = "caps"
        \/ phase = "list" /\ r = "list"
        \/ phase = "pumps" /\ gaveUp /\ r \in {"caps", "list"}
    BY <1>1 DEF Asking
  <2>2. /\ r \in {"login", "xoauth2"} => answer \in {<<"OK">>, <<"special", "OK">>, <<"NO">>, <<"plus">>}
        /\ r = "login" => answer # <<"plus">>
        /\ r = "abort" => answer = <<"NO">>
        /\ r = "caps" => answer \in {<<"special", "caps">>, <<"note", "caps">>}
        /\ r = "list" => answer = <<"list">>
    BY <1>3 DEF Imap!Answers
  <2>3. CASE r \in {"login", "xoauth2"}
    <3>1. \/ answer \in {<<"OK">>, <<"special", "OK">>, <<"NO">>} 
          \/ answer = <<"plus">> /\ oauth
      BY <2>1, <2>2, <2>3
    <3>2. {"OK", "NO"} \subseteq Awaited /\ (oauth => "plus" \in Awaited)
      BY <2>1, <2>3, WaitsFor
    <3>3. \E x \in Awaited \cap Ends : answer \in {<<x>>, <<"special", x>>, <<"note", x>>}
      BY <3>1, <3>2 DEF Ends
    <3> QED BY <2>3, <3>3, AnswerShape
  <2>4. CASE r = "abort"
    <3>1. "NO" \in Awaited \cap Ends /\ answer = <<"NO">>
      BY <2>1, <2>2, <2>4, WaitsFor DEF Ends
    <3> QED BY <3>1, AnswerShape
  <2>5. CASE r \in {"caps", "list"}
    <3>1. answer \in {<<"special", r>>, <<"note", r>>, <<r>>}
      BY <2>2, <2>5
    <3>2. r \in Awaited /\ r \in Ends /\ r # "OK"
      BY <2>1, <2>5, WaitsFor DEF Ends
    <3>3. /\ answer \in Seq(Lines) /\ answer # <<>> /\ answer[Len(answer)] = r
          /\ \A i \in DOMAIN answer : answer[i] \in Ends => i = Len(answer)
      BY ONLY <3>1, <3>2, AnswerShape
    <3> QED BY ONLY <3>2, <3>3
  <2> QED BY <2>1, <2>3, <2>4, <2>5
<1>5. /\ lines' \in Seq(Lines) /\ AtMostOne(lines', {answer[Len(answer)]})
      /\ \A k \in DOMAIN lines' : lines'[k] \in Ends => lines'[k] = answer[Len(answer)]
  BY <1>2, <1>3, <1>4, AnswerEndsOnce DEF ServerInv
<1>6. Asking' = Asking /\ Awaited' = Awaited
  BY <1>0 DEF Asking, Awaited
<1>7. AtMostOne(lines', Awaited)
  BY <1>4, <1>5 DEF AtMostOne
<1>8. Truthful(lines)'
  BY <1>3, <1>4, <1>5 DEF Truthful, Ends
<1> QED BY <1>0, <1>2, <1>5, <1>6, <1>7, <1>8 DEF ServerInv, ServerTypes, Conversing, AtMostOne

\* A line that the upstream server sends unasked.
LEMMA NoteConverses ==
    ASSUME ServerInv, Imap!Note PROVE ServerInv'
<1>0. /\ lines' = Append(lines, "note") 
      /\ UNCHANGED <<phase, oauth, gaveUp, alive, asked, accepted>>
  BY DEF Imap!Note, Imap!loginVars
<1>1. Asking' = Asking /\ Awaited' = Awaited
  BY <1>0 DEF Asking, Awaited
<1>2. /\ lines' \in Seq(Lines) /\ Truthful(lines') 
      /\ (AtMostOne(lines, Awaited) => AtMostOne(lines', Awaited))
      /\ (Clear(lines) => Clear(lines'))
  <2>1. Truthful(lines')
    BY <1>0 DEF ServerInv, ServerTypes, Conversing, Truthful
  <2>2. AtMostOne(lines, Awaited) => AtMostOne(lines', Awaited)
    BY <1>0, NoteEndsNothing DEF ServerInv, Conversing
  <2>3. lines' \in Seq(Lines)
    BY <1>0 DEF ServerInv, ServerTypes, Lines
  <2>4. Clear(lines) => Clear(lines')
    BY <1>0, NoteEndsNothing, ClearIsOne DEF ServerInv
  <2> QED BY <2>1, <2>2, <2>3, <2>4
<1> QED BY <1>0, <1>1, <1>2 DEF ServerInv, ServerTypes, Conversing, AtMostOne, Truthful, Clear

\* The upstream server closes: it will answer nothing.
LEMMA UpstreamClosesConverses ==
    ASSUME ServerInv, Imap!UpstreamCloses PROVE ServerInv'
<1>0. /\ asked' = <<>> /\ ~alive'
      /\ UNCHANGED <<phase, oauth, gaveUp, lines, accepted>>
  BY DEF Imap!UpstreamCloses, Imap!loginVars
<1>1. Asking' = Asking /\ Awaited' = Awaited
  BY <1>0 DEF Asking, Awaited
<1> QED BY <1>0, <1>1 DEF ServerInv, ServerTypes, Conversing, AtMostOne, Truthful, Clear

-----------------------------------------------------------------------------
(* Each action *)

ToldInv == ClientTypes /\ Numbered /\ ServerInv /\ Told

\* The answers of before keep what they say: nothing that was verified or accepted
\* is taken back.
LEMMA AnswersStay ==
    ASSUME ToldInv, UNCHANGED <<answers, tag, leaked>>, verified => verified', accepted => accepted', gaveUp => gaveUp',
           phase' \in Verified => verified'
    PROVE  Told'
BY DEF ToldInv, Told

\* What is refused, or answered before the login, is no login that was accepted.
LEMMA TellIsTrue ==
    ASSUME ToldInv, NEW n \in Nat, NEW r \in {"OK", "NO"}, Imap!Tell(n, r),
           r = "NO" \/ tag # n \/ (verified /\ accepted), UNCHANGED <<tag, verified, accepted, gaveUp>>,
           phase' \in Verified => verified
    PROVE  Told'
<1> DEFINE e == <<n, r>>
<1>1. answers \in Seq(Nat \X {"OK", "NO"}) /\ e \in Nat \X {"OK", "NO"} /\ answers' = Append(answers, e)
  BY DEF ToldInv, ClientTypes, Imap!Tell
<1>2. e # <<tag, "OK">> \/ (verified /\ accepted)
  OBVIOUS
<1> HIDE DEF e
<1>3. \A i \in DOMAIN answers' : answers'[i] = e \/ (i \in DOMAIN answers /\ answers'[i] = answers[i])
  BY <1>1, AppendElements
<1> QED BY <1>2, <1>3 DEF ToldInv, Told, Imap!Tell

\* A refusal that ends the connection.
LEMMA RefuseKeeps ==
    ASSUME ToldInv, phase \in Unanswered, Imap!Refuse, UNCHANGED <<tag, oauth, verified, sent, accepted, gaveUp>>,
           inbox' = inbox \/ (inbox' = Tail(inbox) /\ inbox # <<>>)
    PROVE  ToldInv'
<1>1. Below(answers, tag) /\ tag \in Nat /\ tag <= sent /\ 0 < tag
  BY DEF ToldInv, Numbered, ClientTypes, Unanswered
<1>2. Imap!Tell(tag, "NO") /\ phase' = "closed" /\ phase' \notin Verified /\ Imap!Closed
  BY DEF Imap!Refuse, Imap!Closed, Verified
<1>3. ClientTypes' /\ Numbered'
  BY <1>1, <1>2, TellKeepsNumbers DEF ToldInv
<1>4. ServerInv'
  BY <1>2, ClosedConverses DEF ToldInv
<1>5. Told'
  BY <1>1, <1>2, TellIsTrue
<1> QED BY <1>3, <1>4, <1>5 DEF ToldInv

\* Before the login.
LEMMA CommandsKeep ==
    ASSUME ToldInv, Imap!AnswerHere \/ Imap!Logout PROVE ToldInv'
<1> DEFINE n == Head(inbox)[1]
<1>0. phase = "command" /\ inbox # <<>> /\ tag = 0 /\ inbox' = Tail(inbox) /\ UNCHANGED <<sent, tag>>
  BY DEF Imap!AnswerHere, Imap!Logout, ToldInv, Numbered, Imap!loginVars
<1>1. n \in Nat /\ Fresh(n)
  BY <1>0, HeadIsFresh DEF ToldInv
<1>2. PICK r \in {"OK", "NO"} : Imap!Tell(n, r)
  BY DEF Imap!AnswerHere, Imap!Logout
<1> HIDE DEF n
<1>3. phase' = "closed" \/ (phase' = "command" /\ phase = "command")
  BY <1>0 DEF Imap!AnswerHere, Imap!Logout, Imap!Closed
<1>4. ClientTypes' /\ Numbered'
  BY <1>0, <1>1, <1>2, <1>3, TellKeepsNumbers DEF ToldInv, Fresh, n
<1>5. ServerInv'
  <2>1. CASE Imap!AnswerHere
    BY <2>1, QuietConverses DEF Imap!AnswerHere, Imap!upstreamVars, Imap!loginVars, ToldInv
  <2>2. CASE Imap!Logout
    BY <2>2, ClosedConverses DEF Imap!Logout, Imap!loginVars, ToldInv
  <2> QED BY <2>1, <2>2
<1>6. Told'
  <2>1. UNCHANGED <<tag, verified, accepted, gaveUp>> /\ phase' \notin Verified /\ tag # n
    BY <1>0, <1>1, <1>3 DEF Imap!AnswerHere, Imap!Logout, Imap!loginVars, Verified, Fresh
  <2> QED BY <1>1, <1>2, <2>1, TellIsTrue
<1> QED BY <1>4, <1>5, <1>6 DEF ToldInv

\* The login is taken: it has not been answered.
LEMMA LoginTaken ==
    ASSUME ToldInv, Imap!TakeLogin PROVE ToldInv'
<1>1. /\ inbox # <<>> /\ tag' = Head(inbox)[1] /\ UNCHANGED <<answers, leaked, gaveUp, asked, lines, alive, oauth, accepted>>
      /\ phase = "command" /\ phase' \in {"challenge", "attempt"}
  BY DEF Imap!TakeLogin, Imap!toldVars, Imap!upstreamVars
<1>2. ServerInv'
  BY <1>1, QuietConverses DEF ToldInv, Quiet
<1>3. Below(answers, tag') /\ \A i \in DOMAIN answers : answers[i][1] \in Nat
  BY <1>1, HeadIsFresh DEF ToldInv, Fresh, ClientTypes
<1>4. Told'
  BY <1>1, <1>3 DEF ToldInv, Told, Below, Verified
<1> QED BY <1>2, <1>4, TakeLoginKeepsNumbers DEF ToldInv

\* Its payload is taken, or it is refused.
LEMMA PayloadTaken ==
    ASSUME ToldInv, Imap!TakePayload PROVE ToldInv'
<1>0. /\ inbox # <<>> /\ inbox' = Tail(inbox) /\ phase = "challenge"
      /\ UNCHANGED <<tag, oauth, verified, sent, accepted, gaveUp>>
  BY DEF Imap!TakePayload, Imap!loginVars
<1>1. CASE phase' = "attempt" /\ UNCHANGED <<alive, asked, lines, answers, leaked>>
  <2>1. ServerInv'
    BY <1>0, <1>1, QuietConverses DEF ToldInv, Quiet
  <2>2. Told'
    BY <1>0, <1>1, AnswersStay DEF Verified
  <2> QED BY <1>0, <1>1, <2>1, <2>2, TakePayloadKeepsNumbers DEF ToldInv
<1>2. CASE Imap!Refuse
  BY <1>0, <1>2, RefuseKeeps DEF Unanswered
<1> QED BY <1>1, <1>2 DEF Imap!TakePayload, Imap!upstreamVars, Imap!toldVars

\* A step of the coroutine that neither reads nor writes.
LEMMA QuietKeeps ==
    ASSUME ToldInv, UNCHANGED <<inbox, sent, tag, answers, leaked, asked, lines, alive, oauth, gaveUp, accepted>>,
           verified => verified', phase' \in Verified => verified',
           \/ phase' = "closed" /\ ~alive
           \/ phase = "greet" /\ phase' = "command"
           \/ phase \in Quiet \cap Unanswered /\ phase' \in (Quiet \cap Unanswered) \ {"token"}
    PROVE  ToldInv'
<1>1. ServerInv'
  BY QuietConverses DEF ToldInv, Quiet
<1>2. Told'
  BY AnswersStay
<1>3. ClientTypes' /\ Numbered'
  BY OthersKeepNumbers DEF ToldInv, Quiet, Unanswered, Verified
<1> QED BY <1>1, <1>2, <1>3 DEF ToldInv

\* The checks of the proxy itself.
LEMMA ChecksKeep ==
    ASSUME ToldInv, Imap!Greet \/ Imap!Attempt \/ Imap!Verify \/ Imap!Fetch PROVE ToldInv'
<1>0. UNCHANGED <<inbox, sent, tag, oauth, gaveUp, accepted>>
  BY DEF Imap!Greet, Imap!Attempt, Imap!Verify, Imap!Fetch, Imap!loginVars, Imap!clientVars
<1>1. CASE Imap!Refuse
  BY <1>0, <1>1, RefuseKeeps DEF Imap!Greet, Imap!Attempt, Imap!Verify, Imap!Fetch, Unanswered, Imap!loginVars,
     Imap!Refuse, Imap!Closed
<1>2. CASE ~Imap!Refuse
  BY <1>0, <1>2, QuietKeeps DEF Imap!Greet, Imap!Attempt, Imap!Verify, Imap!Fetch, Imap!loginVars,
     Imap!upstreamVars, Imap!toldVars, Quiet, Unanswered, Verified, ToldInv, Told
<1> QED BY <1>1, <1>2

\* The connection is closed without a word.
LEMMA ClosedKeeps ==
    ASSUME ToldInv, Imap!Closed, UNCHANGED <<inbox, sent, tag, oauth, verified, answers, leaked, accepted, gaveUp>>
    PROVE  ToldInv'
<1>1. ServerInv'
  BY ClosedConverses DEF ToldInv
<1>2. phase' = "closed" /\ phase' \notin Unanswered \cup Verified
  BY DEF Imap!Closed, Unanswered, Verified
<1>3. Told'
  BY <1>2, AnswersStay
<1>4. ClientTypes' /\ Numbered'
  BY <1>2, OthersKeepNumbers DEF ToldInv
<1> QED BY <1>1, <1>3, <1>4 DEF ToldInv

\* The connection to the upstream server, or none.
LEMMA LoginBegins ==
    ASSUME ToldInv, Imap!Raises \/ Imap!Connect \/ Imap!Unreachable \/ Imap!Hello \/ Imap!Token PROVE ToldInv'
<1>0. UNCHANGED <<inbox, sent, tag, oauth, verified, gaveUp, accepted>>
  BY DEF Imap!Raises, Imap!Connect, Imap!Unreachable, Imap!Hello, Imap!Token, Imap!loginVars, Imap!clientVars
<1>1. CASE Imap!Refuse /\ (Imap!Unreachable \/ Imap!Token)
  <2>1. phase \in Unanswered
    BY <1>1 DEF Imap!Unreachable, Imap!Token, Unanswered
  <2> QED BY <1>0, <1>1, <2>1, RefuseKeeps
<1>2. CASE Imap!Raises
  <2>1. Imap!Closed /\ UNCHANGED <<answers, leaked>>
    BY <1>2 DEF Imap!Raises, Imap!toldVars
  <2> QED BY <1>0, <2>1, ClosedKeeps
<1>3. CASE Imap!Connect \/ Imap!Hello \/ (Imap!Token /\ ~Imap!Refuse)
  <2>1. ServerInv'
    BY <1>3, ConnectConverses, HelloConverses, TokenConverses DEF ToldInv
  <2>2. /\ UNCHANGED <<answers, leaked>> /\ phase \in {"connect", "hello", "token"}
        /\ phase' \in {"hello", "token", "auth"}
    BY <1>3 DEF Imap!Connect, Imap!Hello, Imap!Token, Imap!toldVars
  <2>3. ClientTypes' /\ Numbered'
    BY <1>0, <2>2, OthersKeepNumbers DEF ToldInv, Unanswered
  <2>4. Told'
    <3>1. phase \in Verified
      BY <2>2 DEF Verified
    <3> QED BY <1>0, <2>2, <3>1, AnswersStay DEF ToldInv, Told
  <2> QED BY <2>1, <2>3, <2>4 DEF ToldInv
<1> QED BY <1>1, <1>2, <1>3 DEF Imap!Unreachable

\* The answer to the login: OK only if the upstream server has said so.
LEMMA AuthKeeps ==
    ASSUME ToldInv, Imap!AuthOk \/ Imap!AuthNo \/ Imap!AuthPlus \/ Imap!Abort PROVE ToldInv'
<1>0. /\ UNCHANGED <<inbox, sent, tag, oauth, verified, gaveUp, accepted>>
      /\ phase \in {"auth", "abort"} /\ phase \in Unanswered /\ phase \in Verified
  BY DEF Imap!AuthOk, Imap!AuthNo, Imap!AuthPlus, Imap!Abort, Imap!loginVars, Imap!clientVars, Unanswered, Verified
<1>1. CASE Imap!Refuse
  BY <1>0, <1>1, RefuseKeeps
<1>2. CASE ~Imap!Refuse
  <2>1. ServerInv'
    BY <1>2, AuthConverses DEF ToldInv, Imap!Abort
  <2>2. verified /\ tag \in Nat /\ tag <= sent /\ 0 < tag /\ Below(answers, tag)
    BY <1>0 DEF ToldInv, Told, ClientTypes, Numbered, Verified
  <2>3. CASE UNCHANGED <<answers, leaked>> /\ phase' \in {"abort", "pumps"}
    <3>1. ClientTypes' /\ Numbered'
      BY <1>0, <2>3, OthersKeepNumbers DEF ToldInv, Unanswered, Verified
    <3>2. Told'
      BY <1>0, <2>2, <2>3, AnswersStay
    <3> QED BY <2>1, <3>1, <3>2 DEF ToldInv
  <2>4. ASSUME NEW r \in {"OK", "NO"}, Imap!Tell(tag, r), phase' \in {"list", "caps", "pumps"}, r = "NO" \/ accepted
        PROVE  ToldInv'
    <3>1. ClientTypes' /\ Numbered'
      BY <1>0, <2>2, <2>4, TellKeepsNumbers DEF ToldInv
    <3>2. Told'
      BY <1>0, <2>2, <2>4, TellIsTrue
    <3> QED BY <2>1, <3>1, <3>2 DEF ToldInv
  <2>5. CASE Imap!AuthOk
    <3>1. Imap!Tell(tag, "OK") /\ phase' \in {"list", "caps", "pumps"} /\ Imap!Line = "OK" /\ Imap!Read /\ lines # <<>>
      BY <2>5 DEF Imap!AuthOk, Imap!Line
    <3>2. phase # "closed"
      BY <1>0
    <3>3. accepted
      BY <3>1, <3>2, ReadLeaves DEF ToldInv, ServerInv, Conversing
    <3> QED BY <2>4, <3>1, <3>3
  <2>6. CASE Imap!AuthNo
    BY <1>2, <2>3, <2>4, <2>6 DEF Imap!AuthNo, Imap!toldVars
  <2>7. CASE Imap!AuthPlus
    BY <2>3, <2>7 DEF Imap!AuthPlus, Imap!toldVars
  <2> QED BY <1>2, <2>5, <2>6, <2>7 DEF Imap!Abort
<1> QED BY <1>1, <1>2

\* Steps that tell the client nothing about its commands.
LEMMA LinesKeep ==
    ASSUME ToldInv, \/ Imap!Untagged \/ Imap!Collect \/ Imap!CapsEnd \/ Imap!ListEnd \/ Imap!GiveUp
                    \/ Imap!PumpEnds \/ Imap!Serve \/ Imap!Note \/ Imap!UpstreamCloses
    PROVE  ToldInv'
<1>0. /\ UNCHANGED <<inbox, sent, tag, oauth, verified, answers, leaked>>
  BY DEF Imap!Untagged, Imap!Collect, Imap!CapsEnd, Imap!ListEnd, Imap!GiveUp, Imap!PumpEnds, Imap!Serve, Imap!Note,
         Imap!UpstreamCloses, Imap!loginVars, Imap!clientVars, Imap!toldVars
<1>1. phase' = phase \/ (phase \in {"caps", "list", "pumps"} /\ phase' \in {"list", "pumps", "closed"})
  BY DEF Imap!Untagged, Imap!Collect, Imap!CapsEnd, Imap!ListEnd, Imap!GiveUp, Imap!PumpEnds, Imap!Serve, Imap!Note,
         Imap!UpstreamCloses, Imap!Questions
<1>2. gaveUp => gaveUp'
  BY DEF Imap!Untagged, Imap!Collect, Imap!CapsEnd, Imap!ListEnd, Imap!GiveUp, Imap!PumpEnds, Imap!Serve, Imap!Note,
         Imap!UpstreamCloses
<1>3. ClientTypes' /\ Numbered'
  BY <1>0, <1>1, OthersKeepNumbers DEF ToldInv, ClientTypes, Unanswered, Verified
<1>4. Told'
  <2>0. accepted => accepted'
    <3>1. CASE Imap!Serve
      BY <3>1, Zenon DEF Imap!Serve
    <3>2. CASE ~Imap!Serve
      BY <3>2 DEF Imap!Untagged, Imap!Collect, Imap!CapsEnd, Imap!ListEnd, Imap!GiveUp, Imap!PumpEnds, Imap!Note,
         Imap!UpstreamCloses
    <3> QED BY <3>1, <3>2
  <2>1. phase' \in Verified => verified'
    BY <1>0, <1>1 DEF ToldInv, Told, Verified
  <2> QED BY <1>0, <1>2, <2>0, <2>1, AnswersStay
<1>5. ServerInv'
  <2>1. CASE Imap!Untagged \/ Imap!Collect
    <3>1. /\ phase' = phase /\ phase # "closed" /\ lines # <<>> /\ Imap!Read
          /\ UNCHANGED <<alive, asked, gaveUp, accepted>>
      BY <2>1 DEF Imap!Untagged, Imap!Collect, Imap!Line, Imap!Questions
    <3> QED BY <1>0, <3>1, ReadConverses DEF ToldInv
  <2>2. CASE Imap!PumpEnds
    <3>1. phase' = "closed" /\ ~alive /\ UNCHANGED <<asked, lines, alive, gaveUp, accepted>>
      BY <2>2 DEF Imap!PumpEnds, Imap!Eof, Imap!upstreamVars
    <3> QED BY <1>0, <3>1, QuietConverses DEF ToldInv
  <2> QED BY <2>1, <2>2, DiscoveryConverses, ServeConverses, NoteConverses, UpstreamClosesConverses DEF ToldInv
<1> QED BY <1>3, <1>4, <1>5 DEF ToldInv

\* The pump forwards what it finds: no answer to the login, and no answer to the
\* discovery unless that was given up.
LEMMA PumpKeeps ==
    ASSUME ToldInv, Imap!Pump PROVE ToldInv'
<1>0. /\ UNCHANGED <<phase, inbox, sent, tag, oauth, verified, accepted, gaveUp, alive, asked>>
      /\ phase = "pumps" /\ lines # <<>> /\ Imap!Read
  BY DEF Imap!Pump, Imap!loginVars, Imap!clientVars
<1>1. Imap!Line \in Lines /\ (Imap!Line \in Ends => Imap!Line \in Awaited)
  BY <1>0, ReadLeaves DEF ToldInv, ServerInv, Conversing
<1>2. Imap!Line \in Ends => gaveUp /\ Imap!Line \in {"caps", "list"}
  BY <1>0, <1>1, WaitsFor DEF ToldInv, ServerInv, ServerTypes
<1>3. answers' = answers /\ (leaked' # {} => gaveUp)
  BY <1>2 DEF Imap!Pump, Ends, Imap!Questions, ToldInv, Told
<1>4. ServerInv'
  BY <1>0, ReadConverses DEF ToldInv
<1>5. ClientTypes' /\ Numbered'
  BY <1>0, <1>3, OthersKeepNumbers DEF ToldInv, ClientTypes
<1>6. Told'
  BY <1>0, <1>3 DEF ToldInv, Told
<1> QED BY <1>4, <1>5, <1>6 DEF ToldInv

\* The client sends, or goes.
LEMMA ClientKeeps ==
    ASSUME ToldInv, Imap!HangUp \/ (\E v \in Imap!Verbs : Imap!Send(v)) PROVE ToldInv'
<1>1. CASE Imap!HangUp
  BY <1>1, ClosedKeeps DEF Imap!HangUp, Imap!loginVars, Imap!clientVars, Imap!toldVars
<1>2. ASSUME NEW v \in Imap!Verbs, Imap!Send(v) PROVE ToldInv'
  <2>1. UNCHANGED <<phase, tag, oauth, verified, asked, lines, alive, answers, leaked, accepted, gaveUp>>
    BY <1>2 DEF Imap!Send, Imap!loginVars, Imap!upstreamVars, Imap!toldVars
  <2>2. ServerInv'
    BY <2>1, QuietConverses DEF ToldInv
  <2>3. Told'
    BY <2>1, AnswersStay DEF ToldInv, Told
  <2> QED BY <1>2, <2>2, <2>3, SendKeepsNumbers DEF ToldInv
<1> QED BY <1>1, <1>2

\* Each step of a start, those of the other parts among them.
LEMMA LoginStep ==
    ASSUME ToldInv, [StartupNext]_<<part, vars, loginVars, scriptVars>> PROVE ToldInv'
<1>1. CASE UNCHANGED loginVars
  BY <1>1 DEF loginVars, ToldInv, ClientTypes, Numbered, ServerInv, ServerTypes, Conversing, Told,
     Asking, Awaited, Truthful, AtMostOne, Clear, Increasing, Above, Below
<1>2. CASE Imap!Next
  BY <1>2, CommandsKeep, LoginTaken, PayloadTaken, ChecksKeep, LoginBegins, AuthKeeps, LinesKeep, PumpKeeps,
     ClientKeeps DEF Imap!Next, Imap!Handler
<1> QED BY <1>1, <1>2 DEF StartupNext

\* A connection that begins.
LEMMA LoginInit == StartupInit => ToldInv
<1> SUFFICES ASSUME Imap!Init PROVE ToldInv
  BY DEF StartupInit
<1>1. ClientTypes /\ Numbered
  BY DEF Imap!Init, ClientTypes, Numbered, Increasing, Above, Below, Unanswered
<1>2. ServerInv
  <2>1. phase = "greet" /\ asked = <<>> /\ lines = <<>> /\ oauth \in BOOLEAN /\ gaveUp = FALSE
    BY DEF Imap!Init
  <2>2. DOMAIN lines = {} /\ lines \in Seq(Lines) /\ asked \in Seq(Requests)
    BY <2>1
  <2>3. Clear(lines) /\ Truthful(lines) /\ AtMostOne(lines, Awaited)
    BY <2>2 DEF Clear, Truthful, AtMostOne
  <2> QED BY <2>1, <2>2, <2>3 DEF ServerInv, ServerTypes, Conversing
<1>3. Told
  BY DEF Imap!Init, Told, Verified
<1> QED BY <1>1, <1>2, <1>3 DEF ToldInv

\* Commands of a connection are answered in order, each once; a login is answered OK
\* only if the agent was verified here and the upstream server has accepted the real
\* credentials; and the answers to the proxy's own questions reach the client only if
\* the discovery was given up (handle_client, _discover_special_use).
THEOREM LoginsAreTrue == StartupSpec => []LoginIsTrue
<1>1. ToldInv => LoginIsTrue
  BY DEF ToldInv, Numbered, Told, Increasing, LoginIsTrue, Imap!LoginAnswerIsTrue, Imap!DiscoveryIsHidden
<1> QED
  BY <1>1, LoginInit, LoginStep, PTL DEF StartupSpec

-----------------------------------------------------------------------------
(* The scripts over the secrets *)

\* The key the secrets are read with next, and those that must be readable.
ReadKey == IF rotation.pc = "committed" THEN rotation.to ELSE key
InUse == Agents \ (late \cup disconnected \cup DOMAIN teardown)

Tables == UNION {[S -> Scripts!Values] : S \in SUBSET Agents}
RotationTypes ==
    rotation \in [pc : {"off", "write", "committed"}, to : Nat, read : Tables, tx : Tables]
MigrationTypes ==
    migration \in [pc : {"off", "row", "update"}, read : Tables, todo : SUBSET Agents, row : SUBSET Agents,
                   value : Scripts!Values]
ScriptTypes ==
    /\ column \in [Agents -> Scripts!Values] /\ puts \in Nat /\ store \subseteq 1 .. puts
    /\ key \in 1 .. MaxKeys /\ hosted \in BOOLEAN
    /\ RotationTypes /\ MigrationTypes

\* A reference is in one place, and leaves the store with the row that had it.
Referred ==
    /\ \A a \in Agents : column[a] \in Scripts!V2 =>
          /\ column[a][2] \in 1 .. puts
          /\ a \in InUse => column[a][2] \in store
          /\ \A b \in Agents \ {a} : column[b] # column[a]
          /\ column[a] # migration.value
    /\ migration.value \in Scripts!V2 => migration.value[2] \in store
    /\ migration.value \in Scripts!V1 => migration.value[2] = key
    /\ migration.pc = "update" => migration.value \in Scripts!V1 \cup Scripts!V2

\* What a rotation has read is what the rows hold, but for those written since.
Keyed ==
    /\ \A a \in InUse : column[a] \in Scripts!V1 => column[a][2] = ReadKey
    /\ rotation.pc = "write" =>
          /\ DOMAIN rotation.read = Agents
          /\ \A a \in InUse : rotation.read[a] = column[a]
          /\ DOMAIN rotation.tx \subseteq Agents
          /\ \A a \in DOMAIN rotation.tx : rotation.tx[a] = <<"v1", rotation.to>>
    /\ rotation.pc # "off" => rotation.to \in 1 .. MaxKeys

ReadInv == ScriptTypes /\ Referred /\ Keyed

-----------------------------------------------------------------------------

\* The kinds of values.
LEMMA Kinds ==
    /\ Scripts!Null \in Scripts!Values /\ <<"plain">> \in Scripts!Values
    /\ Scripts!V1 \subseteq Scripts!Values /\ Scripts!V2 \subseteq Scripts!Values
    /\ \A v \in Scripts!Values : v = Scripts!Null \/ v = <<"plain">> \/ v \in Scripts!V1 \/ v \in Scripts!V2
    /\ Scripts!V1 \cap Scripts!V2 = {}
    /\ Scripts!Null \notin Scripts!V1 \cup Scripts!V2 /\ <<"plain">> \notin Scripts!V1 \cup Scripts!V2
    /\ \A k \in 1 .. MaxKeys : <<"v1", k>> \in Scripts!V1 /\ <<"v1", k>>[2] = k
    /\ \A r \in 1 .. MaxRefs : <<"v2", r>> \in Scripts!V2 /\ <<"v2", r>>[2] = r
    /\ \A v \in Scripts!V1 : v[2] \in 1 .. MaxKeys /\ v = <<"v1", v[2]>>
    /\ \A v \in Scripts!V2 : v[2] \in 1 .. MaxRefs /\ v = <<"v2", v[2]>>
<1>1. \A v \in Scripts!V1 : v[1] = "v1" /\ v[2] \in 1 .. MaxKeys /\ v = <<"v1", v[2]>>
  BY DEF Scripts!V1
<1>2. \A v \in Scripts!V2 : v[1] = "v2" /\ v[2] \in 1 .. MaxRefs /\ v = <<"v2", v[2]>>
  BY DEF Scripts!V2
<1>3. Scripts!V1 \cap Scripts!V2 = {}
  BY <1>1, <1>2
<1>4. Scripts!Null \notin Scripts!V1 \cup Scripts!V2 /\ <<"plain">> \notin Scripts!V1 \cup Scripts!V2
  BY DEF Scripts!Null, Scripts!V1, Scripts!V2
<1>5. /\ \A k \in 1 .. MaxKeys : <<"v1", k>> \in Scripts!V1 /\ <<"v1", k>>[2] = k
      /\ \A r \in 1 .. MaxRefs : <<"v2", r>> \in Scripts!V2 /\ <<"v2", r>>[2] = r
  BY DEF Scripts!V1, Scripts!V2
<1> QED BY <1>1, <1>2, <1>3, <1>4, <1>5 DEF Scripts!Values

\* Scripts that are not under way.
LEMMA NothingUnderWay ==
    /\ Scripts!NoRotation \in [pc : {"off", "write", "committed"}, to : Nat, read : Tables, tx : Tables]
    /\ Scripts!NoRotation.pc = "off" /\ DOMAIN Scripts!NoRotation.tx = {}
    /\ Scripts!NoMigration \in [pc : {"off", "row", "update"}, read : Tables, todo : SUBSET Agents, row : SUBSET Agents,
                                value : Scripts!Values]
    /\ Scripts!NoMigration.pc = "off" /\ Scripts!NoMigration.value = Scripts!Null
<1>1. [a \in {} |-> Scripts!Null] \in Tables
  <2>1. [a \in {} |-> Scripts!Null] \in [{} -> Scripts!Values]
    OBVIOUS
  <2> QED BY <2>1 DEF Tables
<1> QED BY <1>1, Kinds DEF Scripts!NoRotation, Scripts!NoMigration

\* At first all is in plain text or under the one key.
LEMMA InitIsReadable == StartupInit => ReadInv
<1> SUFFICES ASSUME Scripts!Init, Scripts!ScriptsAssumption PROVE ReadInv
  BY SecretsAssumption DEF StartupInit
<1>1. /\ column \in [Agents -> {Scripts!Null, <<"plain">>, <<"v1", 1>>}]
      /\ rotation = Scripts!NoRotation /\ migration = Scripts!NoMigration /\ key = 1 /\ puts = 0 /\ store = {}
      /\ 1 \in 1 .. MaxKeys /\ hosted \in BOOLEAN
  BY DEF Scripts!Init, Scripts!ScriptsAssumption
<1>2. ScriptTypes
  BY <1>1, Kinds, NothingUnderWay DEF ScriptTypes, RotationTypes, MigrationTypes
<1>3. \A a \in Agents : column[a] \notin Scripts!V2 /\ (column[a] \in Scripts!V1 => column[a][2] = 1)
  BY <1>1, Kinds
<1>4. Referred
  BY <1>1, <1>3, Kinds, NothingUnderWay DEF Referred
<1>5. Keyed
  <2>1. rotation.pc = "off"
    BY <1>1, NothingUnderWay
  <2> QED BY <1>1, <1>3, <2>1 DEF Keyed, ReadKey, InUse
<1> QED BY <1>2, <1>4, <1>5 DEF ReadInv

\* What is stored can be read at once, and no row holds it yet.
LEMMA StoredIsFresh ==
    ASSUME ReadInv, NEW v \in Scripts!V1 \cup Scripts!V2, Scripts!StoreOne(v)
    PROVE  /\ puts' \in Nat /\ store' \subseteq 1 .. puts' /\ store \subseteq store' /\ puts <= puts'
           /\ v \in Scripts!V1 => v[2] = key
           /\ v \in Scripts!V2 => /\ v[2] \in store' /\ v[2] \in 1 .. puts' /\ v # migration.value
                                  /\ \A a \in Agents : column[a] # v
<1>0. puts \in Nat /\ store \subseteq 1 .. puts /\ key \in 1 .. MaxKeys /\ hosted \in BOOLEAN
  BY DEF ReadInv, ScriptTypes
<1>1. CASE hosted
  <2>1. puts < MaxRefs /\ puts' = puts + 1 /\ store' = store \cup {puts + 1} /\ v = <<"v2", puts + 1>>
    BY <1>1 DEF Scripts!StoreOne
  <2>2. puts + 1 \in 1 .. MaxRefs /\ v \in Scripts!V2 /\ v[2] = puts + 1
    <3>1. MaxRefs \in Nat
      BY SecretsAssumption DEF Scripts!ScriptsAssumption
    <3> QED BY <1>0, <2>1, <3>1, Kinds
  <2>3. \A a \in Agents : column[a] # v
    BY <1>0, <2>2 DEF ReadInv, Referred
  <2>4. v # migration.value
    BY <1>0, <2>2 DEF ReadInv, Referred
  <2>5. store' \subseteq 1 .. puts' /\ puts + 1 \in store'
    BY <1>0, <2>1
  <2> QED BY <1>0, <2>1, <2>2, <2>3, <2>4, <2>5, Kinds
<1>2. CASE ~hosted
  <2>1. v = <<"v1", key>> /\ UNCHANGED <<puts, store>>
    BY <1>2 DEF Scripts!StoreOne
  <2>2. v \in Scripts!V1 /\ v[2] = key /\ v \notin Scripts!V2
    BY <1>0, <2>1, Kinds
  <2> QED BY <1>0, <2>1, <2>2
<1> QED BY <1>1, <1>2

-----------------------------------------------------------------------------
(* The services *)

\* The new agent's secret is stored before its column names it.
LEMMA CreateKeepsReadable ==
    ASSUME ReadInv, NEW a \in Agents, Scripts!Create(a) PROVE ReadInv'
<1>1. PICK v \in Scripts!V1 \cup Scripts!V2 : Scripts!StoreOne(v) /\ column' = [column EXCEPT ![a] = v]
  BY DEF Scripts!Create
<1>2. /\ late' = (IF rotation.pc = "off" THEN late ELSE late \cup {a})
      /\ UNCHANGED <<hosted, key, rotation, migration, teardown, disconnected>>
  BY DEF Scripts!Create
<1>3. column \in [Agents -> Scripts!Values] /\ v \in Scripts!Values
  BY Kinds DEF ReadInv, ScriptTypes
<1>4. column'[a] = v /\ \A b \in Agents \ {a} : column'[b] = column[b]
  BY <1>1, <1>3
<1>5. ScriptTypes'
  BY <1>1, <1>2, <1>3, StoredIsFresh DEF ReadInv, ScriptTypes, RotationTypes, MigrationTypes
<1>6. InUse' \subseteq InUse /\ ReadKey' = ReadKey
  BY <1>2 DEF InUse, ReadKey
<1>7. Referred'
  <2>1. ASSUME NEW b \in Agents, column'[b] \in Scripts!V2
        PROVE  /\ column'[b][2] \in 1 .. puts'
               /\ b \in InUse' => column'[b][2] \in store'
               /\ \A c \in Agents \ {b} : column'[c] # column'[b]
               /\ column'[b] # migration'.value
    <3>1. CASE b = a
      BY <1>1, <1>2, <1>4, <2>1, <3>1, StoredIsFresh
    <3>2. CASE b # a
      <4>1. column'[b] = column[b] /\ column[b] \in Scripts!V2
        BY <1>4, <2>1, <3>2
      <4>2. /\ column[b][2] \in 1 .. puts /\ (b \in InUse => column[b][2] \in store)
            /\ \A c \in Agents \ {b} : column[c] # column[b]
            /\ column[b] # migration.value
        BY <4>1 DEF ReadInv, Referred
      <4>3. v # column[b]
        BY <1>1, <4>1, StoredIsFresh, Kinds
      <4>4. puts \in Nat /\ puts' \in Nat /\ puts <= puts' /\ store \subseteq store'
        BY <1>1, StoredIsFresh DEF ReadInv, ScriptTypes
      <4> QED BY <1>2, <1>4, <1>6, <4>1, <4>2, <4>3, <4>4
    <3> QED BY <3>1, <3>2
  <2> QED BY <1>1, <1>2, <2>1, StoredIsFresh DEF ReadInv, Referred
<1>8. Keyed'
  <2>1. \A b \in InUse' : column'[b] \in Scripts!V1 => column'[b][2] = ReadKey'
    BY <1>1, <1>2, <1>4, <1>6, StoredIsFresh DEF ReadInv, Keyed, ReadKey, InUse
  <2>2. rotation.pc = "write" => \A b \in InUse' : column'[b] = column[b]
    BY <1>2, <1>4 DEF InUse
  <2> QED BY <1>2, <1>6, <2>1, <2>2 DEF ReadInv, Keyed
<1> QED BY <1>5, <1>7, <1>8 DEF ReadInv

\* A secret is deleted: no other row refers to it.
LEMMA DisconnectKeepsReadable ==
    ASSUME ReadInv, NEW a \in Agents, Scripts!Disconnect(a) PROVE ReadInv'
<1>1. /\ store' = store \ {r \in store : column[a] = <<"v2", r>>}
      /\ teardown' = [b \in DOMAIN teardown \cup {a} |-> IF b = a THEN column[a] ELSE teardown[b]]
      /\ UNCHANGED <<column, puts, hosted, key, rotation, migration, late, disconnected>>
  BY DEF Scripts!Disconnect
<1>2. DOMAIN teardown' = DOMAIN teardown \cup {a} /\ InUse' \subseteq InUse \ {a} /\ ReadKey' = ReadKey
  BY <1>1 DEF InUse, ReadKey
<1>3. \A v \in Scripts!V2 : v[2] \in store /\ v # column[a] => v[2] \in store'
  BY <1>1, Kinds
<1>4. ScriptTypes'
  BY <1>1 DEF ReadInv, ScriptTypes, RotationTypes, MigrationTypes
<1>5. Referred'
  <2>1. column[a] # migration.value \/ column[a] \notin Scripts!V2
    BY DEF ReadInv, Referred
  <2>2. migration.value \in Scripts!V2 => migration.value[2] \in store'
    BY <1>3, <2>1 DEF ReadInv, Referred
  <2>3. \A b \in Agents \ {a} : b \in InUse /\ column[b] \in Scripts!V2 => column[b][2] \in store'
    BY <1>3 DEF ReadInv, Referred
  <2> QED BY <1>1, <1>2, <2>2, <2>3 DEF ReadInv, Referred
<1>6. Keyed'
  BY <1>1, <1>2 DEF ReadInv, Keyed
<1> QED BY <1>4, <1>5, <1>6 DEF ReadInv

\* The columns of an agent are nulled.
LEMMA NulledKeepsReadable ==
    ASSUME ReadInv, NEW a \in Agents, Scripts!Nulled(a) PROVE ReadInv'
<1>1. /\ column' = [column EXCEPT ![a] = Scripts!Null] /\ disconnected' = disconnected \cup {a}
      /\ teardown' = [b \in DOMAIN teardown \ {a} |-> teardown[b]]
      /\ UNCHANGED <<store, puts, hosted, key, rotation, migration, late>>
  BY DEF Scripts!Nulled
<1>2. DOMAIN teardown' = DOMAIN teardown \ {a} /\ InUse' \subseteq InUse \ {a} /\ ReadKey' = ReadKey
  BY <1>1 DEF InUse, ReadKey
<1>3. column'[a] = Scripts!Null /\ \A b \in Agents \ {a} : column'[b] = column[b]
  BY <1>1 DEF ReadInv, ScriptTypes
<1>4. ScriptTypes'
  BY <1>1, Kinds DEF ReadInv, ScriptTypes, RotationTypes, MigrationTypes
<1>5. Referred'
  BY <1>1, <1>2, <1>3, Kinds DEF ReadInv, Referred
<1>6. Keyed'
  BY <1>1, <1>2, <1>3 DEF ReadInv, Keyed
<1> QED BY <1>4, <1>5, <1>6 DEF ReadInv

-----------------------------------------------------------------------------
(* The rotation *)

\* The rotation reads every column once, under the key it replaces.
LEMMA RotateKeepsReadable ==
    ASSUME ReadInv, Scripts!Rotate PROVE ReadInv'
<1>1. /\ rotation.pc = "off" /\ key < MaxKeys
      /\ rotation' = [Scripts!NoRotation EXCEPT !.pc = "write", !.to = key + 1, !.read = column]
      /\ UNCHANGED <<column, store, puts, hosted, key, migration, teardown, late, disconnected>>
  BY DEF Scripts!Rotate
<1>2. column \in Tables /\ DOMAIN column = Agents /\ key \in Nat /\ MaxKeys \in Nat /\ key \in 1 .. MaxKeys
  BY SecretsAssumption DEF ReadInv, ScriptTypes, Tables, Scripts!ScriptsAssumption
<1>3. /\ RotationTypes' /\ rotation'.pc = "write" /\ rotation'.to = key + 1 /\ rotation'.read = column
      /\ DOMAIN rotation'.tx = {}
  <2>1. rotation'.pc = "write" /\ rotation'.to = key + 1 /\ rotation'.read = column
        /\ rotation'.tx = Scripts!NoRotation.tx
    BY <1>1, NothingUnderWay DEF Scripts!NoRotation
  <2>2. RotationTypes'
    <3>1. key + 1 \in Nat /\ column \in Tables
      BY <1>2
    <3>2. rotation' \in [pc : {"off", "write", "committed"}, to : Nat, read : Tables, tx : Tables]
      BY ONLY <1>1, <3>1, NothingUnderWay
    <3> QED BY <3>2 DEF RotationTypes
  <2> QED BY <2>1, <2>2, NothingUnderWay
<1>4. ScriptTypes'
  BY <1>1, <1>3 DEF ReadInv, ScriptTypes, MigrationTypes
<1>5. Referred'
  BY <1>1 DEF ReadInv, Referred, InUse
<1>6. Keyed'
  BY <1>1, <1>2, <1>3 DEF ReadInv, Keyed, InUse, ReadKey
<1> QED BY <1>4, <1>5, <1>6 DEF ReadInv

\* A row is encrypted under the new key, in the transaction only.
LEMMA ReencryptKeepsReadable ==
    ASSUME ReadInv, NEW a \in Agents, Scripts!Reencrypt(a) PROVE ReadInv'
<1>1. /\ rotation.pc = "write"
      /\ rotation' = [rotation EXCEPT !.tx =
                         [b \in DOMAIN @ \cup {a} |-> IF b = a THEN <<"v1", rotation.to>> ELSE @[b]]]
      /\ UNCHANGED <<column, store, puts, hosted, key, migration, teardown, late, disconnected>>
  BY DEF Scripts!Reencrypt
<1> DEFINE tx == [b \in DOMAIN rotation.tx \cup {a} |-> IF b = a THEN <<"v1", rotation.to>> ELSE rotation.tx[b]]
<1>2. rotation.to \in 1 .. MaxKeys /\ <<"v1", rotation.to>> \in Scripts!Values
  BY <1>1, Kinds DEF ReadInv, Keyed
<1>3. DOMAIN tx \subseteq Agents /\ \A b \in DOMAIN tx : tx[b] = <<"v1", rotation.to>>
  BY <1>1 DEF ReadInv, Keyed
<1>4. tx \in Tables
  <2>1. tx \in [DOMAIN tx -> Scripts!Values]
    BY <1>2, <1>3
  <2> HIDE DEF tx
  <2> QED BY <1>3, <2>1 DEF Tables
<1>5. rotation' = [rotation EXCEPT !.tx = tx]
  BY <1>1
<1> HIDE DEF tx
<1>6. /\ RotationTypes' /\ rotation'.pc = rotation.pc /\ rotation'.to = rotation.to /\ rotation'.read = rotation.read
      /\ rotation'.tx = tx
  BY <1>4, <1>5 DEF ReadInv, ScriptTypes, RotationTypes
<1>7. ScriptTypes'
  BY <1>1, <1>6 DEF ReadInv, ScriptTypes, MigrationTypes
<1>8. Referred'
  BY <1>1 DEF ReadInv, Referred, InUse
<1>9. Keyed'
  BY <1>1, <1>3, <1>6 DEF ReadInv, Keyed, InUse, ReadKey
<1> QED BY <1>7, <1>8, <1>9 DEF ReadInv

\* The rows hold what was read, or were written since: all that is encrypted is
\* encrypted under the new key now.
LEMMA CommitKeepsReadable ==
    ASSUME ReadInv, Scripts!CommitRotation PROVE ReadInv'
<1>1. /\ rotation.pc = "write" /\ Scripts!Encrypted = DOMAIN rotation.tx
      /\ column' = [a \in Agents |-> IF a \in DOMAIN rotation.tx THEN rotation.tx[a] ELSE column[a]]
      /\ rotation' = [Scripts!NoRotation EXCEPT !.pc = "committed", !.to = rotation.to]
      /\ UNCHANGED <<store, puts, hosted, key, migration, teardown, late, disconnected>>
  BY DEF Scripts!CommitRotation
<1>2. /\ RotationTypes' /\ rotation'.pc = "committed" /\ rotation'.to = rotation.to
      /\ rotation.to \in 1 .. MaxKeys /\ <<"v1", rotation.to>> \in Scripts!V1 /\ <<"v1", rotation.to>>[2] = rotation.to
  <2>1. rotation.to \in 1 .. MaxKeys
    BY <1>1 DEF ReadInv, Keyed
  <2>2. RotationTypes' /\ rotation'.pc = "committed" /\ rotation'.to = rotation.to
    <3>1. rotation.to \in Nat
      BY <2>1
    <3>2. /\ rotation' \in [pc : {"off", "write", "committed"}, to : Nat, read : Tables, tx : Tables]
          /\ rotation'.pc = "committed" /\ rotation'.to = rotation.to
      BY ONLY <1>1, <3>1, NothingUnderWay
    <3> QED BY <3>2 DEF RotationTypes
  <2> QED BY <2>1, <2>2, Kinds
<1>3. \A a \in Agents : \/ a \in DOMAIN rotation.tx /\ column'[a] = <<"v1", rotation.to>>
                        \/ a \notin DOMAIN rotation.tx /\ column'[a] = column[a]
  BY <1>1 DEF ReadInv, Keyed
<1>4. InUse' = InUse /\ ReadKey' = rotation.to
  BY <1>1, <1>2 DEF InUse, ReadKey
<1>5. ScriptTypes'
  <2>1. column' \in [Agents -> Scripts!Values]
    <3>1. \A a \in Agents : column'[a] \in Scripts!Values
      BY <1>2, <1>3, Kinds DEF ReadInv, ScriptTypes
    <3> QED BY <1>1, <3>1
  <2> QED BY <1>1, <1>2, <2>1 DEF ReadInv, ScriptTypes, MigrationTypes
<1>6. Referred'
  <2>1. \A a \in Agents : column'[a] \in Scripts!V2 => column'[a] = column[a]
    BY <1>2, <1>3, Kinds
  <2>2. \A a, b \in Agents : column'[a] \in Scripts!V2 /\ column'[b] = column'[a] => column[b] = column'[b]
    BY <2>1
  <2> QED BY <1>1, <1>4, <2>1, <2>2 DEF ReadInv, Referred
<1>7. Keyed'
  <2>1. ASSUME NEW a \in InUse, column'[a] \in Scripts!V1 PROVE column'[a][2] = rotation.to
    <3>1. a \in Agents /\ rotation.read[a] = column[a] /\ DOMAIN rotation.read = Agents
      BY <1>1 DEF ReadInv, Keyed, InUse
    <3>2. a \notin DOMAIN rotation.tx => column[a] \notin Scripts!V1
      BY <1>1, <3>1 DEF Scripts!Encrypted
    <3> QED BY <1>2, <1>3, <2>1, <3>1, <3>2
  <2> QED BY <1>2, <1>4, <2>1 DEF Keyed
<1> QED BY <1>5, <1>6, <1>7 DEF ReadInv

\* A rotation that ends with nothing committed.
LEMMA NoRotationKeepsReadable ==
    ASSUME ReadInv, rotation.pc = "write", rotation' = Scripts!NoRotation,
           UNCHANGED <<column, store, puts, hosted, key, migration, teardown, late, disconnected>>
    PROVE  ReadInv'
<1>1. ScriptTypes'
  BY NothingUnderWay DEF ReadInv, ScriptTypes, RotationTypes, MigrationTypes
<1>2. Referred'
  BY DEF ReadInv, Referred, InUse
<1>3. rotation'.pc = "off"
  BY NothingUnderWay
<1>4. Keyed'
  BY <1>3 DEF ReadInv, Keyed, InUse, ReadKey
<1> QED BY <1>1, <1>2, <1>4 DEF ReadInv

\* A migration that ends: what was put and not written to a row stays in the store.
LEMMA NoMigrationKeepsReadable ==
    ASSUME ReadInv, migration' = Scripts!NoMigration,
           UNCHANGED <<column, store, puts, hosted, key, rotation, teardown, late, disconnected>>
    PROVE  ReadInv'
<1>1. ScriptTypes'
  BY NothingUnderWay DEF ReadInv, ScriptTypes, RotationTypes, MigrationTypes
<1>2. Referred'
  BY Kinds, NothingUnderWay DEF ReadInv, Referred, InUse
<1>3. Keyed'
  BY DEF ReadInv, Keyed, InUse, ReadKey
<1> QED BY <1>1, <1>2, <1>3 DEF ReadInv

\* The services are started with the new key.
LEMMA RestartKeepsReadable ==
    ASSUME ReadInv, Scripts!Restart PROVE ReadInv'
<1>1. /\ rotation.pc = "committed" /\ key' = rotation.to
      /\ rotation' = Scripts!NoRotation /\ migration' = Scripts!NoMigration
      /\ UNCHANGED <<column, store, puts, hosted, teardown, late, disconnected>>
  BY DEF Scripts!Restart
<1>2. rotation'.pc = "off" /\ ReadKey' = ReadKey /\ InUse' = InUse /\ key' \in 1 .. MaxKeys
  BY <1>1, NothingUnderWay DEF ReadInv, Keyed, ReadKey, InUse
<1>3. ScriptTypes'
  BY <1>1, <1>2, NothingUnderWay DEF ReadInv, ScriptTypes, RotationTypes, MigrationTypes
<1>4. Referred'
  BY <1>1, <1>2, Kinds, NothingUnderWay DEF ReadInv, Referred
<1>5. Keyed'
  BY <1>1, <1>2 DEF ReadInv, Keyed
<1> QED BY <1>3, <1>4, <1>5 DEF ReadInv

-----------------------------------------------------------------------------
(* The migration to the external store *)

\* The migration reads every column that is not a reference yet.
LEMMA MigrateKeepsReadable ==
    ASSUME ReadInv, Scripts!Migrate PROVE ReadInv'
<1>1. /\ migration' = [Scripts!NoMigration EXCEPT !.pc = "row", !.read = column,
                          !.todo = {a \in Agents : column[a] \notin Scripts!V2 \cup {Scripts!Null}}]
      /\ UNCHANGED <<column, store, puts, hosted, key, rotation, teardown, late, disconnected>>
  BY DEF Scripts!Migrate
<1>2. column \in Tables
  BY DEF ReadInv, ScriptTypes, Tables
<1>3. MigrationTypes' /\ migration'.pc = "row" /\ migration'.value = Scripts!Null
  <2> DEFINE todo == {a \in Agents : column[a] \notin Scripts!V2 \cup {Scripts!Null}}
  <2>1. migration' = [Scripts!NoMigration EXCEPT !.pc = "row", !.read = column, !.todo = todo] /\ todo \subseteq Agents
    BY <1>1
  <2> HIDE DEF todo
  <2>2. MigrationTypes'
    BY <1>2, <2>1, NothingUnderWay DEF MigrationTypes
  <2>3. migration'.pc = "row" /\ migration'.value = Scripts!Null
    BY <2>1 DEF Scripts!NoMigration
  <2> QED BY <2>2, <2>3
<1>4. ScriptTypes'
  BY <1>1, <1>3 DEF ReadInv, ScriptTypes, RotationTypes
<1>5. Referred'
  BY <1>1, <1>3, Kinds DEF ReadInv, Referred, InUse
<1>6. Keyed'
  BY <1>1 DEF ReadInv, Keyed, InUse, ReadKey
<1> QED BY <1>4, <1>5, <1>6 DEF ReadInv

\* A secret is put into the store, its row still has the old value.
LEMMA PutKeepsReadable ==
    ASSUME ReadInv, NEW a \in Agents, Scripts!PutSecret(a) PROVE ReadInv'
<1>1. PICK v \in Scripts!V1 \cup Scripts!V2 :
         /\ Scripts!StoreOne(v)
         /\ migration' = [migration EXCEPT !.pc = "update", !.todo = @ \ {a}, !.row = {a}, !.value = v]
  BY DEF Scripts!PutSecret
<1>2. UNCHANGED <<column, hosted, key, rotation, teardown, late, disconnected>>
  BY DEF Scripts!PutSecret
<1>3. MigrationTypes' /\ migration'.value = v
  BY <1>1, Kinds DEF ReadInv, ScriptTypes, MigrationTypes
<1>4. ScriptTypes'
  BY <1>1, <1>2, <1>3, StoredIsFresh DEF ReadInv, ScriptTypes, RotationTypes
<1>5. Referred'
  <2>1. puts \in Nat /\ puts' \in Nat /\ puts <= puts' /\ store \subseteq store'
    BY <1>1, StoredIsFresh DEF ReadInv, ScriptTypes
  <2>2. /\ v \in Scripts!V2 => v[2] \in store' /\ \A b \in Agents : column[b] # v
        /\ v \in Scripts!V1 => v[2] = key
    BY <1>1, StoredIsFresh
  <2>3. \A b \in Agents : column[b] \in Scripts!V2 => column[b] # v
    BY <2>2, Kinds
  <2>4. InUse' = InUse
    BY <1>2 DEF InUse
  <2>5. \A b \in Agents : column[b] \in Scripts!V2 =>
          /\ column[b][2] \in 1 .. puts'
          /\ b \in InUse => column[b][2] \in store'
          /\ \A c \in Agents \ {b} : column[c] # column[b]
    BY <2>1 DEF ReadInv, Referred
  <2> QED BY <1>1, <1>2, <1>3, <2>2, <2>3, <2>4, <2>5 DEF Referred
<1>6. Keyed'
  BY <1>2 DEF ReadInv, Keyed, InUse, ReadKey
<1> QED BY <1>4, <1>5, <1>6 DEF ReadInv

\* The row is written: by then its value may be one that another has written, or null.
LEMMA UpdateKeepsReadable ==
    ASSUME ReadInv, NEW a \in Agents, Scripts!UpdateRow(a) PROVE ReadInv'
<1>1. /\ migration.pc = "update" /\ column' = [column EXCEPT ![a] = migration.value]
      /\ migration' = [migration EXCEPT !.pc = "row", !.row = {}, !.value = Scripts!Null]
      /\ late' = (IF rotation.pc = "off" THEN late ELSE late \cup {a})
      /\ UNCHANGED <<store, puts, hosted, key, rotation, teardown, disconnected>>
  BY DEF Scripts!UpdateRow
<1>2. column'[a] = migration.value /\ \A b \in Agents \ {a} : column'[b] = column[b]
  BY <1>1 DEF ReadInv, ScriptTypes
<1>3. MigrationTypes' /\ migration'.value = Scripts!Null /\ migration'.pc = "row"
  BY <1>1, Kinds DEF ReadInv, ScriptTypes, MigrationTypes
<1>4. ScriptTypes'
  <2>1. migration.value \in Scripts!Values
    BY DEF ReadInv, ScriptTypes, MigrationTypes
  <2> QED BY <1>1, <1>3, <2>1 DEF ReadInv, ScriptTypes, RotationTypes
<1>5. InUse' \subseteq InUse /\ ReadKey' = ReadKey
  BY <1>1 DEF InUse, ReadKey
<1>6. Referred'
  <2>1. migration.value \in Scripts!V2 => migration.value[2] \in store /\ migration.value[2] \in 1 .. puts
    BY DEF ReadInv, Referred, ScriptTypes
  <2>2. \A b \in Agents : column[b] \in Scripts!V2 => column[b] # migration.value
    BY DEF ReadInv, Referred
  <2>3. ASSUME NEW b \in Agents, column'[b] \in Scripts!V2
        PROVE  /\ column'[b][2] \in 1 .. puts
               /\ b \in InUse' => column'[b][2] \in store
               /\ \A c \in Agents \ {b} : column'[c] # column'[b]
    <3>1. CASE b = a
      BY <1>2, <2>1, <2>2, <2>3, <3>1
    <3>2. CASE b # a
      <4>1. column'[b] = column[b] /\ column[b] # migration.value
        BY <1>2, <2>2, <2>3, <3>2
      <4>2. /\ column[b][2] \in 1 .. puts /\ (b \in InUse => column[b][2] \in store)
            /\ \A c \in Agents \ {b} : column[c] # column[b]
        BY <2>3, <4>1 DEF ReadInv, Referred
      <4> QED BY <1>2, <1>5, <4>1, <4>2
    <3> QED BY <3>1, <3>2
  <2> QED BY <1>1, <1>3, <2>3, Kinds DEF Referred
<1>7. Keyed'
  <2>1. \A b \in InUse' : column'[b] \in Scripts!V1 => column'[b][2] = ReadKey'
    BY <1>1, <1>2, <1>5 DEF ReadInv, Keyed, Referred, ReadKey, InUse
  <2>2. rotation.pc = "write" => \A b \in InUse' : column'[b] = column[b]
    BY <1>1, <1>2 DEF InUse
  <2> QED BY <1>1, <1>5, <2>1, <2>2 DEF ReadInv, Keyed
<1> QED BY <1>4, <1>6, <1>7 DEF ReadInv

\* Each step of a start, those of the other parts among them.
LEMMA StepKeepsReadable ==
    ASSUME ReadInv, [StartupNext]_<<part, vars, loginVars, scriptVars>> PROVE ReadInv'
<1>1. CASE UNCHANGED scriptVars
  BY <1>1 DEF scriptVars, ReadInv, ScriptTypes, RotationTypes, MigrationTypes, Referred, Keyed, ReadKey, InUse
<1>2. CASE Scripts!Next
  <2>1. Scripts!Abort => ReadInv'
    BY NoRotationKeepsReadable DEF Scripts!Abort
  <2>2. Scripts!MigrationEnds => ReadInv'
    BY NoMigrationKeepsReadable DEF Scripts!MigrationEnds
  <2>3. Scripts!ScriptDies => ReadInv'
    BY NoRotationKeepsReadable, NoMigrationKeepsReadable DEF Scripts!ScriptDies
  <2>4. ASSUME NEW a \in Agents,
               \/ Scripts!Create(a) \/ Scripts!Disconnect(a) \/ Scripts!Nulled(a) \/ Scripts!Reencrypt(a)
               \/ Scripts!PutSecret(a) \/ Scripts!UpdateRow(a)
        PROVE  ReadInv'
    BY <2>4, CreateKeepsReadable, DisconnectKeepsReadable, NulledKeepsReadable, ReencryptKeepsReadable,
       PutKeepsReadable, UpdateKeepsReadable
  <2> QED BY <1>2, <2>1, <2>2, <2>3, <2>4, RotateKeepsReadable, CommitKeepsReadable, RestartKeepsReadable,
             MigrateKeepsReadable DEF Scripts!Next
<1> QED BY <1>1, <1>2 DEF StartupNext

\* While the scripts run, wherever they end and whatever they meet, each secret in use can
\* be read with the key of the services, or with the new one once the rotation has
\* committed, but for rows written since the rotation read its own
\* (rotate_master_key.py, migrate_secrets.py, fetch_credential).
THEOREM SecretsAlwaysReadable == StartupSpec => []SecretsAreReadable
<1>1. ReadInv => SecretsAreReadable
  <2> SUFFICES ASSUME ReadInv, NEW a \in InUse, column[a] # Scripts!Null
               PROVE  Scripts!Resolves(column[a], ReadKey)
    BY DEF SecretsAreReadable, Scripts!SecretsAreReadable, InUse, ReadKey
  <2>1. a \in Agents /\ column[a] \in Scripts!Values
    BY DEF ReadInv, ScriptTypes, InUse
  <2> QED BY <2>1, Kinds DEF ReadInv, Keyed, Referred, Scripts!Resolves
<1> QED
  BY <1>1, InitIsReadable, StepKeepsReadable, PTL DEF StartupSpec

=============================================================================
