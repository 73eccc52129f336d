--------------------------- MODULE SchemaMigration ---------------------------
(***************************************************************************)
(* _storage at the start of a process: create_all, migrate_schema and its  *)
(* migrations, on a database an earlier release left behind.  serve and a  *)
(* backfill may start together, and a start may die anywhere.              *)
(*                                                                         *)
(* pysqlite opens a transaction at the first INSERT, UPDATE or DELETE and  *)
(* not for DDL or a SELECT, so a check and the ALTER, DROP or CREATE INDEX *)
(* it decides are steps of their own; each takes effect at once.  Rows     *)
(* stand for the links, which fragments are moved like.  The columns of    *)
(* one table are one.                                                      *)
(***************************************************************************)
EXTENDS Integers, FiniteSets

CONSTANTS Procs, Rows, Entities, \* rows and entities are numbers
          PageSize, \* _IN_CHUNK, and the limit of a page of entities
          MaxBoots  \* bound: starts of each process

Latest == 6
None   == -1      \* no row in schema_version, no process
Tables == {1, 2}  \* whose columns migrations 1 and 2 add: source, spend_reservation

\* What is assumed of the constants.
ConstantsOK ==
    /\ None \notin Procs /\ PageSize \in Nat \ {0}
    /\ \A S \in {Rows, Entities} : S \subseteq Nat /\ IsFiniteSet(S)

VARIABLES
    db,    \* committed: [version, columns, json, links, fts, tokens, indexes]
    tx,    \* the open write transaction: [holder, view]
    pc,    \* [Procs -> "off", "tables", "first", "check", "act", "bump", "serving", "dead"]
    at,    \* [Procs -> the migration it runs]
    seen,  \* [Procs -> what its check read: rows, entities or {TRUE} for "to be done"]
    boots, together \* history: starts; has one been under way beside another?

vars == <<db, tx, pc, at, seen, boots, together>>

Booting(p) == pc[p] \notin {"off", "serving", "dead"}
NoTx       == [holder |-> None, view |-> {}]
View(p)    == IF tx.holder = p THEN tx.view ELSE db
Least(S)   == {r \in S : Cardinality({t \in S : t < r}) < PageSize}

\* A release without versions: "old" rows in agenda_json, columns that may be missing.
\* json and links are functions from rows to the payload: "old", or "new" after an update.
Init ==
    /\ \E J \in SUBSET Rows, columns \in {{}, Tables}, fts \in BOOLEAN :
         db = [version |-> None, columns |-> columns, json |-> [r \in J |-> "old"],
               links |-> [r \in Rows \ J |-> "old"], fts |-> fts, tokens |-> {}, indexes |-> FALSE]
    /\ tx = NoTx /\ pc = [p \in Procs |-> "off"]
    /\ at = [p \in Procs |-> 1] /\ seen = [p \in Procs |-> {}]
    /\ boots = [p \in Procs |-> 0] /\ together = FALSE

Goes(p, to) == pc' = [pc EXCEPT ![p] = to]

Boot(p) ==
    /\ pc[p] \in {"off", "dead"} /\ boots[p] < MaxBoots
    /\ boots' = [boots EXCEPT ![p] = @ + 1]
    /\ together' = (together \/ \E q \in Procs : Booting(q))
    /\ Goes(p, "tables") /\ UNCHANGED <<db, tx, at, seen>>

\* A process goes on from the version it read, whoever has moved it since.
Version(p) ==
    /\ pc[p] = "tables"
    /\ IF db.version = None THEN Goes(p, "first") /\ UNCHANGED at
       ELSE /\ at' = [at EXCEPT ![p] = db.version + 1]
            /\ Goes(p, IF db.version = Latest THEN "serving" ELSE "check")
    /\ UNCHANGED <<db, tx, seen, boots, together>>

FirstVersion(p) ==
    /\ pc[p] = "first" /\ tx = NoTx
    /\ IF db.version = None THEN db' = [db EXCEPT !.version = 0] /\ Goes(p, "check")
                            ELSE Goes(p, "dead") /\ UNCHANGED db
    /\ at' = [at EXCEPT ![p] = 1] /\ UNCHANGED <<tx, seen, boots, together>>
-----------------------------------------------------------------------------
\* What migration n finds still to do; nothing: {}.
ToDo(n, d) ==
    CASE n \in Tables -> IF n \in d.columns THEN {} ELSE {TRUE}
      [] n = 3 -> Least(DOMAIN d.json)
      [] n = 4 -> IF d.fts THEN {TRUE} ELSE {}
      [] n = 5 -> Least(Entities \ d.tokens)
      [] n = 6 -> IF d.indexes THEN {} ELSE {TRUE}

\* A page is written as it was read, over what is there, then deleted.
Moved(d, page) ==
    [d EXCEPT !.links = [r \in DOMAIN d.links \cup page |-> IF r \in page THEN "old" ELSE d.links[r]],
              !.json = [r \in DOMAIN d.json \ page |-> d.json[r]]]

\* What it does about it, to what is there by then.
Done(n, d, found) ==
    CASE n \in Tables -> [d EXCEPT !.columns = @ \cup {n}]
      [] n = 3 -> Moved(d, found)
      [] n = 4 -> [d EXCEPT !.fts = FALSE]
      [] n = 5 -> [d EXCEPT !.tokens = @ \cup found]
      [] n = 6 -> [d EXCEPT !.indexes = TRUE]

\* A duplicate column, no such table, a token twice, an index that exists.
Clashes(n, d, found) ==
    CASE n \in Tables -> n \in d.columns
      [] n = 3 -> FALSE
      [] n = 4 -> ~ d.fts
      [] n = 5 -> found \cap d.tokens # {}
      [] n = 6 -> d.indexes

InTransaction(n) == n \in {3, 5}

Check(p) ==
    /\ pc[p] = "check"
    /\ seen' = [seen EXCEPT ![p] = ToDo(at[p], View(p))]
    /\ Goes(p, IF ToDo(at[p], View(p)) = {} THEN "bump" ELSE "act")
    /\ UNCHANGED <<db, tx, at, boots, together>>

\* Its transaction is rolled back.
Ends(p, as) == /\ Goes(p, as) /\ tx' = (IF tx.holder = p THEN NoTx ELSE tx)
               /\ seen' = [seen EXCEPT ![p] = {}] /\ UNCHANGED <<db, at, boots, together>>

Act(p) ==
    /\ pc[p] = "act" /\ tx.holder \in {None, p}
    /\ IF Clashes(at[p], View(p), seen[p]) THEN Ends(p, "dead")
       ELSE LET result == Done(at[p], View(p), seen[p])
            IN  /\ IF InTransaction(at[p])
                   THEN tx' = [holder |-> p, view |-> result] /\ UNCHANGED db
                   ELSE db' = result /\ UNCHANGED tx
                /\ Goes(p, IF InTransaction(at[p]) THEN "check" ELSE "bump")
                /\ seen' = [seen EXCEPT ![p] = {}] /\ UNCHANGED <<at, boots, together>>

\* The version and what is in the transaction are committed together.
Bump(p) ==
    /\ pc[p] = "bump" /\ tx.holder \in {None, p}
    /\ db' = [View(p) EXCEPT !.version = at[p]]
    /\ tx' = NoTx
    /\ IF at[p] = Latest THEN Goes(p, "serving") /\ UNCHANGED at
                         ELSE Goes(p, "check") /\ at' = [at EXCEPT ![p] = @ + 1]
    /\ UNCHANGED <<seen, boots, together>>

\* The busy timeout, while the other process is in its transaction.
Locked(p) == /\ pc[p] \in {"first", "act", "bump"} /\ tx.holder \notin {None, p}
             /\ Ends(p, "dead")

Crash(p) ==
    /\ pc[p] \notin {"off", "dead"}
    /\ Ends(p, "off")

\* A process that serves stores a link anew.
Serve(p, r) ==
    /\ pc[p] = "serving" /\ tx = NoTx /\ r \in DOMAIN db.links /\ db.links[r] = "old"
    /\ db' = [db EXCEPT !.links[r] = "new"]
    /\ UNCHANGED <<tx, pc, at, seen, boots, together>>

MigrateNext == \E p \in Procs :
    \/ Boot(p) \/ Version(p) \/ FirstVersion(p) \/ Check(p) \/ Act(p) \/ Bump(p) \/ Locked(p) \/ Crash(p)
    \/ \E r \in Rows : Serve(p, r)

MigrateSpec == Init /\ [][MigrateNext]_vars
-----------------------------------------------------------------------------
\* No row is lost on the way to its table, whoever moves it and wherever it dies.
RowsKept == DOMAIN db.json \cup DOMAIN db.links = Rows

\* A process that serves finds everything migrated, although another that started
\* with an older version may have put the version back.
ServedIsMigrated == \A p \in Procs : pc[p] = "serving" =>
    /\ db.json = <<>> /\ db.columns = Tables /\ db.tokens = Entities /\ db.indexes /\ ~ db.fts

\* Only a start beside another one fails: alone, one that follows a crash, at
\* whatever step, goes through.
RestartSucceeds == ~ together => \A p \in Procs : pc[p] # "dead"

MigrationIsSafe == RowsKept /\ ServedIsMigrated /\ RestartSucceeds
=============================================================================
