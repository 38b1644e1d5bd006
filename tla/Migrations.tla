----------------------------- MODULE Migrations -----------------------------
(***************************************************************************)
(* The migration runner, scripts/migrate_postgres.py: every file of the    *)
(* migrations directory that schema_migrations does not name is applied,   *)
(* in the order of its version, all in one database transaction.  There is *)
(* no lock of its own: two jobs at once meet in PostgreSQL's locks.        *)
(***************************************************************************)
EXTENDS Naturals, Sequences, FiniteSets, SequencesExt

CONSTANTS
    Job,       \* executions of the script
    Versions   \* number of migration files, versions 1 .. Versions

ASSUME MigrationAssumption == Versions \in Nat \ {0}

VARIABLES
    schema,    \* versions whose SQL is in effect, in the order it took effect
    recorded,  \* committed rows of schema_migrations
    jpc,       \* where each job is
    seen,      \* applied_versions, as the job read them
    mine       \* versions its open transaction has applied and recorded

migrationVars == <<schema, recorded, jpc, seen, mine>>

(* A new database, or one that an earlier release has migrated.            *)
MigrationInit ==
    /\ \E k \in 0 .. Versions :
        schema = [v \in 1 .. k |-> v] /\ recorded = 1 .. k
    /\ jpc = [j \in Job |-> "idle"]
    /\ seen = [j \in Job |-> {}]
    /\ mine = [j \in Job |-> <<>>]

Inside(j) == jpc[j] = "run"
TableExists == recorded # {}

(* A job that finds every version applied ends.                            *)
ReadVersions(j) ==
    /\ IF recorded = 1 .. Versions
       THEN jpc' = [jpc EXCEPT ![j] = "idle"] /\ UNCHANGED seen
       ELSE /\ jpc' = [jpc EXCEPT ![j] = "run"]
            /\ seen' = [seen EXCEPT ![j] = recorded]
    /\ UNCHANGED <<schema, recorded, mine>>

(* create table if not exists, then select version.                        *)
Connect(j) ==
    /\ jpc[j] = "idle"
    /\ TableExists \/ \A k \in Job : ~Inside(k)
    /\ ReadVersions(j)

(* Another transaction has created the table and not committed: the        *)
(* statement waits, and fails if that one commits.                         *)
WaitForTable(j) ==
    /\ jpc[j] = "idle"
    /\ ~TableExists /\ \E k \in Job : Inside(k)
    /\ jpc' = [jpc EXCEPT ![j] = "blocked"]
    /\ UNCHANGED <<schema, recorded, seen, mine>>

GetTable(j) ==
    /\ jpc[j] = "blocked" /\ ~TableExists /\ \A k \in Job : ~Inside(k)
    /\ ReadVersions(j)

Left(j) == 1 .. Versions \ (seen[j] \cup ToSet(mine[j]))
NextVersion(j) == CHOOSE v \in Left(j) : \A u \in Left(j) : v <= u

(* Mutant: files that may run twice, and no primary key.                   *)
NeverConflicts(v) == FALSE

(* The objects of the file exist, and so does its row.                     *)
Conflicts(v) == v \in ToSet(schema)

Held(j, v) == \E k \in Job \ {j} : v \in ToSet(mine[k])

(* The SQL of a file, then its row in schema_migrations; no other          *)
(* transaction sees either before the commit.                              *)
ApplySql(j) ==
    /\ jpc[j] = "run" /\ Left(j) # {}
    /\ LET v == NextVersion(j) IN
        /\ ~Held(j, v) /\ ~Conflicts(v)
        /\ mine' = [mine EXCEPT ![j] = Append(@, v)]
    /\ UNCHANGED <<schema, recorded, jpc, seen>>

CommitSchema(j) ==
    /\ jpc[j] = "run" /\ Left(j) = {}
    /\ schema' = schema \o mine[j]
    /\ recorded' = recorded \cup ToSet(mine[j])
    /\ mine' = [mine EXCEPT ![j] = <<>>]
    /\ jpc' = [jpc EXCEPT ![j] = "idle"]
    /\ seen' = [seen EXCEPT ![j] = {}]

(* A statement fails, the job is killed: the transaction is rolled back.   *)
JobFails(j) ==
    /\ Inside(j) \/ jpc[j] = "blocked"
    /\ mine' = [mine EXCEPT ![j] = <<>>]
    /\ seen' = [seen EXCEPT ![j] = {}]
    /\ jpc' = [jpc EXCEPT ![j] = "idle"]
    /\ UNCHANGED <<schema, recorded>>

MigrationNext ==
    \E j \in Job :
        \/ Connect(j) \/ WaitForTable(j) \/ GetTable(j) \/ ApplySql(j)
        \/ CommitSchema(j) \/ JobFails(j)

MigrationSpec == MigrationInit /\ [][MigrationNext]_migrationVars

-----------------------------------------------------------------------------
(* Properties *)

MigrationTypeOK ==
    /\ schema \in Seq(1 .. Versions)
    /\ recorded \subseteq 1 .. Versions
    /\ jpc \in [Job -> {"idle", "blocked", "run"}]
    /\ seen \in [Job -> SUBSET (1 .. Versions)]
    /\ mine \in [Job -> Seq(1 .. Versions)]

(* Whatever jobs run at once, fail or are repeated, schema_migrations      *)
(* tells what is in effect, and every file took effect once, in order and  *)
(* after all before it.                                                    *)
SchemaAsRecorded ==
    /\ recorded = ToSet(schema)
    /\ \A i \in DOMAIN schema : schema[i] = i
=============================================================================
