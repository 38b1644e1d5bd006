--------------------------- MODULE BackfillProofs ---------------------------
(***************************************************************************)
(* Theorems about the cutover, for any worksheet, any number of runs of    *)
(* the backfill and of migration jobs, and any number of writes.           *)
(*                                                                         *)
(* schema_migrations tells what is in effect.  The strengthening says what *)
(* an open transaction may hold: a job has read some prefix of the         *)
(* versions, and only a job that has read all that are committed can have  *)
(* applied a file, the next one and those that follow it, while no other   *)
(* job has applied any (Consistent).                                       *)
(*                                                                         *)
(* "backfill complete" is not inductive: what carries it is that in a run  *)
(* that imports, every row it read is still to be imported or is there     *)
(* (Accounted), and that what is there stays there.                        *)
(*                                                                         *)
(* A refusal has a reason because what a run meets under the id or message *)
(* of a row comes from that row or from the bot (Traced).                  *)
(*                                                                         *)
(* A passed verification means a copy: what it compares, ids, rows by id   *)
(* and counts by currency, leaves no room for a row too many.              *)
(***************************************************************************)
EXTENDS Backfill, Sums, SequenceTheorems

-----------------------------------------------------------------------------
(* Migrations *)

USE MigrationAssumption

(* What the open transaction of a job holds.                               *)
Consistent(j) ==
    /\ jpc[j] = "run" => \E n \in 0 .. Len(schema) : seen[j] = 1 .. n
    /\ jpc[j] # "run" => mine[j] = <<>>
    /\ mine[j] # <<>> =>
        /\ seen[j] = 1 .. Len(schema)
        /\ \A i \in DOMAIN mine[j] : mine[j][i] = Len(schema) + i
        /\ \A k \in Job \ {j} : mine[k] = <<>>

MigrationInv ==
    /\ MigrationTypeOK
    /\ SchemaAsRecorded
    /\ \A j \in Job : Consistent(j)

LEMMA MigrationInitInv == MigrationInit => MigrationInv
<1> SUFFICES ASSUME MigrationInit PROVE MigrationInv
    OBVIOUS
<1>1. PICK k \in 0 .. Versions : schema = [v \in 1 .. k |-> v] /\ recorded = 1 .. k
    BY DEF MigrationInit
<1>2. Len(schema) = k /\ DOMAIN schema = 1 .. k /\ schema \in Seq(1 .. Versions)
    BY <1>1
<1>3. recorded = ToSet(schema)
    BY <1>1, <1>2 DEF ToSet
<1> QED
    BY <1>1, <1>2, <1>3
    DEF MigrationInit, MigrationInv, MigrationTypeOK, SchemaAsRecorded, Consistent

(* The next version of a job that may apply it is the one after all that   *)
(* are committed and all that it has applied itself.                       *)
LEMMA NextIsNext ==
    ASSUME MigrationInv, NEW j \in Job, jpc[j] = "run", Left(j) # {},
           ~Held(j, NextVersion(j)), ~Conflicts(NextVersion(j))
    PROVE  /\ NextVersion(j) = Len(schema) + Len(mine[j]) + 1
           /\ NextVersion(j) \in 1 .. Versions
           /\ seen[j] = 1 .. Len(schema)
           /\ \A k \in Job \ {j} : mine[k] = <<>>
<1>1. PICK n \in 0 .. Len(schema) : seen[j] = 1 .. n
    BY DEF MigrationInv, Consistent
<1>0. schema \in Seq(1 .. Versions) /\ mine[j] \in Seq(1 .. Versions)
    BY DEF MigrationInv, MigrationTypeOK
<1>t. /\ Len(schema) \in Nat /\ DOMAIN schema = 1 .. Len(schema)
      /\ Len(mine[j]) \in Nat /\ DOMAIN mine[j] = 1 .. Len(mine[j])
      /\ n \in Nat /\ Versions \in Nat
    BY <1>0, <1>1, LenProperties
<1>2. ToSet(schema) = 1 .. Len(schema)
    BY <1>t DEF MigrationInv, SchemaAsRecorded, ToSet
<1>3. ToSet(mine[j]) = n + 1 .. n + Len(mine[j])
    <2>1. CASE mine[j] = <<>>
        <3>1. Len(mine[j]) = 0 /\ ToSet(mine[j]) = {}
            BY <2>1, <1>t DEF ToSet
        <3>2. n + 1 .. n + 0 = {}
            BY <1>t
        <3> QED
            BY <3>1, <3>2
    <2>2. CASE mine[j] # <<>>
        <3>1. /\ seen[j] = 1 .. Len(schema)
              /\ \A i \in 1 .. Len(mine[j]) : mine[j][i] = Len(schema) + i
            BY <2>2, <1>t DEF MigrationInv, Consistent
        <3>2. n = Len(schema)
            <4>1. Len(schema) \in Nat
                BY <1>t
            <4>2. CASE Len(schema) = 0
                BY <4>2, <1>1
            <4>3. CASE Len(schema) # 0
                <5>1. Len(schema) \in 1 .. n
                    BY <4>1, <4>3, <3>1, <1>1
                <5> QED
                    BY <5>1, <4>1
            <4> QED
                BY <4>2, <4>3
        <3>3. ToSet(mine[j]) = {mine[j][i] : i \in 1 .. Len(mine[j])}
            BY <1>t DEF ToSet
        <3>4. ASSUME NEW x \in n + 1 .. n + Len(mine[j]) PROVE x \in ToSet(mine[j])
            <4>1. x - n \in 1 .. Len(mine[j]) /\ n + (x - n) = x
                BY <1>t
            <4>2. mine[j][x - n] = n + (x - n)
                BY <4>1, <3>1, <3>2
            <4> QED
                BY <4>1, <4>2, <3>3
        <3>5. ASSUME NEW x \in ToSet(mine[j]) PROVE x \in n + 1 .. n + Len(mine[j])
            <4>1. PICK i \in 1 .. Len(mine[j]) : x = mine[j][i]
                BY <3>3
            <4>2. x = n + i
                BY <4>1, <3>1, <3>2
            <4> QED
                BY <4>1, <4>2, <1>t
        <3> QED
            BY <3>4, <3>5
    <2> QED
        BY <2>1, <2>2
<1>4. Left(j) = n + Len(mine[j]) + 1 .. Versions
    BY <1>1, <1>3, <1>t DEF Left
<1>5. NextVersion(j) = n + Len(mine[j]) + 1 /\ n + Len(mine[j]) + 1 \in 1 .. Versions
    <2>1. n + Len(mine[j]) + 1 \in Left(j)
        BY <1>4, <1>t
    <2>2. \A v \in Left(j) : n + Len(mine[j]) + 1 <= v
        BY <1>4
    <2>3. NextVersion(j) \in Left(j) /\ \A u \in Left(j) : NextVersion(j) <= u
        BY <2>1, <2>2 DEF NextVersion
    <2> QED
        BY <2>1, <2>2, <2>3, <1>4, <1>t
<1>6. mine[j] # <<>> => n = Len(schema) /\ \A k \in Job \ {j} : mine[k] = <<>>
    <2> SUFFICES ASSUME mine[j] # <<>>
                 PROVE  n = Len(schema) /\ \A k \in Job \ {j} : mine[k] = <<>>
        OBVIOUS
    <2>1. 1 .. n = 1 .. Len(schema) /\ \A k \in Job \ {j} : mine[k] = <<>>
        BY <1>1 DEF MigrationInv, Consistent
    <2>2. n \in Nat /\ Len(schema) \in Nat
        BY <1>t
    <2>3. n = Len(schema)
        <3>1. n < Len(schema) => Len(schema) \in 1 .. n
            BY <2>1, <2>2
        <3> QED
            BY <3>1, <2>2
    <2> QED
        BY <2>1, <2>3
<1>7. mine[j] = <<>> => n = Len(schema)
    <2>1. mine[j] = <<>> => n + 1 \notin 1 .. Len(schema)
        BY <1>2, <1>5 DEF Conflicts
    <2>2. n \in Nat /\ Len(schema) \in Nat /\ n <= Len(schema)
        BY <1>t
    <2>3. n # Len(schema) => n + 1 \in 1 .. Len(schema)
        BY <2>2
    <2> QED
        BY <2>1, <2>3
<1>8. ASSUME mine[j] = <<>>, NEW k \in Job \ {j} PROVE mine[k] = <<>>
    <2> SUFFICES ASSUME mine[k] # <<>> PROVE FALSE
        OBVIOUS
    <2>1. mine[k] \in Seq(1 .. Versions) /\ 1 \in DOMAIN mine[k]
        BY DEF MigrationInv, MigrationTypeOK
    <2>2. mine[k][1] = Len(schema) + 1
        BY <2>1 DEF MigrationInv, Consistent
    <2>3. Len(schema) + 1 \in ToSet(mine[k])
        BY <2>1, <2>2 DEF ToSet
    <2> QED
        BY <2>3, <1>5, <1>7, <1>8 DEF Held
<1> QED
    BY <1>1, <1>5, <1>6, <1>7, <1>8

LEMMA ApplySqlInv ==
    ASSUME MigrationInv, NEW j \in Job, ApplySql(j) PROVE MigrationInv'
<1> DEFINE v == NextVersion(j)
<1>1. /\ v = Len(schema) + Len(mine[j]) + 1
      /\ v \in 1 .. Versions
      /\ seen[j] = 1 .. Len(schema)
      /\ \A k \in Job \ {j} : mine[k] = <<>>
    BY NextIsNext DEF ApplySql
<1>2. mine' = [mine EXCEPT ![j] = Append(@, v)] /\ UNCHANGED <<schema, recorded, jpc, seen>>
    BY DEF ApplySql
<1> HIDE DEF v
<1>3. mine \in [Job -> Seq(1 .. Versions)] /\ schema \in Seq(1 .. Versions)
    BY DEF MigrationInv, MigrationTypeOK
<1>4. mine'[j] = Append(mine[j], v) /\ \A k \in Job \ {j} : mine'[k] = mine[k]
    BY <1>2, <1>3
<1>5. mine' \in [Job -> Seq(1 .. Versions)]
    BY <1>1, <1>2, <1>3
<1>6. MigrationTypeOK' /\ SchemaAsRecorded'
    BY <1>2, <1>5 DEF MigrationInv, MigrationTypeOK, SchemaAsRecorded
<1>7. \A i \in DOMAIN mine'[j] : mine'[j][i] = Len(schema) + i
    <2>1. mine[j] \in Seq(1 .. Versions)
        BY <1>3
    <2>2. /\ Len(mine[j]) \in Nat /\ DOMAIN mine[j] = 1 .. Len(mine[j])
          /\ Len(schema) \in Nat
        BY <2>1, <1>3, LenProperties
    <2>3. /\ DOMAIN mine'[j] = 1 .. Len(mine[j]) + 1
          /\ \A i \in 1 .. Len(mine[j]) : mine'[j][i] = mine[j][i]
          /\ mine'[j][Len(mine[j]) + 1] = v
        BY <2>1, <1>1, <1>4, AppendProperties, LenProperties
    <2>4. \A i \in 1 .. Len(mine[j]) : mine[j][i] = Len(schema) + i
        <3>1. CASE mine[j] = <<>>
            BY <3>1, <2>2
        <3>2. CASE mine[j] # <<>>
            BY <3>2, <2>2 DEF MigrationInv, Consistent
        <3> QED
            BY <3>1, <3>2
    <2> QED
        <3> SUFFICES ASSUME NEW i \in DOMAIN mine'[j] PROVE mine'[j][i] = Len(schema) + i
            OBVIOUS
        <3>1. i \in 1 .. Len(mine[j]) \/ i = Len(mine[j]) + 1
            BY <2>2, <2>3
        <3>2. v = Len(schema) + (Len(mine[j]) + 1)
            BY <1>1, <2>2
        <3> QED
            BY <3>1, <3>2, <2>3, <2>4
<1>8. Consistent(j)'
    BY <1>1, <1>2, <1>4, <1>7 DEF MigrationInv, Consistent, ApplySql
<1>9. \A k \in Job \ {j} : Consistent(k)'
    BY <1>1, <1>2, <1>4 DEF MigrationInv, Consistent
<1> QED
    BY <1>6, <1>8, <1>9 DEF MigrationInv

LEMMA CommitSchemaInv ==
    ASSUME MigrationInv, NEW j \in Job, CommitSchema(j) PROVE MigrationInv'
<1>1. /\ schema' = schema \o mine[j]
      /\ recorded' = recorded \cup ToSet(mine[j])
      /\ mine' = [mine EXCEPT ![j] = <<>>]
      /\ jpc' = [jpc EXCEPT ![j] = "idle"]
      /\ seen' = [seen EXCEPT ![j] = {}]
    BY DEF CommitSchema
<1>2. /\ mine \in [Job -> Seq(1 .. Versions)] /\ schema \in Seq(1 .. Versions)
      /\ jpc \in [Job -> {"idle", "blocked", "run"}] /\ seen \in [Job -> SUBSET (1 .. Versions)]
      /\ recorded \subseteq 1 .. Versions
    BY DEF MigrationInv, MigrationTypeOK
<1>3. /\ mine[j] \in Seq(1 .. Versions)
      /\ mine[j] # <<>> => \A i \in DOMAIN mine[j] : mine[j][i] = Len(schema) + i
    BY <1>2 DEF MigrationInv, Consistent
<1>4. /\ schema' \in Seq(1 .. Versions) /\ Len(schema') = Len(schema) + Len(mine[j])
      /\ \A i \in 1 .. Len(schema) : schema'[i] = schema[i]
      /\ \A i \in Len(schema) + 1 .. Len(schema) + Len(mine[j]) :
             schema'[i] = mine[j][i - Len(schema)]
    BY <1>1, <1>2, <1>3
<1>t. /\ DOMAIN schema' = 1 .. Len(schema) + Len(mine[j])
      /\ DOMAIN schema = 1 .. Len(schema) /\ DOMAIN mine[j] = 1 .. Len(mine[j])
      /\ Len(schema) \in Nat /\ Len(mine[j]) \in Nat
    BY <1>2, <1>3, <1>4, LenProperties
<1>5. \A i \in DOMAIN schema' : schema'[i] = i
    <2> SUFFICES ASSUME NEW i \in DOMAIN schema' PROVE schema'[i] = i
        OBVIOUS
    <2>1. CASE i \in 1 .. Len(schema)
        BY <2>1, <1>t, <1>4 DEF MigrationInv, SchemaAsRecorded
    <2>2. CASE i \in Len(schema) + 1 .. Len(schema) + Len(mine[j])
        <3>1. i - Len(schema) \in 1 .. Len(mine[j]) /\ Len(schema) + (i - Len(schema)) = i
            BY <2>2, <1>t
        <3>2. mine[j] # <<>>
            BY <3>1, <1>t
        <3>3. mine[j][i - Len(schema)] = Len(schema) + (i - Len(schema))
            BY <3>1, <3>2, <1>3, <1>t
        <3> QED
            BY <3>1, <3>3, <2>2, <1>4
    <2> QED
        BY <2>1, <2>2, <1>t
<1>6. ToSet(schema') = ToSet(schema) \cup ToSet(mine[j])
    <2>2. \A x \in ToSet(schema') : x \in ToSet(schema) \cup ToSet(mine[j])
        <3> SUFFICES ASSUME NEW i \in DOMAIN schema'
                     PROVE  schema'[i] \in ToSet(schema) \cup ToSet(mine[j])
            BY DEF ToSet
        <3>1. CASE i \in 1 .. Len(schema)
            BY <3>1, <1>t, <1>4 DEF ToSet
        <3>2. CASE i \in Len(schema) + 1 .. Len(schema) + Len(mine[j])
            <4>1. i - Len(schema) \in DOMAIN mine[j]
                BY <3>2, <1>t
            <4> QED
                BY <4>1, <3>2, <1>4 DEF ToSet
        <3> QED
            BY <3>1, <3>2, <1>t
    <2>3. \A i \in DOMAIN schema : schema[i] \in ToSet(schema')
        BY <1>t, <1>4 DEF ToSet
    <2>4. ASSUME NEW i \in DOMAIN mine[j] PROVE mine[j][i] \in ToSet(schema')
        <3>1. Len(schema) + i \in DOMAIN schema' /\ schema'[Len(schema) + i] = mine[j][i]
            <4>1. i \in 1 .. Len(mine[j]) /\ (Len(schema) + i) - Len(schema) = i
                BY <1>t
            <4>2. Len(schema) + i \in Len(schema) + 1 .. Len(schema) + Len(mine[j])
                BY <4>1, <1>t
            <4>3. schema'[Len(schema) + i] = mine[j][(Len(schema) + i) - Len(schema)]
                BY <4>2, <1>4
            <4>4. Len(schema) + i \in 1 .. Len(schema) + Len(mine[j])
                BY <4>1, <1>t
            <4> QED
                BY <4>1, <4>3, <4>4, <1>t
        <3> QED
            BY <3>1 DEF ToSet
    <2> QED
        BY <2>2, <2>3, <2>4 DEF ToSet
<1>7. SchemaAsRecorded'
    BY <1>1, <1>5, <1>6 DEF MigrationInv, SchemaAsRecorded
<1>8. MigrationTypeOK'
    <2>1. recorded' \subseteq 1 .. Versions
        <3>1. ToSet(mine[j]) \subseteq 1 .. Versions
            BY <1>3, <1>t, ElementOfSeq DEF ToSet
        <3> QED
            BY <3>1, <1>1, <1>2
    <2>2. mine' \in [Job -> Seq(1 .. Versions)]
        BY <1>1, <1>2
    <2> QED
        BY <1>1, <1>2, <1>4, <2>1, <2>2 DEF MigrationTypeOK
<1>9. Consistent(j)'
    <2>1. mine'[j] = <<>> /\ jpc'[j] = "idle"
        BY <1>1, <1>2
    <2> QED
        BY <2>1 DEF Consistent
<1>10. ASSUME NEW k \in Job \ {j} PROVE Consistent(k)'
    <2>1. mine'[k] = mine[k] /\ jpc'[k] = jpc[k] /\ seen'[k] = seen[k]
        BY <1>1, <1>2
    <2>2. Len(schema) \in Nat /\ Len(mine[j]) \in Nat /\ Len(schema') = Len(schema) + Len(mine[j])
        BY <1>2, <1>3, <1>4
    <2>3. jpc[k] = "run" => \E n \in 0 .. Len(schema') : seen[k] = 1 .. n
        <3> SUFFICES ASSUME jpc[k] = "run" PROVE \E n \in 0 .. Len(schema') : seen[k] = 1 .. n
            OBVIOUS
        <3>1. PICK n \in 0 .. Len(schema) : seen[k] = 1 .. n
            BY DEF MigrationInv, Consistent
        <3>2. n \in 0 .. Len(schema')
            BY <2>2
        <3> QED
            BY <3>1, <3>2
    <2>4. mine[k] # <<>> => mine[j] = <<>>
        BY DEF MigrationInv, Consistent
    <2>5. mine[j] = <<>> => schema' = schema
        BY <1>1, <1>2
    <2>6. \A l \in Job : mine'[l] = <<>> \/ mine'[l] = mine[l]
        BY <1>1, <1>2
    <2> QED
        BY <2>1, <2>3, <2>4, <2>5, <2>6 DEF MigrationInv, Consistent
<1> QED
    BY <1>7, <1>8, <1>9, <1>10 DEF MigrationInv

LEMMA ReadVersionsInv ==
    ASSUME MigrationInv, NEW j \in Job, jpc[j] # "run", ReadVersions(j) PROVE MigrationInv'
<1>1. /\ jpc \in [Job -> {"idle", "blocked", "run"}] /\ seen \in [Job -> SUBSET (1 .. Versions)]
      /\ recorded \subseteq 1 .. Versions /\ schema \in Seq(1 .. Versions)
    BY DEF MigrationInv, MigrationTypeOK
<1>2. UNCHANGED <<schema, recorded, mine>>
    BY DEF ReadVersions
<1>3. /\ jpc' \in [Job -> {"idle", "blocked", "run"}] /\ seen' \in [Job -> SUBSET (1 .. Versions)]
      /\ \A k \in Job \ {j} : jpc'[k] = jpc[k] /\ seen'[k] = seen[k]
      /\ jpc'[j] = "run" => seen'[j] = recorded
    BY <1>1 DEF ReadVersions
<1>4. MigrationTypeOK' /\ SchemaAsRecorded'
    BY <1>2, <1>3 DEF MigrationInv, MigrationTypeOK, SchemaAsRecorded
<1>5. recorded = 1 .. Len(schema) /\ Len(schema) \in 0 .. Len(schema)
    BY <1>1 DEF MigrationInv, SchemaAsRecorded, ToSet
<1>6. Consistent(j)'
    BY <1>2, <1>3, <1>5 DEF MigrationInv, Consistent
<1>7. \A k \in Job \ {j} : Consistent(k)'
    BY <1>2, <1>3 DEF MigrationInv, Consistent
<1> QED
    BY <1>4, <1>6, <1>7 DEF MigrationInv

LEMMA JobFailsInv ==
    ASSUME MigrationInv, NEW j \in Job, JobFails(j) PROVE MigrationInv'
<1>1. /\ jpc' = [jpc EXCEPT ![j] = "idle"] /\ seen' = [seen EXCEPT ![j] = {}]
      /\ mine' = [mine EXCEPT ![j] = <<>>] /\ UNCHANGED <<schema, recorded>>
    BY DEF JobFails
<1>2. MigrationTypeOK' /\ SchemaAsRecorded'
    BY <1>1 DEF MigrationInv, MigrationTypeOK, SchemaAsRecorded
<1>3. /\ mine'[j] = <<>> /\ jpc'[j] = "idle"
      /\ \A k \in Job \ {j} : mine'[k] = mine[k] /\ jpc'[k] = jpc[k] /\ seen'[k] = seen[k]
    BY <1>1 DEF MigrationInv, MigrationTypeOK
<1>4. \A k \in Job : Consistent(k)'
    BY <1>1, <1>3 DEF MigrationInv, Consistent
<1> QED
    BY <1>2, <1>4 DEF MigrationInv

LEMMA WaitForTableInv ==
    ASSUME MigrationInv, NEW j \in Job, WaitForTable(j) PROVE MigrationInv'
<1>1. /\ jpc[j] = "idle" /\ jpc' = [jpc EXCEPT ![j] = "blocked"]
      /\ UNCHANGED <<schema, recorded, seen, mine>>
    BY DEF WaitForTable
<1>2. MigrationTypeOK' /\ SchemaAsRecorded'
    BY <1>1 DEF MigrationInv, MigrationTypeOK, SchemaAsRecorded
<1>3. jpc'[j] = "blocked" /\ \A k \in Job \ {j} : jpc'[k] = jpc[k]
    BY <1>1 DEF MigrationInv, MigrationTypeOK
<1>4. \A k \in Job : Consistent(k)'
    BY <1>1, <1>3 DEF MigrationInv, Consistent
<1> QED
    BY <1>2, <1>4 DEF MigrationInv

LEMMA MigrationStepInv ==
    MigrationInv /\ [MigrationNext]_migrationVars => MigrationInv'
<1> SUFFICES ASSUME MigrationInv, [MigrationNext]_migrationVars PROVE MigrationInv'
    OBVIOUS
<1>1. CASE UNCHANGED migrationVars
    BY <1>1 DEF migrationVars, MigrationInv, MigrationTypeOK, SchemaAsRecorded, Consistent
<1>2. CASE MigrationNext
    <2>1. PICK j \in Job :
            \/ Connect(j) \/ WaitForTable(j) \/ GetTable(j) \/ ApplySql(j)
            \/ CommitSchema(j) \/ JobFails(j)
        BY <1>2 DEF MigrationNext
    <2>2. CASE Connect(j)
        BY <2>2, ReadVersionsInv DEF Connect
    <2>3. CASE GetTable(j)
        BY <2>3, ReadVersionsInv DEF GetTable
    <2> QED
        BY <2>1, <2>2, <2>3, WaitForTableInv, ApplySqlInv, CommitSchemaInv, JobFailsInv
<1> QED
    BY <1>1, <1>2

(* schema_migrations and the schema agree, and every file took effect once *)
(* and in order, whatever jobs of scripts/migrate_postgres.py overlap and  *)
(* fail.                                                                   *)
THEOREM MigrationsAreRecorded == MigrationSpec => []SchemaAsRecorded
<1>1. MigrationInv => SchemaAsRecorded
    BY DEF MigrationInv
<1> QED
    BY MigrationInitInv, MigrationStepInv, <1>1, PTL DEF MigrationSpec

-----------------------------------------------------------------------------
(* The backfill *)

USE BackfillAssumption

(* The row e is among these rows, as it was or as the bot has made it.     *)
IsThere(e, rows, changed) ==
    \E p \in rows :
        /\ p.id = e.id /\ p.msg = e.msg
        /\ p \in {e, Stored(e)} \/ p.msg \in changed

Accounted ==
    \A r \in Runner : rpc[r] \in {"import", "complete"} =>
        \A i \in DOMAIN source[r] :
            (rpc[r] = "import" /\ i \in todo[r]) \/ IsThere(source[r][i], pg, dirty)

BackfillInv == BackfillTypeOK /\ OneRowPerMessage /\ Accounted

-----------------------------------------------------------------------------
(* Rows *)

LEMMA StoredRow ==
    ASSUME NEW e \in Row
    PROVE  Stored(e) \in Row /\ Stored(e).id = e.id /\ Stored(e).msg = e.msg
<1>1. Rounded(e.is) \in Content
    BY DEF Row
<1> HIDE DEF Rounded
<1> QED
    BY <1>1 DEF Row, Stored

LEMMA RecordedRow ==
    ASSUME BackfillTypeOK, NEW m \in Message, NEW c \in Said
    PROVE  /\ NewRow(m, c) \in Row
           /\ \A e \in Row : /\ Edited(e, c) \in Row
                             /\ Edited(e, c).id = e.id /\ Edited(e, c).msg = e.msg
<1>1. writes + 2 \in Nat /\ backend \in Backend /\ c \in Content
    BY DEF BackfillTypeOK
<1> QED
    BY <1>1 DEF NewRow, Edited, Row, Id

(* A nonempty set of indices has a least one.                              *)
LEMMA MinIsIn ==
    ASSUME NEW S, S \subseteq Nat, S # {} PROVE Min(S) \in S /\ \A y \in S : Min(S) <= y
<1> DEFINE R == OpToRel(<, Nat)
<1>1. \A x, y \in Nat : x < y => <<x, y>> \in R
    BY DEF OpToRel
<1>0. IsWellFoundedOn(R, Nat)
    BY NatLessThanWellFounded
<1> HIDE DEF R
<1>2. \E x \in S : \A y \in S : ~ (<<y, x>> \in R)
    BY <1>0, WFMin
<1>3. PICK x \in S : \A y \in S : x <= y
    <2>1. PICK x \in S : \A y \in S : ~ (<<y, x>> \in R)
        BY <1>2
    <2>2. \A y \in S : ~(y < x)
        BY <2>1, <1>1
    <2> QED
        BY <2>2
<1> QED
    BY <1>3 DEF Min

(* append_transaction keeps one row per message and per id, and an event   *)
(* for each; it removes nothing.                                           *)
LEMMA InsertKeeps ==
    ASSUME BackfillTypeOK, OneRowPerMessage, NEW e \in Row, Insert(e)
    PROVE  /\ pg' \subseteq Row /\ created' \in [Id -> Nat]
           /\ OneRowPerMessage'
           /\ pg \subseteq pg'
           /\ Insertable(e) => Stored(e) \in pg'
<1>1. pg \subseteq Row /\ created \in [Id -> Nat]
    BY DEF BackfillTypeOK
<1>2. Stored(e) \in Row /\ Stored(e).id = e.id /\ Stored(e).msg = e.msg
    BY StoredRow
<1> HIDE DEF Stored
<1>3. CASE ~Insertable(e)
    BY <1>3, <1>1 DEF Insert, OneRowPerMessage
<1>4. CASE Insertable(e)
    <2>1. /\ pg' = pg \cup {Stored(e)}
          /\ created' = [created EXCEPT ![e.id] = @ + 1]
        BY <1>4 DEF Insert
    <2>2. e.id \in Id
        BY DEF Row
    <2>3. \A p \in pg : p.msg # e.msg /\ p.id # e.id
        BY <1>4 DEF Insertable, OfMessage
    <2>4. \A p, q \in pg' : p.msg = q.msg \/ p.id = q.id => p = q
        BY <2>1, <2>3, <1>2 DEF OneRowPerMessage
    <2>5. ASSUME NEW i \in Id PROVE created'[i] = Cardinality({p \in pg' : p.id = i})
        <3>1. CASE i = e.id
            <4>1. {p \in pg : p.id = i} = {} /\ {p \in pg' : p.id = i} = {Stored(e)}
                BY <3>1, <2>1, <2>3, <1>2
            <4>2. created[i] = 0
                BY <4>1, FS_EmptySet DEF OneRowPerMessage
            <4>3. created'[i] = 1
                BY <4>2, <3>1, <2>1, <2>2, <1>1
            <4> QED
                BY <4>1, <4>3, FS_Singleton
        <3>2. CASE i # e.id
            <4>1. {p \in pg' : p.id = i} = {p \in pg : p.id = i}
                BY <3>2, <2>1, <1>2
            <4>2. created'[i] = created[i]
                BY <3>2, <2>1, <1>1
            <4> QED
                BY <4>1, <4>2 DEF OneRowPerMessage
        <3> QED
            BY <3>1, <3>2
    <2>6. created' \in [Id -> Nat]
        BY <2>1, <2>2, <1>1
    <2> QED
        BY <2>1, <2>4, <2>5, <2>6, <1>1, <1>2 DEF OneRowPerMessage
<1> QED
    BY <1>3, <1>4

(* An update of the row p puts another in its place.                       *)
LEMMA ReplaceKeeps ==
    ASSUME BackfillTypeOK, OneRowPerMessage, NEW p \in pg, NEW n \in Row,
           n.id = p.id, n.msg = p.msg, pg' = (pg \ {p}) \cup {n}, UNCHANGED created
    PROVE  pg' \subseteq Row /\ OneRowPerMessage'
<1>1. pg \subseteq Row /\ created \in [Id -> Nat]
    BY DEF BackfillTypeOK
<1>2. \A x, y \in pg' : x.msg = y.msg \/ x.id = y.id => x = y
    BY DEF OneRowPerMessage
<1>3. ASSUME NEW i \in Id PROVE created'[i] = Cardinality({x \in pg' : x.id = i})
    <2>1. CASE i = p.id
        <3>1. {x \in pg : x.id = i} = {p} /\ {x \in pg' : x.id = i} = {n}
            BY <2>1 DEF OneRowPerMessage
        <3> QED
            BY <3>1, FS_Singleton DEF OneRowPerMessage
    <2>2. CASE i # p.id
        <3>1. {x \in pg' : x.id = i} = {x \in pg : x.id = i}
            BY <2>2
        <3> QED
            BY <3>1 DEF OneRowPerMessage
    <2> QED
        BY <2>1, <2>2
<1> QED
    BY <1>1, <1>2, <1>3 DEF OneRowPerMessage

-----------------------------------------------------------------------------
(* The database schema *)

LEMMA NextMigrates == [Next]_vars => [MigrationNext]_migrationVars
<1> SUFFICES ASSUME [Next]_vars PROVE [MigrationNext]_migrationVars
    OBVIOUS
<1>1. CASE UNCHANGED vars
    BY <1>1 DEF vars
<1>2. CASE \E m \in Message, c \in Said : BotAppend(m, c) \/ BotUpdate(UserOf[m], c)
    BY <1>2 DEF BotAppend, BotUpdate
<1>3. CASE (\E b \in Backend : Switch(b)) \/ Repair \/ LoadSource \/ Compare
    BY <1>3 DEF Switch, Repair, LoadSource, Compare
<1>4. CASE \E r \in Runner, mode \in {"dry", "execute"} : LoadSheet(r, mode)
    BY <1>4 DEF LoadSheet
<1>5. CASE \E r \in Runner : Plan(r) \/ Import(r) \/ RunDies(r)
    BY <1>5 DEF Plan, Import, RunDies
<1> QED
    BY <1>1, <1>2, <1>3, <1>4, <1>5 DEF Next

(* While the cutover goes on, too, schema_migrations tells what is in      *)
(* effect and every file took effect once, in order.                       *)
THEOREM CutoverSchema == Spec => []SchemaAsRecorded
<1>1. Init => MigrationInv
    BY MigrationInitInv DEF Init
<1>2. MigrationInv /\ [Next]_vars => MigrationInv'
    BY MigrationStepInv, NextMigrates
<1>3. MigrationInv => SchemaAsRecorded
    BY DEF MigrationInv
<1> QED
    BY <1>1, <1>2, <1>3, PTL DEF Spec

(* A step that leaves the number of the bot's writes alone takes nothing   *)
(* from PostgreSQL and changes nothing there, whatever the run that takes  *)
(* it had read.                                                            *)
LEMMA OnlyTheBotChanges ==
    ASSUME BackfillTypeOK, Next, writes' = writes PROVE pg \subseteq pg'
<1>0. writes # writes + 1
    BY DEF BackfillTypeOK
<1>1. CASE \E m \in Message, c \in Said : BotAppend(m, c) \/ BotUpdate(UserOf[m], c)
    BY <1>0, <1>1 DEF BotAppend, BotUpdate
<1>2. CASE (\E b \in Backend : Switch(b)) \/ Repair \/ LoadSource \/ Compare
    BY <1>2 DEF Switch, Repair, LoadSource, Compare, ledgerVars
<1>3. CASE \E r \in Runner, mode \in {"dry", "execute"} : LoadSheet(r, mode)
    BY <1>3 DEF LoadSheet, ledgerVars
<1>4. CASE \E r \in Runner : Plan(r) \/ RunDies(r)
    BY <1>4 DEF Plan, RunDies, ledgerVars
<1>5. CASE \E r \in Runner : Import(r)
    BY <1>5 DEF Import, Insert
<1>6. CASE MigrationNext /\ UNCHANGED <<backend, ledgerVars, runVars, verifyVars, calm, writes>>
    BY <1>6 DEF ledgerVars
<1> QED
    BY <1>1, <1>2, <1>3, <1>4, <1>5, <1>6 DEF Next

-----------------------------------------------------------------------------
(* Type correctness *)

LEMMA SeqOfRows ==
    ASSUME NEW s \in Seq(Row)
    PROVE  /\ DOMAIN s = 1 .. Len(s) /\ Len(s) \in Nat
           /\ \A i \in DOMAIN s : s[i] \in Row /\ RemoveAt(s, i) \in Seq(Row)
           /\ \A i \in DOMAIN s, e \in Row : [s EXCEPT ![i] = e] \in Seq(Row)
<1>1. DOMAIN s = 1 .. Len(s) /\ Len(s) \in Nat /\ \A i \in 1 .. Len(s) : s[i] \in Row
    BY LenProperties, ElementOfSeq
<1>2. ASSUME NEW i \in 1 .. Len(s) PROVE RemoveAt(s, i) \in Seq(Row)
    <2>1. /\ i - 1 \in Int /\ i + 1 \in Int /\ 1 \in Int /\ Len(s) \in Int
          /\ 1 .. i - 1 \subseteq 1 .. Len(s) /\ i + 1 .. Len(s) \subseteq 1 .. Len(s)
        BY <1>1
    <2>2. SubSeq(s, 1, i - 1) \in Seq(Row) /\ SubSeq(s, i + 1, Len(s)) \in Seq(Row)
        BY <1>1, <2>1, SubSeqProperties
    <2> QED
        BY <2>2, ConcatProperties DEF RemoveAt
<1> QED
    BY <1>1, <1>2, ExceptSeq

(* The row that update_transaction changes in the worksheet is one of it.  *)
LEMMA LatestIsARow ==
    ASSUME NEW s \in Seq(Row), NEW u, LatestOf(s, u) # {}
    PROVE  Min({k \in DOMAIN s : s[k].id = s[Min(LatestOf(s, u))].id}) \in DOMAIN s
<1>1. DOMAIN s = 1 .. Len(s) /\ Len(s) \in Nat
    BY SeqOfRows
<1>2. LatestOf(s, u) \subseteq DOMAIN s
    BY DEF LatestOf
<1>3. Min(LatestOf(s, u)) \in DOMAIN s
    BY <1>1, <1>2, MinIsIn
<1> DEFINE S == {k \in DOMAIN s : s[k].id = s[Min(LatestOf(s, u))].id}
<1>4. S # {} /\ S \subseteq Nat
    BY <1>1, <1>3
<1> HIDE DEF S
<1>5. Min(S) \in S
    BY <1>4, MinIsIn
<1> QED
    BY <1>5 DEF S

LEMMA TypeStep == BackfillInv /\ MigrationTypeOK' /\ [Next]_vars => BackfillTypeOK'
<1> SUFFICES ASSUME BackfillInv, MigrationTypeOK', [Next]_vars PROVE BackfillTypeOK'
    OBVIOUS
<1>t. BackfillTypeOK /\ OneRowPerMessage
    BY DEF BackfillInv
<1> USE DEF BackfillTypeOK
<1>1. CASE UNCHANGED vars
    BY <1>1, <1>t DEF vars, ledgerVars, runVars, verifyVars
<1>2. CASE MigrationNext /\ UNCHANGED <<backend, ledgerVars, runVars, verifyVars, calm, writes>>
    BY <1>2, <1>t DEF ledgerVars, runVars, verifyVars
<1>3. ASSUME NEW m \in Message, NEW c \in Said, BotAppend(m, c) PROVE BackfillTypeOK'
    <2>1. NewRow(m, c) \in Row
        BY <1>t, RecordedRow
    <2>2. /\ writes' \in 0 .. MaxWrites /\ calm' \in BOOLEAN
          /\ UNCHANGED <<backend, rpc, source, todo, vpc, read>>
        BY <1>t, <1>3 DEF BotAppend, Writing, runVars, verifyVars
    <2>3. sheet' \in Seq(Row)
        <3>1. sheet' = sheet \/ sheet' = Append(sheet, NewRow(m, c))
            BY <1>3 DEF BotAppend
        <3>2. Append(sheet, NewRow(m, c)) \in Seq(Row)
            BY <2>1, <1>t, AppendProperties
        <3> QED
            BY <3>1, <3>2, <1>t
    <2>4. pg' \subseteq Row /\ created' \in [Id -> Nat] /\ dirty' \subseteq Message \cup {NoMessage}
        BY <2>1, <1>t, <1>3, InsertKeeps DEF BotAppend
    <2> QED
        BY <2>2, <2>3, <2>4, <1>t
<1>4. ASSUME NEW m \in Message, NEW c \in Said, BotUpdate(UserOf[m], c) PROVE BackfillTypeOK'
    <2> DEFINE u == UserOf[m]
    <2>1. \A e \in Row : Edited(e, c) \in Row
        BY <1>t, RecordedRow
    <2>2. /\ writes' \in 0 .. MaxWrites /\ calm' \in BOOLEAN
          /\ UNCHANGED <<backend, created, rpc, source, todo, vpc, read>>
        BY <1>t, <1>4 DEF BotUpdate, Writing, runVars, verifyVars
    <2>3. sheet' \in Seq(Row) /\ pg' \subseteq Row /\ dirty' \subseteq Message \cup {NoMessage}
        <3>1. CASE backend = "google_sheets"
            <4> DEFINE last == sheet[Min(LatestOf(sheet, u))]
                       i == Min({k \in DOMAIN sheet : sheet[k].id = last.id})
            <4>1. /\ LatestOf(sheet, u) # {} /\ pg' = pg
                  /\ sheet' = [sheet EXCEPT ![i] = Edited(@, c)]
                  /\ dirty' = dirty \cup {sheet[i].msg}
                BY <1>4, <3>1 DEF BotUpdate
            <4>2. i \in DOMAIN sheet
                BY <4>1, <1>t, LatestIsARow
            <4> HIDE DEF i
            <4>3. sheet[i] \in Row /\ sheet' \in Seq(Row)
                BY <4>1, <4>2, <2>1, <1>t, SeqOfRows
            <4>4. sheet[i].msg \in Message \cup {NoMessage}
                BY <4>3 DEF Row
            <4> QED
                BY <4>1, <4>3, <4>4, <1>t
        <3>2. CASE backend = "postgres"
            <4>1. PICK p \in pg : /\ pg' = (pg \ {p}) \cup {Stored(Edited(p, c))}
                                  /\ dirty' = dirty \cup {p.msg} /\ sheet' = sheet
                BY <1>4, <3>2 DEF BotUpdate
            <4>2. p \in Row /\ Stored(Edited(p, c)) \in Row
                BY <2>1, <1>t, StoredRow
            <4>3. p.msg \in Message \cup {NoMessage}
                BY <4>2 DEF Row
            <4> QED
                BY <4>1, <4>2, <4>3, <1>t
        <3> QED
            BY <3>1, <3>2, <1>t DEF Backend
    <2> QED
        BY <2>2, <2>3, <1>t
<1>5. CASE \E b \in Backend : Switch(b)
    BY <1>5, <1>t DEF Switch, ledgerVars, runVars, verifyVars
<1>6. CASE Repair
    <2>1. sheet' \in Seq(Row)
        BY <1>6, <1>t, SeqOfRows DEF Repair
    <2> QED
        BY <2>1, <1>6, <1>t DEF Repair, Writing, runVars, verifyVars
<1>7. ASSUME NEW r \in Runner, NEW mode \in {"dry", "execute"}, LoadSheet(r, mode)
      PROVE  BackfillTypeOK'
    <2>1. /\ source' = [source EXCEPT ![r] = sheet] /\ rpc' = [rpc EXCEPT ![r] = mode]
          /\ UNCHANGED <<backend, ledgerVars, todo, verifyVars, calm, writes>>
          /\ rpc[r] # "import"
        BY <1>7 DEF LoadSheet, Goto
    <2>2. todo[r] = {}
        BY <2>1, <1>t
    <2> QED
        BY <2>1, <2>2, <1>t DEF ledgerVars, verifyVars
<1>8. ASSUME NEW r \in Runner, Plan(r) PROVE BackfillTypeOK'
    <2>1. UNCHANGED <<backend, ledgerVars, source, verifyVars, calm, writes>>
        BY <1>8 DEF Plan
    <2>2. Missing(source[r]) \subseteq DOMAIN source[r] /\ DOMAIN source[r] \subseteq Nat
        BY <1>t, SeqOfRows DEF Missing
    <2>3. \E next \in {"refused", "idle", "complete", "import"}, t \in SUBSET DOMAIN source[r] :
              /\ todo' = [todo EXCEPT ![r] = t] /\ rpc' = [rpc EXCEPT ![r] = next]
              /\ next = "import" <=> t # {}
        <3>1. CASE todo' = [todo EXCEPT ![r] = {}] /\ rpc' = [rpc EXCEPT ![r] = "refused"]
            BY <3>1
        <3>2. CASE todo' = [todo EXCEPT ![r] = {}] /\ rpc' = [rpc EXCEPT ![r] = "idle"]
            BY <3>2
        <3>3. CASE /\ todo' = [todo EXCEPT ![r] = Missing(source[r])]
                   /\ rpc' = [rpc EXCEPT ![r] = IF Missing(source[r]) = {}
                                                THEN "complete" ELSE "import"]
            BY <3>3, <2>2
        <3> QED
            BY <3>1, <3>2, <3>3, <1>8 DEF Plan, Goto
    <2> QED
        BY <2>1, <2>2, <2>3, <1>t DEF ledgerVars, verifyVars
<1>9. ASSUME NEW r \in Runner, Import(r) PROVE BackfillTypeOK'
    <2>1. PICK i \in todo[r] :
            /\ Insert(source[r][i])
            /\ todo' = [todo EXCEPT ![r] = IF GoesOn(source[r][i]) THEN @ \ {i} ELSE {}]
            /\ rpc' = [rpc EXCEPT ![r] = IF ~GoesOn(source[r][i]) THEN "refused"
                                         ELSE IF todo[r] = {i} THEN "complete" ELSE "import"]
        BY <1>9 DEF Import, Goto
    <2>2. /\ UNCHANGED <<backend, sheet, dirty, source, verifyVars, writes>>
          /\ calm' \in BOOLEAN
        BY <1>9, <1>t DEF Import, Writing
    <2>3. source[r][i] \in Row
        BY <1>t, SeqOfRows
    <2>4. pg' \subseteq Row /\ created' \in [Id -> Nat]
        BY <2>1, <2>3, <1>t, InsertKeeps
    <2>5. \E next \in {"refused", "complete", "import"}, t \in SUBSET todo[r] :
              /\ todo' = [todo EXCEPT ![r] = t] /\ rpc' = [rpc EXCEPT ![r] = next]
              /\ next = "import" <=> t # {}
        <3>1. CASE ~GoesOn(source[r][i])
            BY <3>1, <2>1
        <3>2. CASE GoesOn(source[r][i]) /\ todo[r] = {i}
            BY <3>2, <2>1
        <3>3. CASE GoesOn(source[r][i]) /\ todo[r] # {i}
            <4> DEFINE t == todo[r] \ {i}
            <4>1. todo' = [todo EXCEPT ![r] = t] /\ rpc' = [rpc EXCEPT ![r] = "import"]
                BY <3>3, <2>1
            <4>2. t \in SUBSET todo[r] /\ t # {}
                BY <3>3
            <4> QED
                BY <4>1, <4>2
        <3> QED
            BY <3>1, <3>2, <3>3
    <2>6. PICK next \in {"refused", "complete", "import"}, t \in SUBSET todo[r] :
              /\ todo' = [todo EXCEPT ![r] = t] /\ rpc' = [rpc EXCEPT ![r] = next]
              /\ next = "import" <=> t # {}
        BY <2>5
    <2>7. /\ todo' \in [Runner -> SUBSET Nat]
          /\ \A k \in Runner : todo'[k] \subseteq DOMAIN source[k]
        BY <2>6, <1>t
    <2>8. /\ rpc' \in [Runner -> {"idle", "dry", "execute", "import", "complete", "refused"}]
          /\ \A k \in Runner : rpc'[k] = "import" <=> todo'[k] # {}
        BY <2>6, <1>t
    <2> QED
        BY <2>2, <2>4, <2>7, <2>8, <1>t DEF verifyVars
<1>10. ASSUME NEW r \in Runner, RunDies(r) PROVE BackfillTypeOK'
    BY <1>10, <1>t DEF RunDies, Goto, ledgerVars, verifyVars
<1>11. CASE LoadSource \/ Compare
    <2>1. /\ vpc' \in {"idle", "half", "passed", "failed"}
          /\ read' \in Seq(Row) /\ calm' \in BOOLEAN
        <3>1. CASE LoadSource
            BY <3>1, <1>t DEF LoadSource
        <3>2. CASE Compare
            <4>1. vpc' \in {"passed", "failed"} /\ read' = <<>> /\ calm' = TRUE
                BY <3>2 DEF Compare
            <4> QED
                BY <4>1
        <3> QED
            BY <3>1, <3>2, <1>11
    <2>2. UNCHANGED <<backend, ledgerVars, runVars, writes>>
        BY <1>11 DEF LoadSource, Compare
    <2> QED
        BY <2>1, <2>2, <1>t DEF ledgerVars, runVars
<1> QED
    BY <1>1, <1>2, <1>3, <1>4, <1>5, <1>6, <1>7, <1>8, <1>9, <1>10, <1>11 DEF Next

-----------------------------------------------------------------------------
(* One row per message and per id *)

LEMMA OneRowStep == BackfillInv /\ [Next]_vars => OneRowPerMessage'
<1> SUFFICES ASSUME BackfillInv, [Next]_vars PROVE OneRowPerMessage'
    OBVIOUS
<1>t. BackfillTypeOK /\ OneRowPerMessage
    BY DEF BackfillInv
<1>0. UNCHANGED <<pg, created>> => OneRowPerMessage'
    BY <1>t DEF OneRowPerMessage
<1>1. CASE UNCHANGED vars
    BY <1>0, <1>1 DEF vars, ledgerVars
<1>2. CASE MigrationNext /\ UNCHANGED <<backend, ledgerVars, runVars, verifyVars, calm, writes>>
    BY <1>0, <1>2 DEF ledgerVars
<1>3. ASSUME NEW m \in Message, NEW c \in Said, BotAppend(m, c) PROVE OneRowPerMessage'
    <2>1. NewRow(m, c) \in Row
        BY <1>t, RecordedRow
    <2>2. UNCHANGED <<pg, created>> \/ Insert(NewRow(m, c))
        BY <1>3 DEF BotAppend
    <2> QED
        BY <2>1, <2>2, <1>0, <1>t, InsertKeeps
<1>4. ASSUME NEW m \in Message, NEW c \in Said, BotUpdate(UserOf[m], c) PROVE OneRowPerMessage'
    <2>1. CASE pg' = pg
        BY <2>1, <1>0, <1>4 DEF BotUpdate
    <2>2. CASE \E p \in pg : pg' = (pg \ {p}) \cup {Stored(Edited(p, c))}
        <3>1. PICK p \in pg : pg' = (pg \ {p}) \cup {Stored(Edited(p, c))}
            BY <2>2
        <3>2. /\ Edited(p, c) \in Row
              /\ Edited(p, c).id = p.id /\ Edited(p, c).msg = p.msg
            BY <1>t, RecordedRow DEF BackfillTypeOK
        <3>3. /\ Stored(Edited(p, c)) \in Row
              /\ Stored(Edited(p, c)).id = p.id /\ Stored(Edited(p, c)).msg = p.msg
            BY <3>2, StoredRow
        <3>4. UNCHANGED created
            BY <1>4 DEF BotUpdate
        <3> QED
            BY <3>1, <3>3, <3>4, <1>t, ReplaceKeeps
    <2> QED
        BY <2>1, <2>2, <1>4 DEF BotUpdate
<1>5. CASE (\E b \in Backend : Switch(b)) \/ Repair \/ LoadSource \/ Compare
    BY <1>5, <1>0 DEF Switch, Repair, LoadSource, Compare, ledgerVars
<1>6. CASE \E r \in Runner, mode \in {"dry", "execute"} : LoadSheet(r, mode)
    BY <1>6, <1>0 DEF LoadSheet, ledgerVars
<1>7. CASE \E r \in Runner : Plan(r) \/ RunDies(r)
    BY <1>7, <1>0 DEF Plan, RunDies, ledgerVars
<1>8. ASSUME NEW r \in Runner, Import(r) PROVE OneRowPerMessage'
    <2>1. PICK i \in todo[r] : Insert(source[r][i])
        BY <1>8 DEF Import
    <2>2. source[r][i] \in Row
        BY <1>t, SeqOfRows DEF BackfillTypeOK
    <2> QED
        BY <2>1, <2>2, <1>t, InsertKeeps
<1> QED
    BY <1>1, <1>2, <1>3, <1>4, <1>5, <1>6, <1>7, <1>8 DEF Next

-----------------------------------------------------------------------------
(* What a run has accounted for *)

(* A row that is there stays there: rows go only where the bot changes     *)
(* them.                                                                   *)
LEMMA StaysThere ==
    ASSUME BackfillInv, [Next]_vars, NEW e \in Row, IsThere(e, pg, dirty)
    PROVE  IsThere(e, pg', dirty')
<1>t. BackfillTypeOK /\ OneRowPerMessage
    BY DEF BackfillInv
<1>0. pg \subseteq pg' /\ dirty \subseteq dirty' => IsThere(e, pg', dirty')
    BY DEF IsThere
<1>1. CASE UNCHANGED vars
    BY <1>0, <1>1 DEF vars, ledgerVars
<1>2. CASE MigrationNext /\ UNCHANGED <<backend, ledgerVars, runVars, verifyVars, calm, writes>>
    BY <1>0, <1>2 DEF ledgerVars
<1>3. ASSUME NEW m \in Message, NEW c \in Said, BotAppend(m, c)
      PROVE  IsThere(e, pg', dirty')
    BY <1>3, <1>0 DEF BotAppend, Insert
<1>4. ASSUME NEW m \in Message, NEW c \in Said, BotUpdate(UserOf[m], c)
      PROVE  IsThere(e, pg', dirty')
    <2>1. CASE pg' = pg
        BY <2>1, <1>0, <1>4 DEF BotUpdate
    <2>2. CASE \E p \in pg : /\ pg' = (pg \ {p}) \cup {Stored(Edited(p, c))}
                             /\ dirty' = dirty \cup {p.msg}
        <3>1. PICK p \in pg : /\ pg' = (pg \ {p}) \cup {Stored(Edited(p, c))}
                              /\ dirty' = dirty \cup {p.msg}
            BY <2>2
        <3>2. PICK q \in pg : /\ q.id = e.id /\ q.msg = e.msg
                              /\ q \in {e, Stored(e)} \/ q.msg \in dirty
            BY DEF IsThere
        <3>3. CASE q # p
            BY <3>1, <3>2, <3>3 DEF IsThere
        <3>4. CASE q = p
            <4>1. Edited(p, c) \in Row /\ Edited(p, c).id = p.id /\ Edited(p, c).msg = p.msg
                BY <1>t, RecordedRow DEF BackfillTypeOK
            <4>2. Stored(Edited(p, c)).id = p.id /\ Stored(Edited(p, c)).msg = p.msg
                BY <4>1, StoredRow
            <4> QED
                BY <3>1, <3>2, <3>4, <4>2 DEF IsThere
        <3> QED
            BY <3>3, <3>4
    <2> QED
        BY <2>1, <2>2, <1>4 DEF BotUpdate
<1>5. CASE (\E b \in Backend : Switch(b)) \/ Repair \/ LoadSource \/ Compare
    BY <1>5, <1>0 DEF Switch, Repair, LoadSource, Compare, ledgerVars
<1>6. CASE \E r \in Runner, mode \in {"dry", "execute"} : LoadSheet(r, mode)
    BY <1>6, <1>0 DEF LoadSheet, ledgerVars
<1>7. CASE \E r \in Runner : Plan(r) \/ RunDies(r)
    BY <1>7, <1>0 DEF Plan, RunDies, ledgerVars
<1>8. CASE \E r \in Runner : Import(r)
    BY <1>8, <1>0 DEF Import, Insert
<1> QED
    BY <1>1, <1>2, <1>3, <1>4, <1>5, <1>6, <1>7, <1>8 DEF Next

(* A run that stays as it is has accounted for what it had.                *)
LEMMA BystanderAccounts ==
    ASSUME BackfillInv, [Next]_vars, NEW k \in Runner,
           rpc'[k] = rpc[k], source'[k] = source[k], todo'[k] = todo[k],
           rpc[k] \in {"import", "complete"}, NEW i \in DOMAIN source[k]
    PROVE  (rpc'[k] = "import" /\ i \in todo'[k]) \/ IsThere(source'[k][i], pg', dirty')
<1>1. source[k][i] \in Row
    BY SeqOfRows DEF BackfillInv, BackfillTypeOK
<1>2. (rpc[k] = "import" /\ i \in todo[k]) \/ IsThere(source[k][i], pg, dirty)
    BY DEF BackfillInv, Accounted
<1>3. IsThere(source[k][i], pg, dirty) => IsThere(source[k][i], pg', dirty')
    BY <1>1, StaysThere
<1> QED
    BY <1>2, <1>3

(* The plan: a row that is not missing is there, or the run refuses.       *)
LEMMA PlanAccounts ==
    ASSUME NEW r \in Runner, NEW i \in DOMAIN source[r],
           ~Blocking(source[r][i]), i \notin Missing(source[r])
    PROVE  IsThere(source[r][i], pg, dirty)
<1>1. PICK p \in Counterpart(source[r][i]) : p = source[r][i]
    BY DEF Missing, Blocking, Equivalent
<1>2. p \in pg
    BY <1>1 DEF Counterpart, OfMessage, ById
<1> QED
    BY <1>1, <1>2 DEF IsThere

(* The import: when the run goes on, the row is there.                     *)
LEMMA ImportAccounts ==
    ASSUME BackfillTypeOK, OneRowPerMessage, NEW e \in Row, Insert(e), GoesOn(e)
    PROVE  IsThere(e, pg', dirty')
<1>1. CASE OfMessage(e.msg) = {}
    <2>1. Stored(e) \in pg'
        BY <1>1, InsertKeeps DEF GoesOn
    <2>2. Stored(e).id = e.id /\ Stored(e).msg = e.msg
        BY StoredRow
    <2> QED
        BY <2>1, <2>2 DEF IsThere
<1>2. CASE OfMessage(e.msg) # {}
    <2>1. PICK p \in OfMessage(e.msg) : p = e
        BY <1>2 DEF GoesOn, Equivalent
    <2>2. p \in pg'
        BY InsertKeeps DEF OfMessage
    <2> QED
        BY <2>1, <2>2 DEF IsThere
<1> QED
    BY <1>1, <1>2

LEMMA AccountedStep == BackfillInv /\ [Next]_vars => Accounted'
<1> SUFFICES ASSUME BackfillInv, [Next]_vars, NEW k \in Runner,
                    rpc'[k] \in {"import", "complete"}, NEW i \in DOMAIN source'[k]
             PROVE  \/ rpc'[k] = "import" /\ i \in todo'[k]
                    \/ IsThere(source'[k][i], pg', dirty')
    BY DEF Accounted
<1>t. BackfillTypeOK /\ OneRowPerMessage
    BY DEF BackfillInv
<1>d. rpc \in [Runner -> {"idle", "dry", "execute", "import", "complete", "refused"}]
    BY <1>t DEF BackfillTypeOK
<1>s. source \in [Runner -> Seq(Row)] /\ todo \in [Runner -> SUBSET Nat]
    BY <1>t DEF BackfillTypeOK
<1> DEFINE Goal == \/ rpc'[k] = "import" /\ i \in todo'[k]
                   \/ IsThere(source'[k][i], pg', dirty')
<1>0. rpc'[k] = rpc[k] /\ source'[k] = source[k] /\ todo'[k] = todo[k] => Goal
    BY BystanderAccounts
<1> SUFFICES Goal
    OBVIOUS
<1> HIDE DEF Goal
<1>1. CASE UNCHANGED vars
    BY <1>0, <1>1 DEF vars, runVars
<1>2. CASE MigrationNext /\ UNCHANGED <<backend, ledgerVars, runVars, verifyVars, calm, writes>>
    BY <1>0, <1>2 DEF runVars
<1>3. CASE \E m \in Message, c \in Said : BotAppend(m, c) \/ BotUpdate(UserOf[m], c)
    BY <1>0, <1>3 DEF BotAppend, BotUpdate, runVars
<1>4. CASE (\E b \in Backend : Switch(b)) \/ Repair \/ LoadSource \/ Compare
    BY <1>4, <1>0 DEF Switch, Repair, LoadSource, Compare, runVars
<1>5. ASSUME NEW r \in Runner, NEW mode \in {"dry", "execute"}, LoadSheet(r, mode) PROVE Goal
    <2>1. k # r
        BY <1>5, <1>d DEF LoadSheet, Goto
    <2> QED
        BY <2>1, <1>5, <1>0, <1>d, <1>s DEF LoadSheet, Goto
<1>6. ASSUME NEW r \in Runner, RunDies(r) PROVE Goal
    <2>1. k # r
        BY <1>6, <1>d DEF RunDies, Goto
    <2> QED
        BY <2>1, <1>6, <1>0, <1>d, <1>s DEF RunDies, Goto
<1>7. ASSUME NEW r \in Runner, Plan(r) PROVE Goal
    <2>1. CASE k # r
        BY <2>1, <1>7, <1>0, <1>d, <1>s DEF Plan, Goto
    <2>2. CASE k = r
        <3>1. /\ ~(\E j \in DOMAIN source[k] : Blocking(source[k][j]))
              /\ todo' = [todo EXCEPT ![k] = Missing(source[k])]
              /\ rpc' = [rpc EXCEPT ![k] = IF Missing(source[k]) = {}
                                           THEN "complete" ELSE "import"]
            BY <2>2, <1>7, <1>d DEF Plan, Goto
        <3>2. source' = source /\ pg' = pg /\ dirty' = dirty
            BY <1>7 DEF Plan, ledgerVars
        <3>3. i \in Missing(source[k]) => rpc'[k] = "import" /\ i \in todo'[k]
            BY <3>1, <1>d, <1>s
        <3>4. i \notin Missing(source[k]) => IsThere(source[k][i], pg, dirty)
            BY <3>1, <3>2, PlanAccounts
        <3> QED
            BY <3>2, <3>3, <3>4 DEF Goal
    <2> QED
        BY <2>1, <2>2
<1>8. ASSUME NEW r \in Runner, Import(r) PROVE Goal
    <2>1. CASE k # r
        BY <2>1, <1>8, <1>0, <1>d, <1>s DEF Import, Goto
    <2>2. CASE k = r
        <3>1. PICK n \in todo[k] :
                /\ Insert(source[k][n])
                /\ todo' = [todo EXCEPT ![k] = IF GoesOn(source[k][n]) THEN @ \ {n} ELSE {}]
                /\ rpc' = [rpc EXCEPT ![k] = IF ~GoesOn(source[k][n]) THEN "refused"
                                             ELSE IF todo[k] = {n} THEN "complete" ELSE "import"]
            BY <2>2, <1>8 DEF Import, Goto
        <3>2. source' = source /\ rpc[k] = "import"
            BY <2>2, <1>8 DEF Import
        <3>3. GoesOn(source[k][n])
            BY <3>1, <1>d
        <3>4. source[k][i] \in Row /\ source[k][n] \in Row
            BY <3>2, <1>t, SeqOfRows DEF BackfillTypeOK
        <3>5. i = n => IsThere(source[k][i], pg', dirty')
            BY <3>1, <3>3, <3>4, <1>t, ImportAccounts
        <3>6. i # n /\ i \in todo[k] => rpc'[k] = "import" /\ i \in todo'[k]
            BY <3>1, <3>3, <1>d, <1>s
        <3>7. i \notin todo[k] => IsThere(source[k][i], pg, dirty)
            BY <3>2 DEF BackfillInv, Accounted
        <3>8. IsThere(source[k][i], pg, dirty) => IsThere(source[k][i], pg', dirty')
            BY <3>4, StaysThere
        <3> QED
            BY <3>2, <3>5, <3>6, <3>7, <3>8 DEF Goal
    <2> QED
        BY <2>1, <2>2
<1> QED
    BY <1>1, <1>2, <1>3, <1>4, <1>5, <1>6, <1>7, <1>8 DEF Next

-----------------------------------------------------------------------------
(* Theorems *)

LEMMA BackfillInit == Init => BackfillInv
<1> SUFFICES ASSUME Init PROVE BackfillInv
    OBVIOUS
<1>1. MigrationTypeOK
    BY MigrationInitInv DEF Init, MigrationInv
<1>2. sheet \in Seq(Row) /\ <<>> \in Seq(Row)
    BY DEF Init
<1>3. BackfillTypeOK
    BY <1>1, <1>2 DEF Init, BackfillTypeOK, Backend
<1>4. \A j \in Id : created[j] = 0 /\ {p \in pg : p.id = j} = {}
    BY DEF Init
<1>5. OneRowPerMessage
    BY <1>4, FS_EmptySet DEF Init, OneRowPerMessage
<1> QED
    BY <1>3, <1>5 DEF Init, BackfillInv, Accounted

LEMMA BackfillStep == MigrationInv /\ BackfillInv /\ [Next]_vars => MigrationInv' /\ BackfillInv'
<1> SUFFICES ASSUME MigrationInv, BackfillInv, [Next]_vars PROVE MigrationInv' /\ BackfillInv'
    OBVIOUS
<1>1. MigrationInv'
    BY NextMigrates, MigrationStepInv
<1>2. MigrationTypeOK'
    BY <1>1 DEF MigrationInv
<1> QED
    BY <1>1, <1>2, TypeStep, OneRowStep, AccountedStep DEF BackfillInv

LEMMA BackfillAlways == Spec => []BackfillInv
<1>1. Init => MigrationInv
    BY MigrationInitInv DEF Init
<1> QED
    BY <1>1, BackfillInit, BackfillStep, PTL DEF Spec

(* The types of the state of the cutover.                                  *)
THEOREM BackfillTypes == Spec => []BackfillTypeOK
<1>1. BackfillInv => BackfillTypeOK
    BY DEF BackfillInv
<1> QED
    BY <1>1, BackfillAlways, PTL

(* Any number of runs of the backfill, killed and repeated, next to a bot  *)
(* that writes to either ledger, leave one row and one 'created' event per *)
(* message and per id.                                                     *)
THEOREM CutoverOneRow == Spec => []OneRowPerMessage
<1>1. BackfillInv => OneRowPerMessage
    BY DEF BackfillInv
<1> QED
    BY <1>1, BackfillAlways, PTL

(* When a run says "backfill complete", every row that it read is in       *)
(* PostgreSQL, whichever run put it there.                                 *)
THEOREM CutoverComplete == Spec => []CompleteMeansThere
<1>1. BackfillInv => CompleteMeansThere
    BY DEF BackfillInv, Accounted, CompleteMeansThere, IsThere
<1> QED
    BY <1>1, BackfillAlways, PTL

(* A run never replaces or removes a row of PostgreSQL, however old what   *)
(* it had read.                                                            *)
THEOREM CutoverKeeps == Spec => NothingOverwritten
<1>1. BackfillInv /\ [Next]_vars => [writes' = writes => pg \subseteq pg']_vars
    BY OnlyTheBotChanges DEF BackfillInv
<1> QED
    BY <1>1, BackfillAlways, PTL DEF Spec, NothingOverwritten
-----------------------------------------------------------------------------
(* Why a run refuses *)

(* The first row of the worksheet with this id, and with this message.     *)
Heads(s, i, e) ==
    /\ s[i].id = e.id /\ s[i].msg = e.msg /\ e.msg # NoMessage
    /\ \A j \in 1 .. i - 1 : s[j].id # e.id /\ s[j].msg # e.msg

(* A row as a run read it, or as it was stored, is that one unless the bot *)
(* has changed it since.                                                   *)
Anchored(e, s, changed) ==
    \E i \in DOMAIN s : Heads(s, i, e) /\ (s[i] = e \/ e.msg \in changed)

Imported(p, s, changed) ==
    \E i \in DOMAIN s : Heads(s, i, p) /\ (Stored(s[i]) = p \/ p.msg \in changed)

Recorded(p, changed) == p.id[1] = "postgres" /\ p.msg \in changed

SheetRowsOwn(s) == \A i \in DOMAIN s : s[i].id[1] = "google_sheets"

(* Ids are random uuids: none that the worksheet has when the import       *)
(* begins is one the bot will give to a transaction in PostgreSQL.         *)
OwnIds == \A s \in Start : SheetRowsOwn(s)

Traced ==
    /\ SheetRowsOwn(sheet)
    /\ \A r \in Runner : ~Flawed(source[r]) =>
           \A i \in DOMAIN source[r] : Anchored(source[r][i], sheet, dirty)
    /\ \A p \in pg : Imported(p, sheet, dirty) \/ Recorded(p, dirty)
    /\ \A r \in Runner : rpc[r] = "import" => ~Flawed(source[r])

RefusalInv == BackfillInv /\ Traced /\ RefusedForAReason

LEMMA HeadsAreOne ==
    ASSUME NEW s \in Seq(Row), NEW i \in DOMAIN s, NEW j \in DOMAIN s,
           NEW e, NEW f, Heads(s, i, e), Heads(s, j, f), e.id = f.id \/ e.msg = f.msg
    PROVE  i = j
<1>1. i \in Nat /\ j \in Nat /\ i > 0 /\ j > 0
    BY SeqOfRows
<1>2. ~(i < j)
    BY <1>1 DEF Heads
<1>3. ~(j < i)
    BY <1>1 DEF Heads
<1> QED
    BY <1>1, <1>2, <1>3

LEMMA Removed ==
    ASSUME NEW s \in Seq(Row), NEW k \in DOMAIN s
    PROVE  /\ RemoveAt(s, k) \in Seq(Row)
           /\ DOMAIN RemoveAt(s, k) = 1 .. Len(s) - 1
           /\ \A j \in 1 .. Len(s) - 1 : RemoveAt(s, k)[j] = IF j < k THEN s[j] ELSE s[j + 1]
<1>1. DOMAIN s = 1 .. Len(s) /\ Len(s) \in Nat /\ k \in 1 .. Len(s) /\ RemoveAt(s, k) \in Seq(Row)
    BY SeqOfRows
<1> DEFINE a == SubSeq(s, 1, k - 1)
           b == SubSeq(s, k + 1, Len(s))
<1>2. /\ a \in Seq(Row) /\ Len(a) = k - 1 /\ \A j \in 1 .. k - 1 : a[j] = s[j]
    <2>1. /\ 1 \in Int /\ k - 1 \in Int /\ 1 .. k - 1 \subseteq 1 .. Len(s)
        BY <1>1
    <2>2. /\ a \in Seq(Row)
          /\ Len(a) = (IF 1 <= k - 1 THEN k - 1 - 1 + 1 ELSE 0)
          /\ \A j \in 1 .. k - 1 - 1 + 1 : a[j] = s[1 + j - 1]
        BY <1>1, <2>1, SubSeqProperties
    <2> QED
        BY <1>1, <2>2
<1>3. /\ b \in Seq(Row) /\ Len(b) = Len(s) - k /\ \A j \in 1 .. Len(s) - k : b[j] = s[k + j]
    <2>1. /\ k + 1 \in Int /\ Len(s) \in Int /\ k + 1 .. Len(s) \subseteq 1 .. Len(s)
        BY <1>1
    <2>2. /\ b \in Seq(Row)
          /\ Len(b) = (IF k + 1 <= Len(s) THEN Len(s) - (k + 1) + 1 ELSE 0)
          /\ \A j \in 1 .. Len(s) - (k + 1) + 1 : b[j] = s[k + 1 + j - 1]
        BY <1>1, <2>1, SubSeqProperties
    <2>3. Len(b) = Len(s) - k
        <3>1. CASE k + 1 <= Len(s)
            BY <1>1, <2>2, <3>1
        <3>2. CASE k = Len(s)
            BY <1>1, <2>2, <3>2
        <3> QED
            BY <1>1, <3>1, <3>2
    <2>4. ASSUME NEW j \in 1 .. Len(s) - k PROVE b[j] = s[k + j]
        <3>1. j \in 1 .. Len(s) - (k + 1) + 1 /\ k + 1 + j - 1 = k + j
            BY <1>1
        <3> QED
            BY <2>2, <3>1
    <2> QED
        BY <2>2, <2>3, <2>4
<1> HIDE DEF a, b
<1>4. /\ Len(a \o b) = Len(a) + Len(b)
      /\ \A j \in 1 .. Len(a) + Len(b) :
             (a \o b)[j] = IF j <= Len(a) THEN a[j] ELSE b[j - Len(a)]
    <2>1. a \in Seq(Row) /\ b \in Seq(Row)
        BY <1>2, <1>3
    <2> QED
        BY <2>1, ConcatProperties
<1>5. RemoveAt(s, k) = a \o b
    BY DEF RemoveAt, a, b
<1>6. Len(RemoveAt(s, k)) = Len(s) - 1
    <2>1. Len(a \o b) = Len(a) + Len(b)
        BY <1>4
    <2>2. Len(a) + Len(b) = (k - 1) + (Len(s) - k)
        BY <1>2, <1>3
    <2>3. (k - 1) + (Len(s) - k) = Len(s) - 1
        BY <1>1
    <2> QED
        BY <1>5, <2>1, <2>2, <2>3
<1>7. ASSUME NEW j \in 1 .. Len(s) - 1
      PROVE  RemoveAt(s, k)[j] = IF j < k THEN s[j] ELSE s[j + 1]
    <2>1. CASE j < k
        <3>1. j \in 1 .. k - 1 /\ j \in 1 .. Len(a) + Len(b) /\ j <= Len(a)
            BY <1>1, <1>2, <1>3, <2>1
        <3>2. (a \o b)[j] = a[j]
            BY <1>4, <3>1
        <3>3. a[j] = s[j]
            BY <1>2, <3>1
        <3> QED
            BY <1>5, <2>1, <3>2, <3>3
    <2>2. CASE ~(j < k)
        <3>1. j - (k - 1) \in 1 .. Len(s) - k /\ k + (j - (k - 1)) = j + 1
            BY <1>1, <2>2
        <3>2. (a \o b)[j] = b[j - (k - 1)]
            <4>1. Len(a) = k - 1 /\ Len(b) = Len(s) - k
                BY <1>2, <1>3
            <4>2. j \in 1 .. Len(a) + Len(b) /\ ~(j <= Len(a))
                BY <1>1, <2>2, <4>1
            <4>3. (a \o b)[j] = b[j - Len(a)]
                BY <1>4, <4>2
            <4> QED
                BY <4>1, <4>3
        <3>3. b[j - (k - 1)] = s[j + 1]
            BY <1>3, <3>1
        <3> QED
            BY <1>5, <2>2, <3>2, <3>3
    <2> QED
        BY <2>1, <2>2
<1> QED
    BY <1>1, <1>6, <1>7, LenProperties

LEMMA DirtyGrows == [Next]_vars => dirty \subseteq dirty'
<1> SUFFICES ASSUME [Next]_vars PROVE dirty \subseteq dirty'
    OBVIOUS
<1>1. CASE \E m \in Message, c \in Said : BotAppend(m, c) \/ BotUpdate(UserOf[m], c)
    BY <1>1 DEF BotAppend, BotUpdate
<1>2. CASE dirty' = dirty
    BY <1>2
<1> QED
    BY <1>1, <1>2 DEF Next, vars, ledgerVars, Switch, Repair, LoadSource, Compare, LoadSheet,
       Plan, RunDies, Import

(* The worksheet grows at its end, is edited in place, and loses only rows *)
(* that repeat an earlier one: its first row of an id stays that.          *)
LEMMA HeadsStay ==
    ASSUME BackfillTypeOK, [Next]_vars, NEW e, NEW i \in DOMAIN sheet, Heads(sheet, i, e)
    PROVE  \E k \in DOMAIN sheet' :
               Heads(sheet', k, e) /\ (sheet'[k] = sheet[i] \/ e.msg \in dirty')
<1>1. /\ sheet \in Seq(Row) /\ DOMAIN sheet = 1 .. Len(sheet) /\ Len(sheet) \in Nat
      /\ i \in Nat /\ i > 0
    BY SeqOfRows DEF BackfillTypeOK
<1>2. CASE sheet' = sheet
    BY <1>2
<1>3. ASSUME NEW m \in Message, NEW c \in Said, BotAppend(m, c)
      PROVE  \E k \in DOMAIN sheet' :
                 Heads(sheet', k, e) /\ (sheet'[k] = sheet[i] \/ e.msg \in dirty')
    <2>1. NewRow(m, c) \in Row
        BY RecordedRow
    <2>2. PICK new \in Row : sheet' = sheet \/ sheet' = Append(sheet, new)
        BY <1>3, <2>1 DEF BotAppend
    <2>3. CASE sheet' = Append(sheet, new)
        <3>1. /\ DOMAIN sheet' = 1 .. Len(sheet) + 1
              /\ \A j \in 1 .. Len(sheet) : sheet'[j] = sheet[j]
            BY <1>1, <2>3
        <3>2. Heads(sheet', i, e)
            BY <1>1, <3>1 DEF Heads
        <3> QED
            BY <1>1, <3>1, <3>2
    <2> QED
        BY <1>2, <2>2, <2>3
<1>4. ASSUME NEW m \in Message, NEW c \in Said, BotUpdate(UserOf[m], c)
      PROVE  \E k \in DOMAIN sheet' :
                 Heads(sheet', k, e) /\ (sheet'[k] = sheet[i] \/ e.msg \in dirty')
    <2> DEFINE u == UserOf[m]
    <2>1. CASE sheet' # sheet
        <3> DEFINE last == sheet[Min(LatestOf(sheet, u))]
                   n == Min({k \in DOMAIN sheet : sheet[k].id = last.id})
        <3>1. /\ LatestOf(sheet, u) # {}
              /\ sheet' = [sheet EXCEPT ![n] = Edited(@, c)]
              /\ dirty' = dirty \cup {sheet[n].msg}
            BY <1>4, <2>1 DEF BotUpdate
        <3>2. n \in DOMAIN sheet
            BY <1>1, <3>1, LatestIsARow
        <3> HIDE DEF n
        <3>3. sheet[n] \in Row
            BY <1>1, <3>2, SeqOfRows
        <3>4. Edited(sheet[n], c).id = sheet[n].id /\ Edited(sheet[n], c).msg = sheet[n].msg
            BY <3>3, RecordedRow
        <3>5. /\ DOMAIN sheet' = DOMAIN sheet
              /\ \A j \in DOMAIN sheet : sheet'[j].id = sheet[j].id /\ sheet'[j].msg = sheet[j].msg
              /\ \A j \in DOMAIN sheet : j # n => sheet'[j] = sheet[j]
            BY <1>1, <3>1, <3>2, <3>4
        <3>6. Heads(sheet', i, e)
            BY <1>1, <3>5 DEF Heads
        <3>7. i = n => e.msg \in dirty'
            BY <3>1 DEF Heads
        <3> QED
            BY <3>5, <3>6, <3>7
    <2> QED
        BY <1>2, <2>1
<1>5. ASSUME Repair
      PROVE  \E k \in DOMAIN sheet' :
                 Heads(sheet', k, e) /\ (sheet'[k] = sheet[i] \/ e.msg \in dirty')
    <2>1. PICK n \in DOMAIN sheet :
              /\ \/ sheet[n].msg = NoMessage
                 \/ \E j \in 1 .. n - 1 : sheet[j].id = sheet[n].id \/ sheet[j].msg = sheet[n].msg
              /\ sheet' = RemoveAt(sheet, n)
        BY <1>5 DEF Repair
    <2>2. n # i
        BY <2>1 DEF Heads
    <2>3. /\ DOMAIN sheet' = 1 .. Len(sheet) - 1
          /\ \A j \in 1 .. Len(sheet) - 1 : sheet'[j] = IF j < n THEN sheet[j] ELSE sheet[j + 1]
        BY <1>1, <2>1, Removed
    <2>4. n \in Nat /\ n <= Len(sheet) /\ i <= Len(sheet) /\ n > 0
        BY <1>1, <2>1
    <2>5. CASE i < n
        <3>1. i \in DOMAIN sheet' /\ sheet'[i] = sheet[i]
              /\ \A j \in 1 .. i - 1 : sheet'[j] = sheet[j]
            BY <1>1, <2>3, <2>4, <2>5
        <3>2. Heads(sheet', i, e)
            BY <3>1 DEF Heads
        <3> QED
            BY <3>1, <3>2
    <2>6. CASE n < i
        <3>1. PICK k : k = i - 1
            OBVIOUS
        <3>2. k \in DOMAIN sheet' /\ sheet'[k] = sheet[i]
            BY <1>1, <2>3, <2>4, <2>6, <3>1
        <3>3. ASSUME NEW j \in 1 .. k - 1
              PROVE  sheet'[j].id # e.id /\ sheet'[j].msg # e.msg
            <4>1. j \in 1 .. i - 1 /\ j + 1 \in 1 .. i - 1 /\ j \in 1 .. Len(sheet) - 1
                BY <1>1, <2>4, <3>1
            <4> QED
                BY <2>3, <4>1 DEF Heads
        <3>4. Heads(sheet', k, e)
            BY <3>2, <3>3 DEF Heads
        <3> QED
            BY <3>2, <3>4
    <2> QED
        BY <1>1, <2>2, <2>4, <2>5, <2>6
<1>6. \/ sheet' = sheet
      \/ \E m \in Message, c \in Said : BotAppend(m, c) \/ BotUpdate(UserOf[m], c)
      \/ Repair
    BY DEF Next, vars, ledgerVars, Switch, LoadSource, Compare, LoadSheet, Plan, RunDies, Import
<1> QED
    BY <1>2, <1>3, <1>4, <1>5, <1>6

LEMMA AnchorsHold ==
    ASSUME BackfillTypeOK, [Next]_vars, NEW e
    PROVE  /\ Anchored(e, sheet, dirty) => Anchored(e, sheet', dirty')
           /\ Imported(e, sheet, dirty) => Imported(e, sheet', dirty')
           /\ Recorded(e, dirty) => Recorded(e, dirty')
<1>1. dirty \subseteq dirty'
    BY DirtyGrows
<1>2. \A i \in DOMAIN sheet : Heads(sheet, i, e) =>
          \E k \in DOMAIN sheet' :
              Heads(sheet', k, e) /\ (sheet'[k] = sheet[i] \/ e.msg \in dirty')
    BY HeadsStay
<1>3. ASSUME Anchored(e, sheet, dirty) PROVE Anchored(e, sheet', dirty')
    <2>1. PICK i \in DOMAIN sheet : Heads(sheet, i, e) /\ (sheet[i] = e \/ e.msg \in dirty)
        BY <1>3 DEF Anchored
    <2>2. PICK k \in DOMAIN sheet' :
              Heads(sheet', k, e) /\ (sheet'[k] = sheet[i] \/ e.msg \in dirty')
        BY <1>2, <2>1
    <2> QED
        BY <1>1, <2>1, <2>2 DEF Anchored
<1>4. ASSUME Imported(e, sheet, dirty) PROVE Imported(e, sheet', dirty')
    <2>1. PICK i \in DOMAIN sheet : Heads(sheet, i, e) /\ (Stored(sheet[i]) = e \/ e.msg \in dirty)
        BY <1>4 DEF Imported
    <2>2. PICK k \in DOMAIN sheet' :
              Heads(sheet', k, e) /\ (sheet'[k] = sheet[i] \/ e.msg \in dirty')
        BY <1>2, <2>1
    <2> QED
        BY <1>1, <2>1, <2>2 DEF Imported
<1> QED
    BY <1>1, <1>3, <1>4 DEF Recorded

(* Of a worksheet without a defect every row is the first of its kind.     *)
LEMMA SoundRowsAnchor ==
    ASSUME NEW s \in Seq(Row), ~Flawed(s), NEW changed, NEW i \in DOMAIN s
    PROVE  Anchored(s[i], s, changed)
<1>1. Heads(s, i, s[i])
    BY DEF Flawed, Heads
<1> QED
    BY <1>1 DEF Anchored

(* The one row in PostgreSQL that could stand against a row that was read, *)
(* and needs no hand, is that row.                                         *)
LEMMA NoOtherThere ==
    ASSUME BackfillTypeOK, Traced, NEW e, Anchored(e, sheet, dirty),
           e.msg \notin dirty, Stored(e) = e,
           NEW p \in pg, p.id = e.id \/ p.msg = e.msg
    PROVE  p = e
<1>1. sheet \in Seq(Row)
    BY DEF BackfillTypeOK
<1>2. PICK i \in DOMAIN sheet : Heads(sheet, i, e) /\ sheet[i] = e
    BY DEF Anchored
<1>3. e.id[1] = "google_sheets"
    BY <1>2 DEF Traced, SheetRowsOwn
<1>4. CASE Recorded(p, dirty)
    BY <1>3, <1>4 DEF Recorded
<1>5. CASE Imported(p, sheet, dirty)
    <2>1. PICK k \in DOMAIN sheet : Heads(sheet, k, p) /\ (Stored(sheet[k]) = p \/ p.msg \in dirty)
        BY <1>5 DEF Imported
    <2>2. k = i
        BY <1>1, <1>2, <2>1, HeadsAreOne
    <2>3. p.msg = e.msg
        BY <1>2, <2>1, <2>2 DEF Heads
    <2> QED
        BY <1>2, <2>1, <2>2, <2>3
<1> QED
    BY <1>4, <1>5 DEF Traced

(* Such a row never makes a run refuse, when it plans or when it imports.  *)
LEMMA NoReason ==
    ASSUME BackfillTypeOK, Traced, NEW e, Anchored(e, sheet, dirty),
           e.msg \notin dirty, Stored(e) = e
    PROVE  ~Blocking(e) /\ GoesOn(e)
<1>1. \A p \in pg : p.id = e.id \/ p.msg = e.msg => p = e
    BY NoOtherThere
<1>2. ~Blocking(e)
    BY <1>1 DEF Blocking, Counterpart, OfMessage, ById, Equivalent
<1>3. GoesOn(e)
    BY <1>1 DEF GoesOn, OfMessage, Insertable, Equivalent
<1> QED
    BY <1>2, <1>3

LEMMA SourcesStay ==
    ASSUME BackfillTypeOK, Traced, [Next]_vars, NEW r \in Runner, ~Flawed(source'[r])
    PROVE  \A i \in DOMAIN source'[r] : Anchored(source'[r][i], sheet', dirty')
<1>1. source \in [Runner -> Seq(Row)] /\ sheet \in Seq(Row)
    BY DEF BackfillTypeOK
<1>2. CASE source'[r] = source[r]
    <2>1. \A i \in DOMAIN source[r] : Anchored(source[r][i], sheet, dirty)
        BY <1>2 DEF Traced
    <2> QED
        BY <1>2, <2>1, AnchorsHold
<1>3. CASE source'[r] = sheet
    <2>1. \A i \in DOMAIN sheet : Anchored(sheet[i], sheet, dirty)
        BY <1>1, <1>3, SoundRowsAnchor
    <2> QED
        BY <1>3, <2>1, AnchorsHold
<1>4. CASE source'[r] = <<>>
    BY <1>4
<1>5. ASSUME NEW k \in Runner, NEW mode \in {"dry", "execute"}, LoadSheet(k, mode)
      PROVE  source'[r] = source[r] \/ source'[r] = sheet
    BY <1>1, <1>5 DEF LoadSheet
<1>6. ASSUME NEW k \in Runner, RunDies(k)
      PROVE  source'[r] = source[r] \/ source'[r] = <<>>
    BY <1>1, <1>6 DEF RunDies
<1>7. \/ source' = source
      \/ \E k \in Runner, mode \in {"dry", "execute"} : LoadSheet(k, mode)
      \/ \E k \in Runner : RunDies(k)
    BY DEF Next, vars, runVars, BotAppend, BotUpdate, Switch, Repair, LoadSource, Compare,
       Plan, Import
<1> QED
    BY <1>2, <1>3, <1>4, <1>5, <1>6, <1>7

LEMMA StoreTraced ==
    ASSUME BackfillTypeOK, Traced, [Next]_vars
    PROVE  \A p \in pg' : Imported(p, sheet', dirty') \/ Recorded(p, dirty')
<1>1. ASSUME NEW p \in pg PROVE Imported(p, sheet', dirty') \/ Recorded(p, dirty')
    BY AnchorsHold DEF Traced
<1>2. CASE pg' \subseteq pg
    BY <1>1, <1>2
<1>3. ASSUME NEW m \in Message, NEW c \in Said, BotAppend(m, c), ~(pg' \subseteq pg),
             NEW p \in pg'
      PROVE  Imported(p, sheet', dirty') \/ Recorded(p, dirty')
    <2>1. NewRow(m, c) \in Row
        BY RecordedRow
    <2>2. /\ pg' = pg \cup {Stored(NewRow(m, c))} /\ backend = "postgres"
          /\ dirty' = dirty \cup {m}
        BY <1>3 DEF BotAppend, Insert
    <2>3. /\ Stored(NewRow(m, c)).id = NewRow(m, c).id
          /\ Stored(NewRow(m, c)).msg = NewRow(m, c).msg
        BY <2>1, StoredRow
    <2>4. NewRow(m, c).id[1] = "postgres" /\ NewRow(m, c).msg = m
        BY <2>2 DEF NewRow
    <2>5. p \notin pg => Recorded(p, dirty')
        BY <1>3, <2>2, <2>3, <2>4 DEF Recorded
    <2> QED
        BY <1>1, <2>5
<1>4. ASSUME NEW m \in Message, NEW c \in Said, BotUpdate(UserOf[m], c), ~(pg' \subseteq pg),
             NEW p \in pg'
      PROVE  Imported(p, sheet', dirty') \/ Recorded(p, dirty')
    <2>1. PICK q \in pg : /\ pg' = (pg \ {q}) \cup {Stored(Edited(q, c))}
                          /\ dirty' = dirty \cup {q.msg} /\ sheet' = sheet
        BY <1>4 DEF BotUpdate
    <2>2. q \in Row
        BY DEF BackfillTypeOK
    <2>3. PICK n : n = Stored(Edited(q, c))
        OBVIOUS
    <2>4. n.id = q.id /\ n.msg = q.msg
      <3>1. Edited(q, c) \in Row /\ Edited(q, c).id = q.id /\ Edited(q, c).msg = q.msg
          BY <2>2, RecordedRow
      <3> QED
          BY <2>3, <3>1, StoredRow
    <2>5. Imported(q, sheet', dirty') \/ Recorded(q, dirty')
        BY <1>1
    <2>6. Imported(q, sheet', dirty') => Imported(n, sheet', dirty')
        BY <2>1, <2>4 DEF Imported, Heads
    <2>7. Recorded(q, dirty') => Recorded(n, dirty')
        BY <2>4 DEF Recorded
    <2> QED
        BY <1>1, <1>4, <2>1, <2>3, <2>5, <2>6, <2>7
<1>5. ASSUME NEW r \in Runner, Import(r), ~(pg' \subseteq pg), NEW p \in pg'
      PROVE  Imported(p, sheet', dirty') \/ Recorded(p, dirty')
    <2>1. PICK i \in todo[r] : Insert(source[r][i])
        BY <1>5 DEF Import
    <2>2. PICK e : e = source[r][i]
        OBVIOUS
    <2>3. rpc[r] = "import" /\ sheet' = sheet /\ dirty' = dirty
        BY <1>5 DEF Import
    <2>4. i \in DOMAIN source[r] /\ source[r] \in Seq(Row)
        BY DEF BackfillTypeOK
    <2>5. e \in Row /\ Anchored(e, sheet, dirty)
        BY <2>2, <2>3, <2>4, SeqOfRows DEF Traced
    <2>6. PICK k \in DOMAIN sheet : Heads(sheet, k, e) /\ (sheet[k] = e \/ e.msg \in dirty)
        BY <2>5 DEF Anchored
    <2>7. pg' = pg \cup {Stored(e)}
        BY <1>5, <2>1, <2>2 DEF Insert
    <2>8. Stored(e).id = e.id /\ Stored(e).msg = e.msg
        BY <2>5, StoredRow
    <2>9. PICK q : q = Stored(e)
        OBVIOUS
    <2>10. Heads(sheet, k, q) /\ (Stored(sheet[k]) = q \/ q.msg \in dirty)
        BY <2>6, <2>8, <2>9 DEF Heads
    <2>11. Imported(q, sheet', dirty')
        BY <2>3, <2>10 DEF Imported
    <2> QED
        BY <1>1, <2>7, <2>9, <2>11
<1>6. \/ pg' = pg
      \/ \E m \in Message, c \in Said : BotAppend(m, c) \/ BotUpdate(UserOf[m], c)
      \/ \E r \in Runner : Import(r)
    BY DEF Next, vars, ledgerVars, Switch, Repair, LoadSource, Compare, LoadSheet, Plan, RunDies
<1> QED
    BY <1>2, <1>3, <1>4, <1>5, <1>6

LEMMA SheetRowsStayOwn ==
    ASSUME BackfillTypeOK, SheetRowsOwn(sheet), [Next]_vars
    PROVE  SheetRowsOwn(sheet')
<1>1. /\ sheet \in Seq(Row) /\ DOMAIN sheet = 1 .. Len(sheet) /\ Len(sheet) \in Nat
    BY SeqOfRows DEF BackfillTypeOK
<1>2. CASE sheet' = sheet
    BY <1>2
<1>3. ASSUME NEW m \in Message, NEW c \in Said, BotAppend(m, c), sheet' # sheet
      PROVE  SheetRowsOwn(sheet')
    <2>1. PICK new : new = NewRow(m, c)
        OBVIOUS
    <2>2. sheet' = Append(sheet, new) /\ new.id[1] = "google_sheets"
        BY <1>3, <2>1 DEF BotAppend, NewRow
    <2>3. new \in Row
        BY <2>1, RecordedRow
    <2>4. /\ DOMAIN sheet' = 1 .. Len(sheet) + 1
          /\ \A j \in 1 .. Len(sheet) : sheet'[j] = sheet[j]
          /\ sheet'[Len(sheet) + 1] = new
        BY <1>1, <2>2, <2>3
    <2> QED
        BY <1>1, <2>2, <2>4 DEF SheetRowsOwn
<1>4. ASSUME NEW m \in Message, NEW c \in Said, BotUpdate(UserOf[m], c), sheet' # sheet
      PROVE  SheetRowsOwn(sheet')
    <2> DEFINE u == UserOf[m]
               last == sheet[Min(LatestOf(sheet, u))]
               n == Min({k \in DOMAIN sheet : sheet[k].id = last.id})
    <2>1. /\ LatestOf(sheet, u) # {}
          /\ sheet' = [sheet EXCEPT ![n] = Edited(@, c)]
        BY <1>4 DEF BotUpdate
    <2>2. n \in DOMAIN sheet
        BY <1>1, <2>1, LatestIsARow
    <2> HIDE DEF n
    <2>3. Edited(sheet[n], c).id = sheet[n].id
        BY <1>1, <2>2, SeqOfRows, RecordedRow
    <2>4. DOMAIN sheet' = DOMAIN sheet /\ \A j \in DOMAIN sheet : sheet'[j].id = sheet[j].id
        BY <1>1, <2>1, <2>2, <2>3
    <2> QED
        BY <2>4 DEF SheetRowsOwn
<1>5. ASSUME Repair PROVE SheetRowsOwn(sheet')
    <2>1. PICK n \in DOMAIN sheet : sheet' = RemoveAt(sheet, n)
        BY <1>5 DEF Repair
    <2>2. /\ DOMAIN sheet' = 1 .. Len(sheet) - 1
          /\ \A j \in 1 .. Len(sheet) - 1 : sheet'[j] = IF j < n THEN sheet[j] ELSE sheet[j + 1]
        BY <1>1, <2>1, Removed
    <2>3. \A j \in DOMAIN sheet' : \E k \in DOMAIN sheet : sheet'[j] = sheet[k]
        BY <1>1, <2>2
    <2> QED
        BY <2>3 DEF SheetRowsOwn
<1>6. \/ sheet' = sheet
      \/ \E m \in Message, c \in Said : BotAppend(m, c) \/ BotUpdate(UserOf[m], c)
      \/ Repair
    BY DEF Next, vars, ledgerVars, Switch, LoadSource, Compare, LoadSheet, Plan, RunDies, Import
<1> QED
    BY <1>2, <1>3, <1>4, <1>5, <1>6

(* Only a run that read a worksheet without a defect imports.              *)
LEMMA SoundImports ==
    ASSUME BackfillTypeOK, Traced, [Next]_vars, NEW r \in Runner, rpc'[r] = "import"
    PROVE  ~Flawed(source'[r])
<1>1. /\ rpc \in [Runner -> {"idle", "dry", "execute", "import", "complete", "refused"}]
      /\ source \in [Runner -> Seq(Row)]
    BY DEF BackfillTypeOK
<1>2. CASE source'[r] = source[r] /\ rpc[r] = "import"
    BY <1>2 DEF Traced
<1>3. ASSUME NEW k \in Runner, Plan(k), k = r PROVE ~Flawed(source'[r])
    BY <1>1, <1>3 DEF Plan, Goto
<1>4. ASSUME NEW k \in Runner, Plan(k) \/ Import(k) \/ RunDies(k)
      PROVE  ~Flawed(source'[r])
    <2>1. CASE k # r
        BY <1>1, <1>2, <1>4, <2>1 DEF Plan, Import, RunDies, Goto
    <2>2. CASE k = r /\ Import(k)
        BY <1>2, <2>2 DEF Import
    <2>3. CASE k = r /\ RunDies(k)
        BY <1>1, <2>3 DEF RunDies, Goto
    <2> QED
        BY <1>3, <1>4, <2>1, <2>2, <2>3
<1>5. ASSUME NEW k \in Runner, NEW mode \in {"dry", "execute"}, LoadSheet(k, mode)
      PROVE  ~Flawed(source'[r])
    BY <1>1, <1>2, <1>5 DEF LoadSheet, Goto
<1>6. \/ rpc' = rpc /\ source' = source
      \/ \E k \in Runner, mode \in {"dry", "execute"} : LoadSheet(k, mode)
      \/ \E k \in Runner : Plan(k) \/ Import(k) \/ RunDies(k)
    BY DEF Next, vars, runVars, BotAppend, BotUpdate, Switch, Repair, LoadSource, Compare
<1> QED
    BY <1>2, <1>4, <1>5, <1>6

(* What a run refuses over: a defect, or a row that needs a hand.          *)
Reason(s, changed) ==
    Flawed(s) \/ \E i \in DOMAIN s : s[i].msg \in changed \/ Stored(s[i]) # s[i]

LEMMA ReasonFound ==
    ASSUME BackfillTypeOK, Traced, NEW r \in Runner, NEW i \in DOMAIN source[r],
           NEW e, e = source[r][i], Blocking(e) \/ ~GoesOn(e)
    PROVE  Reason(source[r], dirty)
<1>1. CASE Flawed(source[r])
    BY <1>1 DEF Reason
<1>2. CASE ~Flawed(source[r])
    <2>1. Anchored(e, sheet, dirty)
        BY <1>2 DEF Traced
    <2>2. e.msg \in dirty \/ Stored(e) # e
        BY <2>1, NoReason
    <2> QED
        BY <2>2 DEF Reason
<1> QED
    BY <1>1, <1>2

LEMMA RefusalHasReason ==
    ASSUME BackfillTypeOK, Traced, RefusedForAReason, [Next]_vars,
           NEW k \in Runner, rpc'[k] = "refused"
    PROVE  Reason(source'[k], dirty')
<1>1. /\ rpc \in [Runner -> {"idle", "dry", "execute", "import", "complete", "refused"}]
      /\ source \in [Runner -> Seq(Row)]
    BY DEF BackfillTypeOK
<1>2. dirty \subseteq dirty'
    BY DirtyGrows
<1>3. CASE source'[k] = source[k] /\ rpc[k] = "refused"
    BY <1>2, <1>3 DEF RefusedForAReason, Reason
<1>4. ASSUME Plan(k) PROVE Reason(source'[k], dirty')
    <2>1. source' = source /\ dirty' = dirty
        BY <1>4 DEF Plan, ledgerVars
    <2>2. Flawed(source[k]) \/ \E i \in DOMAIN source[k] : Blocking(source[k][i])
        BY <1>1, <1>4 DEF Plan, Goto
    <2>3. ASSUME NEW i \in DOMAIN source[k], Blocking(source[k][i])
          PROVE  Reason(source[k], dirty)
        <3>1. PICK e : e = source[k][i]
            OBVIOUS
        <3> QED
            BY <2>3, <3>1, ReasonFound
    <2>4. Flawed(source[k]) => Reason(source[k], dirty)
        BY DEF Reason
    <2> QED
        BY <2>1, <2>2, <2>3, <2>4
<1>5. ASSUME Import(k) PROVE Reason(source'[k], dirty')
    <2>1. source' = source /\ dirty' = dirty
        BY <1>5 DEF Import
    <2>2. PICK i \in todo[k] :
              rpc' = [rpc EXCEPT ![k] = IF ~GoesOn(source[k][i]) THEN "refused"
                                        ELSE IF todo[k] = {i} THEN "complete" ELSE "import"]
        BY <1>5 DEF Import, Goto
    <2>3. ~GoesOn(source[k][i])
        BY <1>1, <2>2
    <2>4. i \in DOMAIN source[k]
        BY DEF BackfillTypeOK
    <2>5. PICK e : e = source[k][i]
        OBVIOUS
    <2> QED
        BY <2>1, <2>3, <2>4, <2>5, ReasonFound
<1>6. ASSUME NEW r \in Runner, Plan(r) \/ Import(r) \/ RunDies(r), r # k
      PROVE  Reason(source'[k], dirty')
    <2>1. source'[k] = source[k] /\ rpc'[k] = rpc[k]
        BY <1>1, <1>6 DEF Plan, Import, RunDies, Goto
    <2> QED
        BY <1>3, <2>1
<1>7. ASSUME NEW r \in Runner, NEW mode \in {"dry", "execute"}, LoadSheet(r, mode)
      PROVE  Reason(source'[k], dirty')
    BY <1>1, <1>3, <1>7 DEF LoadSheet, Goto
<1>8. ASSUME RunDies(k) PROVE FALSE
    BY <1>1, <1>8 DEF RunDies, Goto
<1>9. \/ rpc' = rpc /\ source' = source
      \/ \E r \in Runner, mode \in {"dry", "execute"} : LoadSheet(r, mode)
      \/ \E r \in Runner : Plan(r) \/ Import(r) \/ RunDies(r)
    BY DEF Next, vars, runVars, BotAppend, BotUpdate, Switch, Repair, LoadSource, Compare
<1> QED
    BY <1>3, <1>4, <1>5, <1>6, <1>7, <1>8, <1>9

LEMMA RefusalInit == OwnIds /\ Init => RefusalInv
<1> SUFFICES ASSUME OwnIds, Init PROVE RefusalInv
    OBVIOUS
<1>1. /\ sheet \in Start /\ pg = {} /\ rpc = [r \in Runner |-> "idle"]
      /\ source = [r \in Runner |-> <<>>]
    BY DEF Init
<1>2. SheetRowsOwn(sheet)
    BY <1>1 DEF OwnIds
<1>3. Traced
    BY <1>1, <1>2 DEF Traced
<1>4. RefusedForAReason
    BY <1>1 DEF RefusedForAReason
<1> QED
    BY <1>3, <1>4, BackfillInit DEF RefusalInv

LEMMA RefusalStep == RefusalInv /\ BackfillInv' /\ [Next]_vars => RefusalInv'
<1> SUFFICES ASSUME RefusalInv, BackfillInv', [Next]_vars PROVE RefusalInv'
    OBVIOUS
<1>1. BackfillTypeOK /\ Traced /\ RefusedForAReason
    BY DEF RefusalInv, BackfillInv
<1>2. SheetRowsOwn(sheet')
    BY <1>1, SheetRowsStayOwn DEF Traced
<1>3. \A r \in Runner : ~Flawed(source'[r]) =>
          \A i \in DOMAIN source'[r] : Anchored(source'[r][i], sheet', dirty')
    BY <1>1, SourcesStay
<1>4. \A p \in pg' : Imported(p, sheet', dirty') \/ Recorded(p, dirty')
    BY <1>1, StoreTraced
<1>5. \A r \in Runner : rpc'[r] = "import" => ~Flawed(source'[r])
    BY <1>1, SoundImports
<1>6. \A k \in Runner : rpc'[k] = "refused" => Reason(source'[k], dirty')
    BY <1>1, RefusalHasReason
<1>7. Traced'
    BY <1>2, <1>3, <1>4, <1>5 DEF Traced
<1>8. RefusedForAReason'
    BY <1>6 DEF RefusedForAReason, Reason
<1> QED
    BY <1>7, <1>8 DEF RefusalInv

(* Whatever other runs do, are killed and leave behind, a run of the       *)
(* backfill refuses only over a defect of the worksheet it read, a         *)
(* transaction that the bot itself wrote or changed, or an amount that     *)
(* PostgreSQL rounds.                                                      *)
THEOREM RefusalsHaveReasons ==
    ASSUME OwnIds
    PROVE  Spec => []RefusedForAReason
<1>1. Init => RefusalInv
    BY RefusalInit
<1>2. RefusalInv /\ BackfillInv' /\ [Next]_vars => RefusalInv'
    BY RefusalStep
<1>3. RefusalInv => RefusedForAReason
    BY DEF RefusalInv
<1> QED
    BY <1>1, <1>2, <1>3, BackfillAlways, PTL DEF Spec

-----------------------------------------------------------------------------
(* What a verification compares *)

LEMMA RowHas ==
    ASSUME NEW e \in Row
    PROVE  /\ e.id \in Id /\ e.is \in Content /\ e.made \in Nat
           /\ e.is.amount \in Nat /\ e.is.month \in Nat
BY BackfillAssumption DEF Row

LEMMA Indexes ==
    ASSUME NEW s \in Seq(Row)
    PROVE  /\ DOMAIN s = 1 .. Len(s) /\ Len(s) \in Nat /\ IsFiniteSet(DOMAIN s)
           /\ \A i \in DOMAIN s : s[i] \in Row /\ i \in Nat
<1>1. DOMAIN s = 1 .. Len(s) /\ Len(s) \in Nat /\ s \in [1 .. Len(s) -> Row]
    OBVIOUS
<1> QED
    BY <1>1, FS_Interval

(* What a row adds to the aggregate of each kind under key k.              *)
MonthWeight(k) == [e \in Row |-> IF MonthKey(e) = k THEN Amount(e) ELSE 0]
CurrencyWeight(k) == [e \in Row |-> IF CurrencyKey(e) = k THEN One(e) ELSE 0]
CategoryWeight(k) == [e \in Row |-> IF CategoryKey(e) = k THEN One(e) ELSE 0]
MerchantWeight(k) == [e \in Row |-> IF MerchantKey(e) = k THEN One(e) ELSE 0]

Weighed(s, g) == [i \in DOMAIN s |-> g[s[i]]]
Weighs(g) == \A e \in Row : g[e] \in Nat

LEMMA TheyWeigh ==
    ASSUME NEW k
    PROVE  /\ Weighs(MonthWeight(k)) /\ Weighs(CurrencyWeight(k))
           /\ Weighs(CategoryWeight(k)) /\ Weighs(MerchantWeight(k))
BY RowHas DEF Weighs, MonthWeight, CurrencyWeight, CategoryWeight, MerchantWeight, Amount, One

(* The sums of the weights of a worksheet, as FoldSeq computes them.       *)
FoldsTo(s, v, h) ==
    [x \in SUBSET DOMAIN s |-> IF x = {} THEN 0 ELSE h[x \ {Pick(x)}] + v[Pick(x)]]
FoldOf(s, g) == (CHOOSE h : h = FoldsTo(s, Weighed(s, g), h))[DOMAIN s]

LEMMA FoldSums ==
    ASSUME NEW s \in Seq(Row), NEW g, Weighs(g)
    PROVE  \E f : Adds(f, Weighed(s, g), DOMAIN s) /\ FoldOf(s, g) = f[DOMAIN s]
<1> DEFINE v == Weighed(s, g)
           h == CHOOSE h : h = FoldsTo(s, v, h)
<1>1. \A i \in DOMAIN s : v[i] \in Nat
    BY Indexes DEF Weighed, Weighs
<1>2. IsFiniteSet(DOMAIN s)
    BY Indexes
<1>3. \A f : AddsAfter(f, v, DOMAIN s) <=> f = FoldsTo(s, v, f)
    BY DEF AddsAfter, FoldsTo
<1>4. FoldOf(s, g) = h[DOMAIN s]
    BY DEF FoldOf
<1> HIDE DEF v
<1>5. PICK f : AddsAfter(f, v, DOMAIN s)
    BY <1>1, <1>2, AddsEither
<1>6. f = FoldsTo(s, v, f)
    BY <1>3, <1>5
<1>7. h = FoldsTo(s, v, h)
    BY <1>6
<1> HIDE DEF h
<1>8. AddsAfter(h, v, DOMAIN s)
    BY <1>3, <1>7
<1>9. Adds(h, v, DOMAIN s)
    BY <1>1, <1>2, <1>8, AddsEither
<1> QED
    BY <1>4, <1>9 DEF v

LEMMA MonthFold ==
    ASSUME NEW s \in Seq(Row), NEW k
    PROVE  Added(s, MonthKey, Amount, k) = FoldOf(s, MonthWeight(k))
<1> DEFINE v == Weighed(s, MonthWeight(k))
           Here(i) == IF MonthKey(s[i]) = k THEN Amount(s[i]) ELSE 0
           F(h) == [x \in SUBSET DOMAIN s |->
                        IF x = {} THEN 0
                        ELSE h[x \ {CHOOSE y \in x : TRUE}] + Here(CHOOSE y \in x : TRUE)]
<1>1. Added(s, MonthKey, Amount, k) = (CHOOSE h : h = F(h))[DOMAIN s]
    BY DEF Added, FoldSeq, FoldFunction, FoldFunctionOnSet, MapThenFoldSet
<1>2. \A i \in DOMAIN s : v[i] = Here(i)
    BY Indexes DEF Weighed, MonthWeight
<1> HIDE DEF v, Here
<1>3. \A x \in SUBSET DOMAIN s : x # {} => v[Pick(x)] = Here(Pick(x))
    BY <1>2 DEF Pick
<1>4. \A h : F(h) = FoldsTo(s, v, h)
    BY <1>3 DEF FoldsTo, Pick
<1> HIDE DEF F
<1>5. (CHOOSE h : h = F(h)) = (CHOOSE h : h = FoldsTo(s, v, h))
    BY <1>4, Zenon
<1> QED
    BY <1>1, <1>5 DEF FoldOf, v

LEMMA CurrencyFold ==
    ASSUME NEW s \in Seq(Row), NEW k
    PROVE  Added(s, CurrencyKey, One, k) = FoldOf(s, CurrencyWeight(k))
<1> DEFINE v == Weighed(s, CurrencyWeight(k))
           Here(i) == IF CurrencyKey(s[i]) = k THEN One(s[i]) ELSE 0
           F(h) == [x \in SUBSET DOMAIN s |->
                        IF x = {} THEN 0
                        ELSE h[x \ {CHOOSE y \in x : TRUE}] + Here(CHOOSE y \in x : TRUE)]
<1>1. Added(s, CurrencyKey, One, k) = (CHOOSE h : h = F(h))[DOMAIN s]
    BY DEF Added, FoldSeq, FoldFunction, FoldFunctionOnSet, MapThenFoldSet
<1>2. \A i \in DOMAIN s : v[i] = Here(i)
    BY Indexes DEF Weighed, CurrencyWeight
<1> HIDE DEF v, Here
<1>3. \A x \in SUBSET DOMAIN s : x # {} => v[Pick(x)] = Here(Pick(x))
    BY <1>2 DEF Pick
<1>4. \A h : F(h) = FoldsTo(s, v, h)
    BY <1>3 DEF FoldsTo, Pick
<1> HIDE DEF F
<1>5. (CHOOSE h : h = F(h)) = (CHOOSE h : h = FoldsTo(s, v, h))
    BY <1>4, Zenon
<1> QED
    BY <1>1, <1>5 DEF FoldOf, v

LEMMA CategoryFold ==
    ASSUME NEW s \in Seq(Row), NEW k
    PROVE  Added(s, CategoryKey, One, k) = FoldOf(s, CategoryWeight(k))
<1> DEFINE v == Weighed(s, CategoryWeight(k))
           Here(i) == IF CategoryKey(s[i]) = k THEN One(s[i]) ELSE 0
           F(h) == [x \in SUBSET DOMAIN s |->
                        IF x = {} THEN 0
                        ELSE h[x \ {CHOOSE y \in x : TRUE}] + Here(CHOOSE y \in x : TRUE)]
<1>1. Added(s, CategoryKey, One, k) = (CHOOSE h : h = F(h))[DOMAIN s]
    BY DEF Added, FoldSeq, FoldFunction, FoldFunctionOnSet, MapThenFoldSet
<1>2. \A i \in DOMAIN s : v[i] = Here(i)
    BY Indexes DEF Weighed, CategoryWeight
<1> HIDE DEF v, Here
<1>3. \A x \in SUBSET DOMAIN s : x # {} => v[Pick(x)] = Here(Pick(x))
    BY <1>2 DEF Pick
<1>4. \A h : F(h) = FoldsTo(s, v, h)
    BY <1>3 DEF FoldsTo, Pick
<1> HIDE DEF F
<1>5. (CHOOSE h : h = F(h)) = (CHOOSE h : h = FoldsTo(s, v, h))
    BY <1>4, Zenon
<1> QED
    BY <1>1, <1>5 DEF FoldOf, v

LEMMA MerchantFold ==
    ASSUME NEW s \in Seq(Row), NEW k
    PROVE  Added(s, MerchantKey, One, k) = FoldOf(s, MerchantWeight(k))
<1> DEFINE v == Weighed(s, MerchantWeight(k))
           Here(i) == IF MerchantKey(s[i]) = k THEN One(s[i]) ELSE 0
           F(h) == [x \in SUBSET DOMAIN s |->
                        IF x = {} THEN 0
                        ELSE h[x \ {CHOOSE y \in x : TRUE}] + Here(CHOOSE y \in x : TRUE)]
<1>1. Added(s, MerchantKey, One, k) = (CHOOSE h : h = F(h))[DOMAIN s]
    BY DEF Added, FoldSeq, FoldFunction, FoldFunctionOnSet, MapThenFoldSet
<1>2. \A i \in DOMAIN s : v[i] = Here(i)
    BY Indexes DEF Weighed, MerchantWeight
<1> HIDE DEF v, Here
<1>3. \A x \in SUBSET DOMAIN s : x # {} => v[Pick(x)] = Here(Pick(x))
    BY <1>2 DEF Pick
<1>4. \A h : F(h) = FoldsTo(s, v, h)
    BY <1>3 DEF FoldsTo, Pick
<1> HIDE DEF F
<1>5. (CHOOSE h : h = F(h)) = (CHOOSE h : h = FoldsTo(s, v, h))
    BY <1>4, Zenon
<1> QED
    BY <1>1, <1>5 DEF FoldOf, v

(* SetToSeq lists PostgreSQL's rows, each once.                            *)
IsListOf(t, S) ==
    /\ t \in Seq(Row) /\ Len(t) = Cardinality(S)
    /\ Apart(t, DOMAIN t) /\ ToSet(t) = S

LEMMA ListOf ==
    ASSUME NEW S, S \subseteq Row, IsFiniteSet(S)
    PROVE  IsListOf(SetToSeq(S), S)
<1>1. Cardinality(S) \in Nat /\ ExistsBijection(1 .. Cardinality(S), S)
    BY FS_CardinalityType
<1>2. PICK n \in Nat : n = Cardinality(S)
    BY <1>1
<1>3. PICK f \in [1 .. n -> S] :
          /\ \A x \in S : \E i \in 1 .. n : f[i] = x
          /\ \A i, j \in 1 .. n : f[i] = f[j] => i = j
    BY <1>1, <1>2 DEF ExistsBijection, Bijection, Injection, Surjection, IsInjective
<1>4. IsInjective(f)
    BY <1>3 DEF IsInjective
<1>5. PICK t : t = SetToSeq(S)
    OBVIOUS
<1>6. t \in [1 .. n -> S] /\ IsInjective(t)
    BY <1>2, <1>3, <1>4, <1>5 DEF SetToSeq
<1>7. t \in Injection(1 .. n, S)
    BY <1>6 DEF Injection, IsInjective
<1>8. IsFiniteSet(1 .. n) /\ Cardinality(1 .. n) = n
    BY FS_Interval, <1>2
<1>9. t \in Surjection(1 .. n, S)
    BY <1>2, <1>7, <1>8, FS_Injection
<1>10. t \in Seq(S) /\ Len(t) = n /\ DOMAIN t = 1 .. n
    BY <1>6
<1>11. t \in Seq(Row)
    BY <1>10
<1>12. ToSet(t) = S
    BY <1>6, <1>9, <1>10 DEF ToSet, Surjection
<1>13. Apart(t, DOMAIN t)
    BY <1>6, <1>10 DEF Apart, IsInjective
<1> QED
    BY <1>2, <1>5, <1>10, <1>11, <1>12, <1>13 DEF IsListOf

LEMMA ListsAgree ==
    ASSUME NEW s \in Seq(Row), NEW t \in Seq(Row), Apart(s, DOMAIN s), Apart(t, DOMAIN t),
           ToSet(s) = ToSet(t), NEW g, Weighs(g)
    PROVE  FoldOf(s, g) = FoldOf(t, g)
<1>1. PICK f : Adds(f, Weighed(s, g), DOMAIN s) /\ FoldOf(s, g) = f[DOMAIN s]
    BY FoldSums
<1>2. PICK h : Adds(h, Weighed(t, g), DOMAIN t) /\ FoldOf(t, g) = h[DOMAIN t]
    BY FoldSums
<1>3. Weights(Weighed(s, g), s, g, DOMAIN s) /\ Weights(Weighed(t, g), t, g, DOMAIN t)
    BY Indexes DEF Weights, Weighed, Weighs
<1>4. Image(s, DOMAIN s) = Image(t, DOMAIN t)
    BY DEF Image, ToSet
<1>5. IsFiniteSet(DOMAIN s) /\ IsFiniteSet(DOMAIN t)
    BY Indexes
<1>6. PICK A, B, v, w : A = DOMAIN s /\ B = DOMAIN t /\ v = Weighed(s, g) /\ w = Weighed(t, g)
    OBVIOUS
<1>7. /\ IsFiniteSet(A) /\ Adds(f, v, A) /\ Weights(v, s, g, A) /\ Apart(s, A)
      /\ IsFiniteSet(B) /\ Adds(h, w, B) /\ Weights(w, t, g, B) /\ Apart(t, B)
      /\ Image(s, A) = Image(t, B)
    BY <1>1, <1>2, <1>3, <1>4, <1>5, <1>6
<1>8. A \in SUBSET A /\ B \in SUBSET B
    OBVIOUS
<1>9. f[A] = h[B]
    BY <1>7, <1>8, SameTotals
<1> QED
    BY <1>1, <1>2, <1>6, <1>9

LEMMA SameAggregatesIfCopied ==
    ASSUME NEW s \in Seq(Row), NEW t \in Seq(Row), Apart(s, DOMAIN s), Apart(t, DOMAIN t),
           ToSet(s) = ToSet(t)
    PROVE  SameAggregates(s, t)
<1>1. \A k : Added(s, MonthKey, Amount, k) = Added(t, MonthKey, Amount, k)
    BY MonthFold, TheyWeigh, ListsAgree
<1>2. \A k : Added(s, CurrencyKey, One, k) = Added(t, CurrencyKey, One, k)
    BY CurrencyFold, TheyWeigh, ListsAgree
<1>3. \A k : Added(s, CategoryKey, One, k) = Added(t, CategoryKey, One, k)
    BY CategoryFold, TheyWeigh, ListsAgree
<1>4. \A k : Added(s, MerchantKey, One, k) = Added(t, MerchantKey, One, k)
    BY MerchantFold, TheyWeigh, ListsAgree
<1> QED
    BY <1>1, <1>2, <1>3, <1>4 DEF SameAggregates, SameBy

OneIdEach(S) == \A p, q \in S : p.id = q.id => p = q
LastOfId(s) == {i \in DOMAIN s : \A j \in i + 1 .. Len(s) : s[j].id # s[i].id}

LEMMA LastOnes ==
    ASSUME NEW s \in Seq(Row)
    PROVE  /\ Standing(s) = Image(s, LastOfId(s)) /\ Apart(s, LastOfId(s))
           /\ \A x \in DOMAIN s : \E i \in LastOfId(s) : s[i].id = s[x].id
<1>1. Standing(s) = Image(s, LastOfId(s))
    BY DEF Standing, Image, LastOfId
<1>2. \A i \in DOMAIN s : i \in 1 .. Len(s) /\ i \in Nat /\ Len(s) \in Nat
    BY Indexes
<1>3. ASSUME NEW i \in LastOfId(s), NEW j \in LastOfId(s), s[i] = s[j] PROVE i = j
    <2>1. i \in 1 .. Len(s) /\ j \in 1 .. Len(s) /\ i \in Nat /\ j \in Nat /\ Len(s) \in Nat
        BY <1>2 DEF LastOfId
    <2>2. ~ (j \in i + 1 .. Len(s)) /\ ~ (i \in j + 1 .. Len(s))
        BY <1>3 DEF LastOfId
    <2> QED
        BY <2>1, <2>2
<1>4. ASSUME NEW x \in DOMAIN s PROVE \E i \in LastOfId(s) : s[i].id = s[x].id
    <2> DEFINE J == {i \in DOMAIN s : s[i].id = s[x].id}
    <2>1. J \subseteq Nat /\ J # {} /\ Len(s) \in Nat /\ \A i \in J : i <= Len(s)
        BY <1>2
    <2>2. Max(J) \in J /\ \A i \in J : Max(J) >= i
        BY <2>1, MaxIsIn
    <2>3. PICK m \in J : \A i \in J : m >= i
        BY <2>2
    <2>4. ASSUME NEW j \in m + 1 .. Len(s) PROVE s[j].id # s[m].id
        <3>1. m \in Nat /\ Len(s) \in Nat /\ j \in 1 .. Len(s) /\ ~ (m >= j)
            BY <1>2
        <3>2. j \in DOMAIN s
            BY <3>1, Indexes
        <3> QED
            BY <2>3, <3>1, <3>2
    <2> QED
        BY <2>3, <2>4 DEF LastOfId
<1> QED
    BY <1>1, <1>3, <1>4 DEF Apart

(* A report that passes: the rows that stand for their ids are those of    *)
(* PostgreSQL, and a row that does not would be counted once too often.    *)
LEMMA PassedIsCopied ==
    ASSUME NEW s \in Seq(Row), NEW S, S \subseteq Row, IsFiniteSet(S), OneIdEach(S),
           NEW t, IsListOf(t, S), SameRows(s, t), SameAggregates(s, t)
    PROVE  S = ToSet(s) /\ Cardinality(S) = Len(s)
<1>t. t \in Seq(Row) /\ Apart(t, DOMAIN t) /\ ToSet(t) = S
    BY DEF IsListOf
<1>1. Standing(t) = S
    <2>1. ASSUME NEW i \in DOMAIN t PROVE i \in LastOfId(t)
        <3> SUFFICES ASSUME NEW j \in i + 1 .. Len(t), t[j].id = t[i].id PROVE FALSE
            BY DEF LastOfId
        <3>1. i \in 1 .. Len(t) /\ i \in Nat /\ Len(t) \in Nat
            BY <1>t, Indexes
        <3>2. j \in 1 .. Len(t) /\ j # i
            BY <3>1
        <3>3. j \in DOMAIN t
            BY <1>t, <3>2, Indexes
        <3>4. t[i] \in S /\ t[j] \in S
            BY <1>t, <3>3 DEF ToSet
        <3> QED
            BY <1>t, <3>2, <3>3, <3>4 DEF OneIdEach, Apart
    <2>2. LastOfId(t) = DOMAIN t
        BY <2>1 DEF LastOfId
    <2> QED
        BY <1>t, <2>2, LastOnes DEF Image, ToSet
<1>2. Standing(s) = S
    <2>1. \A e \in Standing(s), p \in S : e.id = p.id => e = p
        BY <1>1 DEF SameRows, Equivalent
    <2>2. {e.id : e \in ToSet(s)} = {p.id : p \in S}
        BY <1>t DEF SameRows
    <2>3. ASSUME NEW e \in Standing(s) PROVE e \in S
        <3>1. e \in ToSet(s)
            BY DEF Standing, ToSet
        <3>2. e.id \in {c.id : c \in ToSet(s)}
            BY <3>1
        <3>3. e.id \in {p.id : p \in S}
            BY <2>2, <3>2
        <3>4. PICK p \in S : p.id = e.id
            BY <3>3
        <3> QED
            BY <2>1, <3>4
    <2>4. ASSUME NEW p \in S PROVE p \in Standing(s)
        <3>1. p.id \in {c.id : c \in ToSet(s)}
            BY <2>2
        <3>2. PICK x \in DOMAIN s : s[x].id = p.id
            BY <3>1 DEF ToSet
        <3>3. PICK i \in LastOfId(s) : s[i].id = p.id
            BY <3>2, LastOnes
        <3>4. s[i] \in Standing(s)
            BY LastOnes DEF Image
        <3> QED
            BY <2>1, <3>3, <3>4
    <2> QED
        BY <2>3, <2>4
<1>3. ASSUME NEW x \in DOMAIN s, x \notin LastOfId(s) PROVE FALSE
    <2> DEFINE k == CurrencyKey(s[x])
               g == CurrencyWeight(k)
    <2>0. Weighs(g)
        BY TheyWeigh
    <2>1. PICK f : Adds(f, Weighed(s, g), DOMAIN s) /\ FoldOf(s, g) = f[DOMAIN s]
        BY <2>0, FoldSums
    <2>2. PICK h : Adds(h, Weighed(t, g), DOMAIN t) /\ FoldOf(t, g) = h[DOMAIN t]
        BY <1>t, <2>0, FoldSums
    <2>3. FoldOf(s, g) = FoldOf(t, g)
        <3>1. s[x] \in ToSet(s)
            BY DEF ToSet
        <3>2. Added(s, CurrencyKey, One, k) = Added(t, CurrencyKey, One, k)
            BY <3>1 DEF SameAggregates, SameBy
        <3> QED
            BY <1>t, <3>2, CurrencyFold
    <2>4. Weighed(s, g)[x] = 1
        <3>1. s[x] \in Row
            BY Indexes
        <3> QED
            BY <3>1 DEF Weighed, CurrencyWeight, One
    <2> HIDE DEF g
    <2>5. Weights(Weighed(s, g), s, g, DOMAIN s) /\ Weights(Weighed(t, g), t, g, DOMAIN t)
        BY <1>t, <2>0, Indexes DEF Weights, Weighed, Weighs
    <2>6. PICK A, B, v, w, a : /\ A = DOMAIN s /\ B = DOMAIN t /\ a = LastOfId(s)
                               /\ v = Weighed(s, g) /\ w = Weighed(t, g)
        OBVIOUS
    <2>7. a \in SUBSET A /\ B \in SUBSET B /\ x \in A \ a
        BY <1>3, <2>6 DEF LastOfId
    <2>8. /\ IsFiniteSet(A) /\ Adds(f, v, A) /\ Weights(v, s, g, A) /\ Apart(s, a)
          /\ IsFiniteSet(B) /\ Adds(h, w, B) /\ Weights(w, t, g, B) /\ Apart(t, B)
        BY <1>t, <2>1, <2>2, <2>5, <2>6, Indexes, LastOnes
    <2>9. Image(s, a) = Image(t, B)
        BY <1>t, <1>2, <2>6, LastOnes DEF Image, ToSet
    <2>10. f[a] = h[B]
        BY <2>7, <2>8, <2>9, SameTotals
    <2>11. \A y \in A : v[y] \in Nat
        BY <2>8 DEF Weights
    <2>12. f[A] >= f[a] + v[x]
        BY <2>7, <2>8, <2>11, SumBeyond
    <2>13. f[a] \in Nat
        BY <2>7, <2>8, <2>11, AnyLast
    <2>14. f[A] = f[a] /\ v[x] = 1
        BY <2>1, <2>2, <2>3, <2>4, <2>6, <2>10
    <2> QED
        BY <2>12, <2>13, <2>14
<1>4. LastOfId(s) = DOMAIN s
    BY <1>3 DEF LastOfId
<1>5. ToSet(s) = S /\ Apart(s, DOMAIN s)
    BY <1>2, <1>4, LastOnes DEF ToSet, Image
<1>6. DOMAIN s = 1 .. Len(s) /\ Len(s) \in Nat /\ s \in [1 .. Len(s) -> S]
    <2>1. \A i \in DOMAIN s : s[i] \in S
        BY <1>5 DEF ToSet
    <2> QED
        BY <2>1, Indexes
<1>7. s \in Bijection(1 .. Len(s), S)
    BY <1>5, <1>6 DEF Bijection, Injection, Surjection, IsInjective, Apart, ToSet
<1>8. ExistsBijection(1 .. Len(s), S)
    BY <1>7 DEF ExistsBijection
<1> QED
    BY <1>5, <1>6, <1>8, FS_CountingElements

LEMMA FirstNumbers ==
    ASSUME NEW n \in Nat PROVE IsFiniteSet(1 .. n) /\ Cardinality(1 .. n) = n
<1>1. 1 \in Int /\ n \in Int /\ (1 > n => n = 0) /\ (n - 1) + 1 = n
    OBVIOUS
<1> QED
    BY <1>1, FS_Interval

(* A copy, of a worksheet in which a user has one latest row.              *)
LEMMA CopyIsOneToOne ==
    ASSUME NEW s \in Seq(Row), Cardinality(ToSet(s)) = Len(s)
    PROVE  Apart(s, DOMAIN s)
<1>1. PICK n \in Nat : n = Len(s) /\ DOMAIN s = 1 .. n
    BY Indexes
<1>2. IsFiniteSet(1 .. n) /\ Cardinality(1 .. n) = n
    BY FirstNumbers
<1>3. s \in Surjection(1 .. n, ToSet(s))
    <2>1. s \in [1 .. Len(s) -> Row]
        OBVIOUS
    <2>2. s \in [1 .. n -> Row]
        BY <1>1, <2>1
    <2>3. \A i \in 1 .. n : s[i] \in ToSet(s)
        BY <1>1 DEF ToSet
    <2>4. s \in [1 .. n -> ToSet(s)]
        BY <2>2, <2>3
    <2> QED
        BY <1>1, <2>4 DEF Surjection, ToSet
<1>4. s \in Injection(1 .. n, ToSet(s))
    BY <1>1, <1>2, <1>3, FS_SurjSameCardinalityImpliesInj
<1> QED
    BY <1>1, <1>4 DEF Injection, IsInjective, Apart

(* A user who has a row has a latest one; without ties there is no other.  *)
LEMMA LatestIsOne ==
    ASSUME NEW s \in Seq(Row), ~Tied(s), NEW u \in Users(s)
    PROVE  \E i \in DOMAIN s : LatestOf(s, u) = {i}
<1>0. \A i \in DOMAIN s : s[i] \in Row /\ s[i].made \in Nat
    BY Indexes, RowHas
<1>1. PICK Of : Of = {i \in DOMAIN s : Who(s[i]) = u}
    OBVIOUS
<1>2. Of # {} /\ IsFiniteSet(Of)
    <2>1. Of \in SUBSET DOMAIN s /\ IsFiniteSet(DOMAIN s)
        BY <1>1, Indexes
    <2> QED
        BY <1>1, <2>1, FS_Subset DEF Users, ToSet
<1>3. PICK v : v = [i \in Of |-> s[i].made]
    OBVIOUS
<1>4. \A i \in Of : v[i] \in Nat /\ v[i] = s[i].made
    BY <1>0, <1>1, <1>3
<1>5. PICK i \in Of : \A j \in Of : v[j] <= v[i]
    BY <1>2, <1>4, Largest
<1>6. i \in LatestOf(s, u)
    BY <1>1, <1>4, <1>5 DEF LatestOf, ToSet
<1>7. i \in DOMAIN s /\ Who(s[i]) = u /\ \A e \in ToSet(s) : Who(e) = u => e.made <= s[i].made
    BY <1>6 DEF LatestOf
<1>8. ASSUME NEW j \in LatestOf(s, u) PROVE j = i
    <2>1. j \in DOMAIN s /\ Who(s[j]) = u /\ \A e \in ToSet(s) : Who(e) = u => e.made <= s[j].made
        BY DEF LatestOf
    <2>2. s[i].made <= s[j].made /\ s[j].made <= s[i].made
        BY <1>7, <2>1 DEF ToSet
    <2>3. s[i].made = s[j].made
        BY <1>0, <1>7, <2>1, <2>2
    <2> QED
        BY <1>7, <2>1, <2>3 DEF Tied
<1> QED
    BY <1>6, <1>7, <1>8

(* A report that fails says so of a copy only if there is a tie.           *)
LEMMA CopyIsAccepted ==
    ASSUME NEW s \in Seq(Row), NEW S, S \subseteq Row, OneIdEach(S), NEW t, IsListOf(t, S),
           S = ToSet(s), Cardinality(S) = Len(s), ~Tied(s)
    PROVE  /\ SameRows(s, t) /\ SameAggregates(s, t)
           /\ \A u \in Users(s) : TargetLatest(t, u) = {SourceLatest(s, u)}
<1>1. t \in Seq(Row) /\ Apart(t, DOMAIN t) /\ ToSet(t) = S
    BY DEF IsListOf
<1>2. Apart(s, DOMAIN s)
    BY CopyIsOneToOne
<1>3. SameAggregates(s, t)
    BY <1>1, <1>2, SameAggregatesIfCopied
<1>4. SameRows(s, t)
    <2>1. \A e \in Standing(s), p \in Standing(t) : e \in S /\ p \in S
        BY <1>1 DEF Standing, ToSet
    <2> QED
        BY <1>1, <2>1 DEF SameRows, Equivalent, OneIdEach
<1>5. ASSUME NEW u \in Users(s) PROVE TargetLatest(t, u) = {SourceLatest(s, u)}
    <2>1. PICK i \in DOMAIN s : LatestOf(s, u) = {i}
        BY LatestIsOne
    <2>2. SourceLatest(s, u) = s[i].id
        <3>1. Min({i}) = i
            BY Indexes DEF Min
        <3> QED
            BY <2>1, <3>1 DEF SourceLatest
    <2>3. PICK j \in DOMAIN t : t[j] = s[i]
        BY <1>1 DEF ToSet
    <2>4. ASSUME NEW k \in LatestOf(t, u) PROVE k = j
        <3>1. /\ k \in DOMAIN t /\ Who(t[k]) = u
              /\ \A e \in ToSet(t) : Who(e) = u => e.made <= t[k].made
            BY DEF LatestOf
        <3>2. PICK l \in DOMAIN s : s[l] = t[k]
            BY <1>1, <3>1 DEF ToSet
        <3>3. l \in LatestOf(s, u)
            BY <1>1, <3>1, <3>2 DEF LatestOf
        <3>4. t[k] = t[j]
            BY <2>1, <2>3, <3>2, <3>3
        <3> QED
            BY <1>1, <3>1, <3>4 DEF Apart
    <2>5. j \in LatestOf(t, u)
        <3>1. i \in LatestOf(s, u)
            BY <2>1
        <3> QED
            BY <1>1, <2>3, <3>1 DEF LatestOf
    <2>6. LatestOf(t, u) = {j} /\ t[j].is.month \in Nat
        BY <1>1, <2>4, <2>5, Indexes, RowHas
    <2>7. TargetLatest(t, u) = {t[j].id}
        BY <2>6 DEF TargetLatest
    <2> QED
        BY <2>2, <2>3, <2>7
<1> QED
    BY <1>3, <1>4, <1>5

(* What the verification holds is the worksheet, as long as nobody writes. *)
ReportInv == IsFiniteSet(pg) /\ (vpc = "half" /\ calm => read = sheet)

LEMMA PgStaysFinite == IsFiniteSet(pg) /\ [Next]_vars => IsFiniteSet(pg')
<1> SUFFICES ASSUME IsFiniteSet(pg), [Next]_vars PROVE IsFiniteSet(pg')
    OBVIOUS
<1>0. \A e : Insert(e) => IsFiniteSet(pg')
    BY FS_AddElement DEF Insert
<1>1. CASE \E m \in Message, c \in Said : BotAppend(m, c)
    <2>1. pg' = pg \/ \E e : Insert(e)
        BY <1>1 DEF BotAppend
    <2> QED
        BY <1>0, <2>1
<1>2. CASE \E m \in Message, c \in Said : BotUpdate(UserOf[m], c)
    <2>1. pg' = pg \/ \E p, q : pg' = (pg \ {p}) \cup {q}
        BY <1>2 DEF BotUpdate
    <2>2. ASSUME NEW p, NEW q PROVE IsFiniteSet((pg \ {p}) \cup {q})
        <3>1. IsFiniteSet(pg \ {p})
            BY FS_RemoveElement
        <3> QED
            BY <3>1, FS_AddElement
    <2>3. CASE pg' = pg
        BY <2>3
    <2>4. ASSUME NEW p, NEW q, pg' = (pg \ {p}) \cup {q} PROVE IsFiniteSet(pg')
        BY <2>2, <2>4
    <2> QED
        BY <2>1, <2>3, <2>4
<1>3. CASE \E r \in Runner : Import(r)
    <2>1. \E e : Insert(e)
        BY <1>3 DEF Import
    <2> QED
        BY <1>0, <2>1
<1>4. CASE UNCHANGED pg
    BY <1>4
<1> QED
    BY <1>1, <1>2, <1>3, <1>4
    DEF Next, vars, ledgerVars, Switch, Repair, LoadSheet, Plan, RunDies, LoadSource, Compare

(* Only Compare ends a verification; until then its reading stays, and who *)
(* writes a ledger ends the calm.                                          *)
LEMMA ReadingKept ==
    ASSUME [Next]_vars, vpc = "half"
    PROVE  \/ Compare
           \/ vpc' = "half" /\ read' = read /\ (calm' => calm /\ sheet' = sheet)
<1>1. CASE \E m \in Message, c \in Said : BotAppend(m, c)
    BY <1>1 DEF BotAppend, Writing, verifyVars
<1>2. CASE \E m \in Message, c \in Said : BotUpdate(UserOf[m], c)
    BY <1>2 DEF BotUpdate, Writing, verifyVars
<1>3. CASE Repair
    BY <1>3 DEF Repair, Writing, verifyVars
<1>4. CASE \E r \in Runner : Import(r)
    BY <1>4 DEF Import, Writing, verifyVars
<1>5. CASE Compare
    BY <1>5
<1>6. CASE UNCHANGED <<verifyVars, sheet, calm>>
    BY <1>6 DEF verifyVars
<1> QED
    BY <1>1, <1>2, <1>3, <1>4, <1>5, <1>6
    DEF Next, vars, ledgerVars, verifyVars, Switch, LoadSheet, Plan, RunDies, LoadSource

LEMMA ReportStep == ReportInv /\ [Next]_vars => ReportInv'
<1> SUFFICES ASSUME ReportInv, [Next]_vars PROVE ReportInv'
    OBVIOUS
<1>1. IsFiniteSet(pg')
    BY PgStaysFinite DEF ReportInv
<1>2. ASSUME vpc' = "half", calm' PROVE read' = sheet'
    <2>1. CASE vpc = "half"
        BY <1>2, <2>1, ReadingKept DEF ReportInv, Compare
    <2>2. CASE vpc # "half"
        <3>1. LoadSource
            BY <1>2, <2>2
            DEF Next, vars, verifyVars, BotAppend, BotUpdate, Switch, Repair, LoadSheet,
                Plan, Import, RunDies, Compare
        <3> QED
            BY <3>1 DEF LoadSource, ledgerVars
    <2> QED
        BY <2>1, <2>2
<1> QED
    BY <1>1, <1>2 DEF ReportInv

LEMMA ReportIsTrue ==
    ASSUME BackfillInv, ReportInv, Compare, vpc = "half", calm
    PROVE  /\ vpc' = "passed" => Copied
           /\ vpc' = "failed" => ~Copied \/ Tied(sheet)
<1>1. /\ sheet \in Seq(Row) /\ pg \subseteq Row /\ IsFiniteSet(pg) /\ OneIdEach(pg)
      /\ read = sheet
    BY DEF BackfillInv, BackfillTypeOK, OneRowPerMessage, ReportInv, OneIdEach
<1>2. PICK t : t = SetToSeq(pg)
    OBVIOUS
<1>3. IsListOf(t, pg)
    BY <1>1, <1>2, ListOf
<1>4. /\ vpc' = "passed" => SameRows(sheet, t) /\ SameAggregates(sheet, t)
      /\ vpc' = "failed" =>
            ~(/\ SameRows(sheet, t) /\ SameAggregates(sheet, t)
              /\ \A u \in Users(sheet) : TargetLatest(t, u) = {SourceLatest(sheet, u)})
    BY <1>1, <1>2 DEF Compare
<1>5. ASSUME vpc' = "passed" PROVE Copied
    <2>1. SameRows(sheet, t) /\ SameAggregates(sheet, t)
        BY <1>4, <1>5
    <2> QED
        BY <1>1, <1>3, <2>1, PassedIsCopied DEF Copied
<1>6. ASSUME vpc' = "failed", Copied, ~Tied(sheet) PROVE FALSE
    <2>1. pg = ToSet(sheet) /\ Cardinality(pg) = Len(sheet)
        BY <1>6 DEF Copied
    <2>2. /\ SameRows(sheet, t) /\ SameAggregates(sheet, t)
          /\ \A u \in Users(sheet) : TargetLatest(t, u) = {SourceLatest(sheet, u)}
        BY <1>1, <1>3, <1>6, <2>1, CopyIsAccepted
    <2> QED
        BY <1>4, <1>6, <2>2
<1> QED
    BY <1>5, <1>6

(* A verification that nobody disturbs tells the truth: if it passes, the  *)
(* worksheet and PostgreSQL hold the same rows, each once, though it only  *)
(* compares ids, rows by id and sums; if it fails, they do not, or a user  *)
(* has two latest rows.                                                    *)
THEOREM ReportsAreTrue == Spec => VerifiedMeansCopied
<1> DEFINE Report == vpc = "half" /\ calm =>
                         /\ vpc' = "passed" => Copied
                         /\ vpc' = "failed" => ~Copied \/ Tied(sheet)
<1>1. Init => ReportInv
    BY FS_EmptySet DEF Init, ReportInv
<1>2. ReportInv /\ [Next]_vars => ReportInv'
    BY ReportStep
<1>3. BackfillInv /\ ReportInv /\ [Next]_vars => [Report]_vars
    <2> SUFFICES ASSUME BackfillInv, ReportInv, [Next]_vars PROVE Report
        OBVIOUS
    <2>1. CASE vpc = "half" /\ calm
        <3>1. CASE Compare
            BY <2>1, <3>1, ReportIsTrue
        <3>2. CASE ~Compare
            <4>1. vpc' = "half"
                BY <2>1, <3>2, ReadingKept
            <4> QED
                BY <4>1
        <3> QED
            BY <3>1, <3>2
    <2>2. CASE ~(vpc = "half" /\ calm)
        BY <2>2
    <2> QED
        BY <2>1, <2>2
<1> QED
    BY <1>1, <1>2, <1>3, BackfillAlways, PTL DEF Spec, VerifiedMeansCopied

=============================================================================
