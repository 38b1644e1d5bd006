-------------------------- MODULE SheetExportProofs --------------------------
(***************************************************************************)
(* Theorems about the projection into Google Sheets, for any number of     *)
(* users, transactions, spreadsheets, failures and changes of exports.     *)
(*                                                                         *)
(* Types and ownership of rows hold for any number of runs at once.  One   *)
(* row per transaction, rows that never go back, and the reasons for which *)
(* an event can be left behind the cursor, need runs one after the other,  *)
(* as the job schedules them; writes may commit in any order and exports   *)
(* may be changed at any time.                                             *)
(***************************************************************************)
EXTENDS SheetExport, Sums, SequenceTheorems

USE ExportAssumption

(* Where a run is, it has what its next step needs.                        *)
RunReady(r) ==
    /\ IF pc[r] = "idle" THEN DOMAIN todo[r] = {} ELSE DOMAIN todo[r] # {}
    /\ pc[r] \in {"find", "write"} => queue[r] # {}
    /\ pc[r] = "write" => row[r] \in {0} \cup DOMAIN sheet[Target(r)]

Typed ==
    /\ ExportTypeOK
    /\ DOMAIN todo = Runner
    /\ \A r \in Runner : RunReady(r)

(* Everything a run handles belongs to the user it serves, with content    *)
(* that was committed; between two users it has nothing in hand.           *)
Committed(t, ver) == ver \in 1 .. ledger[t]

OwnRun(r) ==
    /\ \A u \in DOMAIN todo[r] : Holder[todo[r][u].sheet] = u
    /\ \A e \in queue[r] : Owner[e.tx] = Current(r) /\ Committed(e.tx, e.ver)
    /\ pc[r] \in {"idle", "list"} => queue[r] = {}

Own ==
    /\ \A u \in User : Holder[config[u].sheet] = u
    /\ \A e \in events : Committed(e.tx, e.ver)
    /\ \A r \in Runner : OwnRun(r)

-----------------------------------------------------------------------------
(* What is chosen *)

LEMMA CurrentUser ==
    ASSUME Typed, NEW r \in Runner, DOMAIN todo[r] # {}
    PROVE  Current(r) \in DOMAIN todo[r] /\ Current(r) \in User
<1>1. DOMAIN todo[r] \subseteq User
    BY DEF Typed, ExportTypeOK
<1>2. \E u \in DOMAIN todo[r] : \A v \in DOMAIN todo[r] : u <= v
    BY <1>1, Smallest
<1>3. Current(r) \in DOMAIN todo[r]
    BY <1>2 DEF Current, First
<1> QED
    BY <1>1, <1>3

LEMMA HeadEvent ==
    ASSUME Typed, NEW r \in Runner, queue[r] # {}
    PROVE  /\ Head1(r) \in queue[r] /\ Head1(r) \in Entry
           /\ \A e \in queue[r] : Head1(r).at <= e.at
<1>1. queue[r] \subseteq Entry
    BY DEF Typed, ExportTypeOK
<1> DEFINE S == {e.at : e \in queue[r]}
<1>2. S \subseteq Nat /\ S # {}
    BY <1>1 DEF Entry
<1>3. PICK n \in S : \A y \in S : n <= y
    BY <1>2, Smallest
<1>4. \E e \in queue[r] : \A f \in queue[r] : e.at <= f.at
    BY <1>3
<1>5. Head1(r) \in queue[r] /\ \A f \in queue[r] : Head1(r).at <= f.at
    BY <1>4 DEF Head1, First
<1> QED
    BY <1>1, <1>5

LEMMA TargetSheet ==
    ASSUME Typed, NEW r \in Runner, pc[r] # "idle"
    PROVE  /\ Current(r) \in DOMAIN todo[r] /\ Current(r) \in User
           /\ todo[r][Current(r)] \in ConfigRow /\ Target(r) \in Sheet
<1>1. Current(r) \in DOMAIN todo[r] /\ Current(r) \in User
    BY CurrentUser DEF Typed, RunReady
<1>2. todo[r][Current(r)] \in ConfigRow
    BY <1>1 DEF Typed, ExportTypeOK
<1> QED
    BY <1>1, <1>2 DEF Target, ConfigRow

(* get_values finds the row of the transaction, or there is none.          *)
LEMMA RowFound ==
    ASSUME Typed, NEW s \in Sheet, NEW t
    PROVE  \/ RowOf(s, t) = 0 /\ \A i \in DOMAIN sheet[s] : sheet[s][i].tx # t
           \/ RowOf(s, t) \in DOMAIN sheet[s] /\ sheet[s][RowOf(s, t)].tx = t
<1> DEFINE rows == {i \in DOMAIN sheet[s] : sheet[s][i].tx = t}
<1>1. sheet[s] \in Seq([tx : Tx, ver : Nat])
    BY DEF Typed, ExportTypeOK
<1>2. rows \subseteq Nat
    BY <1>1, LenProperties
<1>3. CASE rows = {}
    BY <1>3 DEF RowOf
<1>4. CASE rows # {}
  <2>1. \E i \in rows : \A j \in rows : i <= j
      BY <1>2, <1>4, Smallest
  <2>2. RowOf(s, t) \in rows
      BY <1>4, <2>1 DEF RowOf, First
  <2> QED
      BY <2>2
<1> QED
    BY <1>3, <1>4

(* A function with no argument is the empty sequence.                      *)
LEMMA NothingLeft ==
    ASSUME NEW D, NEW f, f = [x \in DOMAIN f |-> f[x]]
    PROVE  f = <<>> <=> DOMAIN f = {}
OBVIOUS

-----------------------------------------------------------------------------
(* Types *)

SheetRow == [tx : Tx, ver : Nat]

(* A write puts one row into one sheet, at the place found or at the end.  *)
PutRow(s, k, new) ==
    /\ \A x \in Sheet \ {s} : sheet'[x] = sheet[x]
    /\ DOMAIN sheet'[s] = DOMAIN sheet[s] \cup {k}
    /\ \A i \in DOMAIN sheet[s] : i # k => sheet'[s][i] = sheet[s][i]
    /\ sheet'[s][k] = new

LEMMA PutWrites ==
    ASSUME Typed, NEW r \in Runner, pc[r] = "write", Put(r),
           NEW s, s = Target(r), NEW e, e = Head1(r), NEW n, n = row[r]
    PROVE  /\ s \in Sheet /\ e \in queue[r] /\ e \in Entry
           /\ sheet' \in [Sheet -> Seq(SheetRow)]
           /\ \E k : /\ PutRow(s, k, [tx |-> e.tx, ver |-> e.ver])
                     /\ n = 0 => k \notin DOMAIN sheet[s]
                     /\ n # 0 => k = n
<1> DEFINE new == [tx |-> e.tx, ver |-> e.ver]
<1>1. s \in Sheet /\ e \in queue[r] /\ e \in Entry
      /\ n \in {0} \cup DOMAIN sheet[s]
    BY TargetSheet, HeadEvent DEF Typed, RunReady
<1>2. new \in SheetRow
    BY <1>1 DEF Entry, SheetRow
<1>3. sheet \in [Sheet -> Seq(SheetRow)]
    BY DEF Typed, ExportTypeOK, SheetRow
<1>4. sheet' = [sheet EXCEPT ![s] = IF n = 0 THEN Append(@, new)
                                    ELSE [@ EXCEPT ![n] = new]]
    BY DEF Put
<1> HIDE DEF new
<1>5. sheet[s] \in Seq(SheetRow)
    BY <1>1, <1>3
<1>6. DOMAIN sheet[s] = 1 .. Len(sheet[s]) /\ Len(sheet[s]) \in Nat
    BY <1>5, LenProperties
<1>7. CASE n = 0
  <2>1. sheet'[s] = Append(sheet[s], new)
      BY <1>1, <1>3, <1>4, <1>7
  <2>2. /\ Append(sheet[s], new) \in Seq(SheetRow)
        /\ DOMAIN Append(sheet[s], new) = DOMAIN sheet[s] \cup {Len(sheet[s]) + 1}
        /\ \A i \in DOMAIN sheet[s] : Append(sheet[s], new)[i] = sheet[s][i]
        /\ Append(sheet[s], new)[Len(sheet[s]) + 1] = new
        /\ Len(sheet[s]) + 1 \notin DOMAIN sheet[s]
      BY <1>2, <1>5, <1>6
  <2>3. sheet' \in [Sheet -> Seq(SheetRow)] /\ \A x \in Sheet \ {s} : sheet'[x] = sheet[x]
      BY <1>1, <1>3, <1>4, <1>7, <2>2
  <2>4. PutRow(s, Len(sheet[s]) + 1, new)
      BY <2>1, <2>2, <2>3 DEF PutRow
  <2> QED
      BY <1>1, <1>7, <2>2, <2>3, <2>4 DEF new
<1>8. CASE n # 0
  <2>1. sheet'[s] = [sheet[s] EXCEPT ![n] = new] /\ n \in 1 .. Len(sheet[s])
      BY <1>1, <1>3, <1>4, <1>6, <1>8
  <2>2. /\ [sheet[s] EXCEPT ![n] = new] \in Seq(SheetRow)
        /\ DOMAIN [sheet[s] EXCEPT ![n] = new] = DOMAIN sheet[s] \cup {n}
        /\ \A i \in DOMAIN sheet[s] : i # n => [sheet[s] EXCEPT ![n] = new][i] = sheet[s][i]
        /\ [sheet[s] EXCEPT ![n] = new][n] = new
      BY <1>2, <1>5, <1>6, <2>1, ExceptSeq
  <2>3. sheet' \in [Sheet -> Seq(SheetRow)] /\ \A x \in Sheet \ {s} : sheet'[x] = sheet[x]
      BY <1>1, <1>3, <1>4, <1>8, <2>2
  <2>4. PutRow(s, n, new)
      BY <2>1, <2>2, <2>3 DEF PutRow
  <2> QED
      BY <1>1, <1>8, <2>3, <2>4 DEF new
<1> QED
    BY <1>7, <1>8

(* What a run has in hand.                                                 *)
Tables ==
    /\ pc \in [Runner -> {"idle", "list", "find", "write", "mark", "failed"}]
    /\ DOMAIN todo = Runner
    /\ \A r \in Runner :
        DOMAIN todo[r] \subseteq User /\ \A u \in DOMAIN todo[r] : todo[r][u] \in ConfigRow
    /\ queue \in [Runner -> SUBSET Entry]
    /\ last \in [Runner -> Nat]
    /\ row \in [Runner -> Nat]

Others(r) ==
    \A q \in Runner \ {r} :
        /\ pc'[q] = pc[q] /\ todo'[q] = todo[q] /\ queue'[q] = queue[q]
        /\ last'[q] = last[q] /\ row'[q] = row[q]

SheetsGrow == \A s \in Sheet : DOMAIN sheet[s] \subseteq DOMAIN sheet'[s]

(* Two runs that have read the same rows serve the same user.              *)
LEMMA SameRun ==
    ASSUME NEW r, todo'[r] = todo[r]
    PROVE  Current(r)' = Current(r) /\ Target(r)' = Target(r)
BY DEF Current, First, Target

LEMMA ReadyOthers ==
    ASSUME Typed, NEW r \in Runner, Others(r), SheetsGrow
    PROVE  \A q \in Runner \ {r} : RunReady(q)'
<1> SUFFICES ASSUME NEW q \in Runner \ {r} PROVE RunReady(q)'
    OBVIOUS
<1>1. /\ pc'[q] = pc[q] /\ todo'[q] = todo[q] /\ queue'[q] = queue[q] /\ row'[q] = row[q]
      /\ RunReady(q)
    BY DEF Others, Typed
<1>2. Target(q)' = Target(q)
    BY <1>1, SameRun
<1>3. pc[q] = "write" => DOMAIN sheet[Target(q)] \subseteq DOMAIN sheet'[Target(q)]
    BY TargetSheet DEF SheetsGrow
<1> QED
    BY <1>1, <1>2, <1>3 DEF RunReady

(* A run leaves a user, or ends.                                           *)
LEMMA LeaveTyped ==
    ASSUME Typed, NEW r \in Runner, NEW rows, rows = [u \in DOMAIN rows |-> rows[u]],
           DOMAIN rows \subseteq User, \A u \in DOMAIN rows : rows[u] \in ConfigRow,
           Leave(r, rows)
    PROVE  Tables' /\ Others(r) /\ RunReady(r)'
<1>1. /\ pc \in [Runner -> {"idle", "list", "find", "write", "mark", "failed"}]
      /\ DOMAIN todo = Runner
      /\ \A q \in Runner :
          DOMAIN todo[q] \subseteq User /\ \A u \in DOMAIN todo[q] : todo[q][u] \in ConfigRow
      /\ queue \in [Runner -> SUBSET Entry]
      /\ last \in [Runner -> Nat]
      /\ row \in [Runner -> Nat]
    BY DEF Typed, ExportTypeOK
<1>2. /\ todo' = [todo EXCEPT ![r] = rows]
      /\ queue' = [queue EXCEPT ![r] = {}]
      /\ last' = [last EXCEPT ![r] = 0]
      /\ row' = [row EXCEPT ![r] = 0]
      /\ pc' = [pc EXCEPT ![r] = IF rows = <<>> THEN "idle" ELSE "list"]
    BY DEF Leave, Goto
<1>3. Tables' /\ Others(r)
    BY <1>1, <1>2 DEF Tables, Others
<1>4. rows = <<>> <=> DOMAIN rows = {}
    BY NothingLeft
<1> QED
    BY <1>1, <1>2, <1>3, <1>4 DEF RunReady

LEMMA TypedInit == Init => Typed
<1> SUFFICES ASSUME Init PROVE Typed
    OBVIOUS
<1>1. PICK home \in [User -> Sheet] : config = [u \in User |-> NewExport(home[u])]
    BY DEF Init
<1>2. config \in [User -> ConfigRow]
    BY <1>1 DEF NewExport, ConfigRow
<1>3. sheet \in [Sheet -> Seq([tx : Tx, ver : Nat])]
    BY EmptySeq DEF Init
<1>4. DOMAIN <<>> = {}
    OBVIOUS
<1> QED
    BY <1>2, <1>3, <1>4 DEF Init, Typed, ExportTypeOK, RunReady

(* The stores a run shares with the rest of the world.                     *)
Stores ==
    /\ ledger \in [Tx -> Nat] /\ events \subseteq Entry
    /\ open \subseteq [tx : Tx, at : Nat] /\ clock \in Nat
    /\ config \in [User -> ConfigRow]
    /\ sheet \in [Sheet -> Seq(SheetRow)]
    /\ failures \in Nat /\ reconfigs \in Nat

HistoryTyped == overtaken \subseteq Nat /\ moved \subseteq User

LEMMA TypedIs ==
    Typed <=> Stores /\ HistoryTyped /\ Tables /\ \A r \in Runner : RunReady(r)
BY DEF Typed, ExportTypeOK, Stores, HistoryTyped, Tables, SheetRow

LEMMA TypedNext ==
    ASSUME Stores', HistoryTyped', Tables', \A r \in Runner : RunReady(r)'
    PROVE  Typed'
BY DEF Typed, ExportTypeOK, Stores, HistoryTyped, Tables, SheetRow

(* Only commits and moves are noted.                                       *)
LEMMA HistoryStep ==
    ASSUME Typed, [Next]_vars
    PROVE  HistoryTyped'
<1>1. HistoryTyped /\ \A o \in open : o.at \in Nat
    BY DEF Typed, ExportTypeOK, HistoryTyped
<1>2. ASSUME NEW o \in open, CommitWrite(o) PROVE HistoryTyped'
    BY <1>1, <1>2 DEF CommitWrite, HistoryTyped
<1>3. ASSUME NEW u \in User, NEW s, NEW on, Reconfigure(u, s, on) PROVE HistoryTyped'
  <2>1. NoteMove(u, s)
      BY <1>3 DEF Reconfigure
  <2> QED
      BY <1>1, <2>1 DEF NoteMove, history, HistoryTyped
<1>4. \/ UNCHANGED history
      \/ \E o \in open : CommitWrite(o)
      \/ \E u \in User, s \in Sheet, on \in BOOLEAN : Reconfigure(u, s, on)
    BY DEF Next, vars, history, Stamp, RollBack, RunnerStep, Start,
           ListPending, FindRow, WriteRow, MarkSynced, MarkFailed, HeaderRefused,
           CallFails, WriteLost, RunDies
<1> QED
    BY <1>1, <1>2, <1>3, <1>4 DEF history, HistoryTyped

LEMMA FailureCounts == Stores /\ Failure => failures' \in Nat
BY DEF Stores, Failure

(* The events list_pending_events gives, with the transactions as they are.*)
LEMMA PendingType ==
    ASSUME Stores, NEW u, NEW cursor
    PROVE  Pending(u, cursor) \subseteq Entry
<1>1. \A e \in FirstN(After(u, cursor)) : e \in Entry
    BY DEF Stores, FirstN, After
<1>2. \A e \in FirstN(After(u, cursor)) :
          [tx |-> e.tx, at |-> e.at, ver |-> ledger[e.tx]] \in Entry
    BY <1>1 DEF Stores, Entry
<1> QED
    BY <1>2 DEF Pending

LEMMA LedgerTyped ==
    ASSUME Typed,
           \/ \E t \in Tx : Stamp(t)
           \/ \E o \in open : CommitWrite(o) \/ RollBack(o)
           \/ \E u \in User, s \in Sheet, on \in BOOLEAN : Reconfigure(u, s, on)
    PROVE  Stores' /\ UNCHANGED <<sheet, pc, runVars>>
<1>1. Stores
    BY TypedIs
<1>2. ASSUME NEW t \in Tx, Stamp(t) PROVE Stores'
  <2>1. clock + 1 \in Nat
      BY <1>1 DEF Stores
  <2>2. [tx |-> t, at |-> clock + 1] \in [tx : Tx, at : Nat]
      BY <2>1
  <2> QED
      BY <1>1, <1>2, <2>1, <2>2 DEF Stamp, Stores
<1>3. ASSUME NEW o \in open, CommitWrite(o) PROVE Stores'
  <2>1. o.tx \in Tx /\ o.at \in Nat /\ ledger[o.tx] + 1 \in Nat
      BY <1>1 DEF Stores
  <2>2. [tx |-> o.tx, at |-> o.at, ver |-> ledger[o.tx] + 1] \in Entry
      BY <2>1 DEF Entry
  <2> QED
      BY <1>1, <1>3, <2>1, <2>2 DEF CommitWrite, Stores
<1>4. ASSUME NEW o \in open, RollBack(o) PROVE Stores'
    BY <1>1, <1>4 DEF RollBack, Stores
<1>5. ASSUME NEW u \in User, NEW s \in Sheet, NEW on \in BOOLEAN, Reconfigure(u, s, on)
      PROVE  Stores'
  <2>1. config[u] \in ConfigRow
      BY <1>1 DEF Stores
  <2>2. CursorAfter(config[u], s) \in Nat
      BY <2>1 DEF CursorAfter, ConfigRow
  <2>3. [sheet |-> s, enabled |-> on, cursor |-> CursorAfter(config[u], s),
         failing |-> FALSE] \in ConfigRow
      BY <2>2 DEF ConfigRow
  <2>4. reconfigs' \in Nat
      BY <1>1, <1>5 DEF Reconfigure, Stores
  <2> QED
      BY <1>1, <1>5, <2>3, <2>4 DEF Reconfigure, Stores, ledgerVars
<1>6. UNCHANGED <<sheet, pc, runVars>>
    BY DEF Stamp, CommitWrite, RollBack, Reconfigure
<1> QED
    BY <1>2, <1>3, <1>4, <1>5, <1>6

(* The rows a run reads, and those left when it is through with a user.    *)
LEMMA RowsLeft ==
    ASSUME Typed, NEW r \in Runner, pc[r] # "idle",
           NEW rows, rows = [v \in DOMAIN todo[r] \ {Current(r)} |-> todo[r][v]]
    PROVE  /\ rows = [u \in DOMAIN rows |-> rows[u]] /\ DOMAIN rows \subseteq User
           /\ \A u \in DOMAIN rows : rows[u] \in ConfigRow /\ rows[u] = todo[r][u]
           /\ DOMAIN rows = DOMAIN todo[r] \ {Current(r)}
BY DEF Typed, ExportTypeOK

(* mark_synced and mark_failed write the row of the user that was served.  *)
LEMMA MarkTyped ==
    ASSUME Typed, NEW r \in Runner, MarkSynced(r) \/ MarkFailed(r)
    PROVE  config' \in [User -> ConfigRow] /\ pc[r] # "idle" /\ Advance(r)
           /\ UNCHANGED <<ledgerVars, sheet, failures, reconfigs>>
<1>1. pc[r] # "idle" /\ Advance(r) /\ UNCHANGED <<ledgerVars, sheet, failures, reconfigs>>
    BY DEF MarkSynced, MarkFailed
<1>2. Current(r) \in User /\ config \in [User -> ConfigRow] /\ last[r] \in Nat
    BY <1>1, TargetSheet DEF Typed, ExportTypeOK
<1>3. config[Current(r)] \in ConfigRow
    BY <1>2
<1>4. StoreCursor(config[Current(r)], last[r]) \in ConfigRow
      /\ [config[Current(r)] EXCEPT !.failing = TRUE] \in ConfigRow
    BY <1>2, <1>3 DEF StoreCursor, ConfigRow
<1>5. \/ config' = [config EXCEPT ![Current(r)] = StoreCursor(config[Current(r)], last[r])]
      \/ config' = [config EXCEPT ![Current(r)] =
                                   [config[Current(r)] EXCEPT !.failing = TRUE]]
    BY <1>2 DEF MarkSynced, MarkFailed
<1>6. PICK c \in ConfigRow : config' = [config EXCEPT ![Current(r)] = c]
    BY <1>4, <1>5
<1> QED
    BY <1>1, <1>2, <1>6

LEMMA TypedRun ==
    ASSUME Typed, NEW r \in Runner,
           RunnerStep(r) \/ CallFails(r) \/ WriteLost(r) \/ RunDies(r)
    PROVE  Stores' /\ Tables' /\ Others(r) /\ SheetsGrow /\ RunReady(r)'
<1>1. Stores /\ Tables /\ RunReady(r)
    BY TypedIs
<1>2. ASSUME Start(r) PROVE Stores' /\ Tables' /\ Others(r) /\ SheetsGrow /\ RunReady(r)'
  <2> DEFINE rows == [u \in {v \in User : config[v].enabled} |-> config[u]]
  <2>1. /\ todo' = [todo EXCEPT ![r] = rows]
        /\ pc' = [pc EXCEPT ![r] = IF rows = <<>> THEN "idle" ELSE "list"]
        /\ UNCHANGED <<ledgerVars, config, sheet, queue, last, row, failures, reconfigs>>
      BY <1>2 DEF Start, Goto
  <2>2. /\ rows = [u \in DOMAIN rows |-> rows[u]] /\ DOMAIN rows \subseteq User
        /\ \A u \in DOMAIN rows : rows[u] \in ConfigRow
      BY <1>1 DEF Stores
  <2> HIDE DEF rows
  <2>3. rows = <<>> <=> DOMAIN rows = {}
      BY <2>2, NothingLeft
  <2>4. Tables' /\ Others(r)
      BY <1>1, <2>1, <2>2 DEF Tables, Others
  <2>5. RunReady(r)'
      BY <1>1, <2>1, <2>3 DEF RunReady, Tables
  <2>6. Stores' /\ SheetsGrow
      BY <1>1, <2>1 DEF Stores, SheetsGrow, ledgerVars
  <2> QED
      BY <2>4, <2>5, <2>6
<1>3. ASSUME ListPending(r)
      PROVE  Stores' /\ Tables' /\ Others(r) /\ SheetsGrow /\ RunReady(r)'
  <2>1. PICK found, cursor :
            /\ found = Pending(Current(r), cursor) /\ cursor = todo[r][Current(r)].cursor
            /\ queue' = [queue EXCEPT ![r] = found]
            /\ last' = [last EXCEPT ![r] = cursor]
            /\ pc' = [pc EXCEPT ![r] = IF found = {} THEN "mark" ELSE "find"]
      BY <1>3 DEF ListPending, Goto
  <2>2. pc[r] = "list" /\ UNCHANGED <<ledgerVars, config, sheet, todo, row, failures, reconfigs>>
      BY <1>3 DEF ListPending
  <2>3. found \subseteq Entry
      BY <1>1, <2>1, PendingType
  <2>4. cursor \in Nat
      BY <2>1, <2>2, TargetSheet DEF ConfigRow
  <2>5. Tables' /\ Others(r)
      BY <1>1, <2>1, <2>2, <2>3, <2>4 DEF Tables, Others
  <2>6. RunReady(r)'
      BY <1>1, <2>1, <2>2 DEF RunReady, Tables
  <2>7. Stores' /\ SheetsGrow
      BY <1>1, <2>2 DEF Stores, SheetsGrow, ledgerVars
  <2> QED
      BY <2>5, <2>6, <2>7
<1>4. ASSUME FindRow(r)
      PROVE  Stores' /\ Tables' /\ Others(r) /\ SheetsGrow /\ RunReady(r)'
  <2>1. /\ pc[r] = "find"
        /\ row' = [row EXCEPT ![r] = RowOf(Target(r), Head1(r).tx)]
        /\ pc' = [pc EXCEPT ![r] = "write"]
        /\ UNCHANGED <<ledgerVars, config, sheet, todo, queue, last, failures, reconfigs>>
      BY <1>4 DEF FindRow, Goto
  <2>2. Target(r) \in Sheet
      BY <2>1, TargetSheet
  <2>3. RowOf(Target(r), Head1(r).tx) \in {0} \cup DOMAIN sheet[Target(r)]
      BY <2>2, RowFound
  <2>4. DOMAIN sheet[Target(r)] \subseteq Nat
    <3>1. sheet[Target(r)] \in Seq(SheetRow)
        BY <1>1, <2>2 DEF Stores
    <3> QED
        BY <3>1, LenProperties
  <2>5. Tables' /\ Others(r)
      BY <1>1, <2>1, <2>3, <2>4 DEF Tables, Others
  <2>6. Target(r)' = Target(r)
      BY <2>1, SameRun
  <2>7. RunReady(r)'
      BY <1>1, <2>1, <2>3, <2>6 DEF RunReady, Tables
  <2>8. Stores' /\ SheetsGrow
      BY <1>1, <2>1 DEF Stores, SheetsGrow, ledgerVars
  <2> QED
      BY <2>5, <2>7, <2>8
<1>5. ASSUME pc[r] = "write", Put(r)
      PROVE  sheet' \in [Sheet -> Seq(SheetRow)] /\ SheetsGrow /\ Head1(r) \in Entry
  <2>1. PICK s, e, n : s = Target(r) /\ e = Head1(r) /\ n = row[r]
      OBVIOUS
  <2>2. /\ sheet' \in [Sheet -> Seq(SheetRow)] /\ e \in Entry
        /\ \E k : PutRow(s, k, [tx |-> e.tx, ver |-> e.ver])
      BY <1>5, <2>1, PutWrites
  <2>3. SheetsGrow
      BY <2>2 DEF PutRow, SheetsGrow
  <2> QED
      BY <2>1, <2>2, <2>3
<1>6. ASSUME WriteRow(r)
      PROVE  Stores' /\ Tables' /\ Others(r) /\ SheetsGrow /\ RunReady(r)'
  <2>1. PICK rest, at :
            /\ rest = queue[r] \ {Head1(r)} /\ at = Head1(r).at
            /\ last' = [last EXCEPT ![r] = at]
            /\ queue' = [queue EXCEPT ![r] = rest]
            /\ row' = [row EXCEPT ![r] = 0]
            /\ pc' = [pc EXCEPT ![r] = IF rest = {} THEN "mark" ELSE "find"]
      BY <1>6 DEF WriteRow, Goto
  <2>2. pc[r] = "write" /\ Put(r) /\ UNCHANGED <<ledgerVars, config, todo, failures, reconfigs>>
      BY <1>6 DEF WriteRow
  <2>3. rest \subseteq Entry /\ at \in Nat
      BY <1>1, <1>5, <2>1, <2>2 DEF Tables, Entry
  <2>4. Tables' /\ Others(r)
      BY <1>1, <2>1, <2>2, <2>3 DEF Tables, Others
  <2>5. RunReady(r)'
      BY <1>1, <2>1, <2>2 DEF RunReady, Tables
  <2>6. Stores' /\ SheetsGrow
      BY <1>1, <1>5, <2>2 DEF Stores, ledgerVars
  <2> QED
      BY <2>4, <2>5, <2>6
<1>7. ASSUME MarkSynced(r) \/ MarkFailed(r)
      PROVE  Stores' /\ Tables' /\ Others(r) /\ SheetsGrow /\ RunReady(r)'
  <2>1. config' \in [User -> ConfigRow] /\ pc[r] # "idle" /\ Advance(r)
        /\ UNCHANGED <<ledgerVars, sheet, failures, reconfigs>>
      BY <1>7, MarkTyped
  <2>2. PICK rows : rows = [v \in DOMAIN todo[r] \ {Current(r)} |-> todo[r][v]]
      OBVIOUS
  <2>3. Tables' /\ Others(r) /\ RunReady(r)'
      BY <2>1, <2>2, RowsLeft, LeaveTyped DEF Advance
  <2>4. Stores' /\ SheetsGrow
      BY <1>1, <2>1 DEF Stores, SheetsGrow, ledgerVars
  <2> QED
      BY <2>3, <2>4
<1>8. ASSUME HeaderRefused(r) \/ CallFails(r)
      PROVE  Stores' /\ Tables' /\ Others(r) /\ SheetsGrow /\ RunReady(r)'
  <2>1. /\ pc[r] \in {"list", "find", "write", "mark"}
        /\ pc' = [pc EXCEPT ![r] = "failed"]
        /\ UNCHANGED <<ledgerVars, config, sheet, runVars, reconfigs>>
        /\ failures' \in Nat
      BY <1>1, <1>8, FailureCounts DEF HeaderRefused, CallFails, Goto, Stores
  <2> QED
      BY <1>1, <2>1 DEF Stores, Tables, Others, SheetsGrow, RunReady, ledgerVars, runVars
<1>9. ASSUME WriteLost(r)
      PROVE  Stores' /\ Tables' /\ Others(r) /\ SheetsGrow /\ RunReady(r)'
  <2>1. /\ pc[r] = "write" /\ Put(r)
        /\ pc' = [pc EXCEPT ![r] = "failed"]
        /\ UNCHANGED <<ledgerVars, config, runVars, reconfigs>>
        /\ failures' \in Nat
      BY <1>1, <1>9, FailureCounts DEF WriteLost, Goto
  <2>2. Tables' /\ Others(r) /\ RunReady(r)'
      BY <1>1, <2>1 DEF Tables, Others, RunReady, runVars
  <2>3. Stores' /\ SheetsGrow
      BY <1>1, <1>5, <2>1 DEF Stores, ledgerVars
  <2> QED
      BY <2>2, <2>3
<1>10. ASSUME RunDies(r)
       PROVE  Stores' /\ Tables' /\ Others(r) /\ SheetsGrow /\ RunReady(r)'
  <2>1. /\ Leave(r, <<>>) /\ failures' \in Nat
        /\ UNCHANGED <<ledgerVars, config, sheet, reconfigs>>
      BY <1>1, <1>10, FailureCounts DEF RunDies
  <2>2. DOMAIN <<>> = {} /\ <<>> = [u \in DOMAIN <<>> |-> <<>>[u]]
      OBVIOUS
  <2>3. PICK rows : rows = <<>>
      OBVIOUS
  <2>4. Tables' /\ Others(r) /\ RunReady(r)'
      BY <2>1, <2>2, <2>3, LeaveTyped
  <2>5. Stores' /\ SheetsGrow
      BY <1>1, <2>1 DEF Stores, SheetsGrow, ledgerVars
  <2> QED
      BY <2>4, <2>5
<1> QED
    BY <1>2, <1>3, <1>4, <1>6, <1>7, <1>8, <1>9, <1>10 DEF RunnerStep

LEMMA TypedStep == Typed /\ [Next]_vars => Typed'
<1> SUFFICES ASSUME Typed, [Next]_vars PROVE Typed'
    OBVIOUS
<1>1. ASSUME NEW r \in Runner,
             RunnerStep(r) \/ CallFails(r) \/ WriteLost(r) \/ RunDies(r)
      PROVE  Typed'
  <2>1. Stores' /\ Tables' /\ Others(r) /\ SheetsGrow /\ RunReady(r)'
      BY <1>1, TypedRun
  <2>2. \A q \in Runner : RunReady(q)'
      BY <2>1, ReadyOthers
  <2> QED
      BY <2>1, <2>2, HistoryStep, TypedNext
<1>2. ASSUME Stores', UNCHANGED <<sheet, pc, runVars>> PROVE Typed'
  <2>1. Tables /\ \A r \in Runner : RunReady(r)
      BY TypedIs
  <2>2. Tables'
      BY <1>2, <2>1 DEF Tables, runVars
  <2>3. \A r \in Runner : RunReady(r)'
      BY <1>2, <2>1, SameRun DEF RunReady, runVars
  <2> QED
      BY <1>2, <2>2, <2>3, HistoryStep, TypedNext
<1>3. CASE UNCHANGED vars
  <2>1. Stores' /\ UNCHANGED <<sheet, pc, runVars>>
      BY <1>3, TypedIs DEF vars, Stores, runVars
  <2> QED
      BY <1>2, <2>1
<1> QED
    BY <1>1, <1>2, <1>3, LedgerTyped DEF Next

LEMMA AlwaysTyped == Spec => []Typed
BY TypedInit, TypedStep, PTL DEF Spec

(* Every variable of the projection keeps its type, and what a run is      *)
(* about to write goes to a row that is there, or to the end.              *)
THEOREM ExportTypes == Spec => []ExportTypeOK
<1>1. Typed => ExportTypeOK
    BY DEF Typed
<1> QED
    BY <1>1, AlwaysTyped, PTL

-----------------------------------------------------------------------------
(* Whose rows they are *)

LedgerGrows == \A t \in Tx : ledger'[t] >= ledger[t]

RunTurn(r) == RunnerStep(r) \/ CallFails(r) \/ WriteLost(r) \/ RunDies(r)

LEMMA LedgerOnlyGrows ==
    ASSUME Typed, [Next]_vars
    PROVE  LedgerGrows
<1>1. ledger \in [Tx -> Nat] /\ \A o \in open : o.tx \in Tx
    BY DEF Typed, ExportTypeOK
<1>2. ASSUME NEW o \in open, CommitWrite(o) PROVE LedgerGrows
    BY <1>1, <1>2 DEF CommitWrite, LedgerGrows
<1>3. CASE ledger' = ledger
    BY <1>1, <1>3 DEF LedgerGrows
<1>4. ledger' = ledger \/ \E o \in open : CommitWrite(o)
    BY DEF Next, vars, Stamp, RollBack, Reconfigure, ledgerVars, RunnerStep, Start,
           ListPending, FindRow, WriteRow, MarkSynced, MarkFailed, HeaderRefused,
           CallFails, WriteLost, RunDies
<1> QED
    BY <1>2, <1>3, <1>4

(* What is committed stays committed.                                      *)
LEMMA StaysCommitted ==
    ASSUME Typed, LedgerGrows, NEW t \in Tx, NEW ver, Committed(t, ver), Typed'
    PROVE  Committed(t, ver)'
<1>1. ledger[t] \in Nat /\ ledger'[t] \in Nat /\ ledger'[t] >= ledger[t]
    BY DEF Typed, ExportTypeOK, LedgerGrows
<1>2. ver \in Nat /\ 1 <= ver /\ ver <= ledger[t]
    BY <1>1 DEF Committed
<1>3. ver \in 1 .. ledger'[t]
    BY <1>1, <1>2
<1> QED
    BY <1>3 DEF Committed

LEMMA QuietRun ==
    ASSUME Typed, Typed', LedgerGrows, NEW r \in Runner, OwnRun(r),
           todo'[r] = todo[r], queue'[r] = queue[r], pc'[r] = pc[r]
    PROVE  OwnRun(r)'
<1>1. \A e \in queue[r] : e.tx \in Tx
    BY DEF Typed, ExportTypeOK, Entry
<1>2. \A e \in queue[r] : Committed(e.tx, e.ver)'
    BY <1>1, StaysCommitted DEF OwnRun
<1>3. Current(r)' = Current(r)
    BY SameRun
<1> QED
    BY <1>2, <1>3 DEF OwnRun

LEMMA RowsKept ==
    ASSUME Typed, Typed', LedgerGrows, RowsAreOwnAndCommitted, NEW s \in Sheet,
           NEW i \in DOMAIN sheet[s], sheet'[s][i] = sheet[s][i]
    PROVE  Owner[sheet'[s][i].tx] = Holder[s] /\ sheet'[s][i].ver \in 1 .. ledger'[sheet'[s][i].tx]
<1>1. sheet[s] \in Seq([tx : Tx, ver : Nat])
    BY DEF Typed, ExportTypeOK
<1>2. sheet[s][i] \in [tx : Tx, ver : Nat]
  <2>1. sheet[s] \in [1 .. Len(sheet[s]) -> [tx : Tx, ver : Nat]]
      BY <1>1, LenProperties
  <2> QED
      BY <2>1
<1>3. PICK t, ver : t = sheet[s][i].tx /\ ver = sheet[s][i].ver
    OBVIOUS
<1>4. t \in Tx /\ Owner[t] = Holder[s] /\ Committed(t, ver)
    BY <1>2, <1>3 DEF RowsAreOwnAndCommitted, Committed
<1>5. Committed(t, ver)'
    BY <1>4, StaysCommitted
<1> QED
    BY <1>3, <1>4, <1>5 DEF Committed

LEMMA OwnLedger ==
    ASSUME Typed, Typed', Own, RowsAreOwnAndCommitted, LedgerGrows,
           \/ \E t \in Tx : Stamp(t)
           \/ \E o \in open : CommitWrite(o) \/ RollBack(o)
           \/ \E u \in User, s \in Sheet, on \in BOOLEAN : Reconfigure(u, s, on)
           \/ UNCHANGED vars
    PROVE  Own' /\ RowsAreOwnAndCommitted'
<1>1. sheet' = sheet /\ todo' = todo /\ queue' = queue /\ pc' = pc
    BY DEF Stamp, CommitWrite, RollBack, Reconfigure, vars, runVars
<1>2. RowsAreOwnAndCommitted'
    BY <1>1, RowsKept DEF RowsAreOwnAndCommitted
<1>3. \A r \in Runner : OwnRun(r)'
    BY <1>1, QuietRun DEF Own
<1>4. \A u \in User : Holder[config'[u].sheet] = u
  <2>1. ASSUME NEW u \in User, NEW s \in Sheet, NEW on \in BOOLEAN, Reconfigure(u, s, on)
        PROVE  \A v \in User : Holder[config'[v].sheet] = v
    <3>1. PICK c : c.sheet = s /\ config' = [config EXCEPT ![u] = c]
        BY <2>1 DEF Reconfigure
    <3>2. Holder[s] = u /\ config \in [User -> ConfigRow]
        BY <2>1 DEF Reconfigure, Typed, ExportTypeOK
    <3> QED
        BY <3>1, <3>2 DEF Own
  <2>2. CASE config' = config
      BY <2>2 DEF Own
  <2> QED
      BY <2>1, <2>2 DEF Stamp, CommitWrite, RollBack, vars
<1>5. \A e \in events' : Committed(e.tx, e.ver)'
  <2>1. \A e \in events : e.tx \in Tx
      BY DEF Typed, ExportTypeOK, Entry
  <2>2. \A e \in events : Committed(e.tx, e.ver)'
      BY <2>1, StaysCommitted DEF Own
  <2>3. ASSUME NEW o \in open, CommitWrite(o), NEW e \in events' \ events
        PROVE  Committed(e.tx, e.ver)'
    <3>1. e.tx = o.tx /\ e.ver = ledger[o.tx] + 1
        BY <2>3 DEF CommitWrite
    <3>2. o.tx \in Tx /\ ledger \in [Tx -> Nat]
        BY DEF Typed, ExportTypeOK
    <3>3. ledger'[o.tx] = ledger[o.tx] + 1 /\ ledger[o.tx] \in Nat
        BY <2>3, <3>2 DEF CommitWrite
    <3>4. e.ver \in 1 .. ledger'[e.tx]
        BY <3>1, <3>3
    <3> QED
        BY <3>4 DEF Committed
  <2>4. events' = events \/ \E o \in open : CommitWrite(o)
      BY DEF Stamp, RollBack, Reconfigure, vars, ledgerVars
  <2> QED
      BY <2>2, <2>3, <2>4
<1> QED
    BY <1>2, <1>3, <1>4, <1>5 DEF Own

LEMMA Leaves ==
    ASSUME NEW r, MarkSynced(r) \/ MarkFailed(r) \/ RunDies(r)
    PROVE  \E rows : Leave(r, rows)
<1>1. CASE MarkSynced(r) \/ MarkFailed(r)
    BY <1>1 DEF MarkSynced, MarkFailed, Advance
<1>2. CASE RunDies(r)
    BY <1>2 DEF RunDies
<1> QED
    BY <1>1, <1>2

(* A run that leaves a user has nothing in hand.                           *)
LEMMA Leaving ==
    ASSUME Typed, NEW r \in Runner, NEW rows, Leave(r, rows)
    PROVE  todo'[r] = rows /\ queue'[r] = {} /\ last'[r] = 0 /\ row'[r] = 0
           /\ pc'[r] \in {"idle", "list"}
BY DEF Leave, Goto, Typed, ExportTypeOK

LEMMA LeavingOwns ==
    ASSUME Typed, NEW r \in Runner, OwnRun(r), pc[r] # "idle", Advance(r) \/ Leave(r, <<>>)
    PROVE  OwnRun(r)'
<1>1. PICK rows : /\ Leave(r, rows) /\ DOMAIN rows \subseteq DOMAIN todo[r]
                  /\ \A u \in DOMAIN rows : rows[u] = todo[r][u]
  <2>1. CASE Leave(r, <<>>)
      BY <2>1
  <2>2. CASE Advance(r)
    <3>1. PICK rows : rows = [v \in DOMAIN todo[r] \ {Current(r)} |-> todo[r][v]]
        OBVIOUS
    <3> QED
        BY <2>2, <3>1 DEF Advance
  <2> QED
      BY <2>1, <2>2
<1>2. todo'[r] = rows /\ queue'[r] = {}
    BY <1>1, Leaving
<1> QED
    BY <1>1, <1>2 DEF OwnRun

(* The events given are the user's, and their transactions are committed.  *)
LEMMA PendingOwns ==
    ASSUME Typed, Own, NEW u, NEW cursor, NEW e \in Pending(u, cursor)
    PROVE  Owner[e.tx] = u /\ Committed(e.tx, e.ver)
<1>1. PICK d \in FirstN(After(u, cursor)) :
          e = [tx |-> d.tx, at |-> d.at, ver |-> ledger[d.tx]]
    BY DEF Pending
<1>2. d \in events /\ Owner[d.tx] = u
    BY DEF FirstN, After
<1>3. d.tx \in Tx /\ ledger[d.tx] \in Nat
    BY <1>2 DEF Typed, ExportTypeOK, Entry
<1>4. d.ver \in 1 .. ledger[d.tx]
    BY <1>2 DEF Own, Committed
<1>5. ledger[d.tx] \in 1 .. ledger[d.tx]
    BY <1>3, <1>4
<1> QED
    BY <1>1, <1>2, <1>5 DEF Committed

(* The row that is written shows what the queue holds, in the user's sheet.*)
LEMMA WrittenOwns ==
    ASSUME Typed, Typed', Own, RowsAreOwnAndCommitted, LedgerGrows,
           NEW r \in Runner, pc[r] = "write", Put(r), ledger' = ledger
    PROVE  RowsAreOwnAndCommitted'
<1>1. PICK s, e, n : s = Target(r) /\ e = Head1(r) /\ n = row[r]
    OBVIOUS
<1>2. /\ s \in Sheet /\ e \in queue[r] /\ e \in Entry
      /\ \E k : PutRow(s, k, [tx |-> e.tx, ver |-> e.ver])
    BY <1>1, PutWrites
<1>3. PICK k : PutRow(s, k, [tx |-> e.tx, ver |-> e.ver])
    BY <1>2
<1>4. Owner[e.tx] = Holder[s] /\ e.ver \in 1 .. ledger[e.tx]
  <2>1. Holder[Target(r)] = Current(r)
      BY TargetSheet DEF Own, OwnRun, Target
  <2>2. Owner[e.tx] = Current(r) /\ Committed(e.tx, e.ver)
      BY <1>2 DEF Own, OwnRun
  <2> QED
      BY <1>1, <2>1, <2>2 DEF Committed
<1>5. ASSUME NEW x \in Sheet, NEW i \in DOMAIN sheet'[x]
      PROVE  Owner[sheet'[x][i].tx] = Holder[x]
             /\ sheet'[x][i].ver \in 1 .. ledger'[sheet'[x][i].tx]
  <2>1. CASE x = s /\ i = k
      BY <1>3, <1>4, <2>1 DEF PutRow
  <2>2. CASE ~(x = s /\ i = k)
    <3>1. i \in DOMAIN sheet[x] /\ sheet'[x][i] = sheet[x][i]
        BY <1>2, <1>3, <1>5, <2>2 DEF PutRow
    <3> QED
        BY <3>1, RowsKept
  <2> QED
      BY <2>1, <2>2
<1> QED
    BY <1>5 DEF RowsAreOwnAndCommitted

LEMMA OwnTurn ==
    ASSUME Typed, Typed', Own, RowsAreOwnAndCommitted, LedgerGrows,
           NEW r \in Runner, RunTurn(r)
    PROVE  Own' /\ RowsAreOwnAndCommitted'
<1>1. Others(r)
    BY TypedRun DEF RunTurn
<1>2. \A q \in Runner \ {r} : OwnRun(q)'
    BY <1>1, QuietRun DEF Others, Own
<1>3. \A u \in User : Holder[config'[u].sheet] = u
  <2>1. CASE MarkSynced(r) \/ MarkFailed(r)
    <3>1. Current(r) \in User /\ config \in [User -> ConfigRow]
        BY <2>1, MarkTyped, TargetSheet DEF Typed, ExportTypeOK
    <3>2. \/ config' = [config EXCEPT ![Current(r)] = StoreCursor(config[Current(r)], last[r])]
          \/ config' = [config EXCEPT ![Current(r)] =
                                       [config[Current(r)] EXCEPT !.failing = TRUE]]
        BY <2>1, <3>1 DEF MarkSynced, MarkFailed
    <3>3. config[Current(r)] \in ConfigRow
        BY <3>1
    <3>4. /\ StoreCursor(config[Current(r)], last[r]).sheet = config[Current(r)].sheet
          /\ [config[Current(r)] EXCEPT !.failing = TRUE].sheet = config[Current(r)].sheet
        BY <3>3 DEF StoreCursor, ConfigRow
    <3>5. PICK c : c.sheet = config[Current(r)].sheet
                   /\ config' = [config EXCEPT ![Current(r)] = c]
        BY <3>2, <3>4
    <3> QED
        BY <3>1, <3>5 DEF Own
  <2>2. CASE config' = config
      BY <2>2 DEF Own
  <2> QED
      BY <2>1, <2>2 DEF RunTurn, RunnerStep, Start, ListPending, FindRow, WriteRow,
         HeaderRefused, CallFails, WriteLost, RunDies
<1>4. ledger' = ledger /\ events' = events
    BY DEF RunTurn, RunnerStep, Start, ListPending, FindRow, WriteRow, MarkSynced,
       MarkFailed, HeaderRefused, CallFails, WriteLost, RunDies, ledgerVars
<1>5. \A e \in events' : Committed(e.tx, e.ver)'
    BY <1>4 DEF Own, Committed
<1>6. OwnRun(r)
    BY DEF Own
<1>7. OwnRun(r)'
  <2>1. CASE Start(r)
    <3>1. /\ todo'[r] = [u \in {v \in User : config[v].enabled} |-> config[u]]
          /\ queue'[r] = {}
        BY <1>6, <2>1 DEF Start, OwnRun, Typed, ExportTypeOK
    <3>2. \A u \in DOMAIN todo'[r] : u \in User /\ todo'[r][u] = config[u]
        BY <3>1
    <3> QED
        BY <3>1, <3>2 DEF OwnRun, Own
  <2>2. CASE ListPending(r)
    <3>1. PICK cursor : queue' = [queue EXCEPT ![r] = Pending(Current(r), cursor)]
        BY <2>2 DEF ListPending
    <3>2. todo' = todo /\ pc'[r] \notin {"idle", "list"} /\ queue'[r] = Pending(Current(r), cursor)
        BY <2>2, <3>1 DEF ListPending, Goto, Typed, ExportTypeOK
    <3>3. Current(r)' = Current(r)
        BY <3>2, SameRun
    <3> QED
        BY <1>4, <1>6, <3>2, <3>3, PendingOwns DEF OwnRun, Committed
  <2>3. CASE FindRow(r) \/ HeaderRefused(r) \/ CallFails(r) \/ WriteLost(r)
    <3>1. todo' = todo /\ queue' = queue /\ pc'[r] \notin {"idle", "list"}
        BY <2>3 DEF FindRow, HeaderRefused, CallFails, WriteLost, Goto, Typed, ExportTypeOK,
           runVars
    <3>2. Current(r)' = Current(r)
        BY <3>1, SameRun
    <3> QED
        BY <1>4, <1>6, <3>1, <3>2 DEF OwnRun, Committed
  <2>4. CASE WriteRow(r)
    <3>1. PICK h : queue' = [queue EXCEPT ![r] = queue[r] \ {h}]
        BY <2>4 DEF WriteRow
    <3>2. todo' = todo /\ queue'[r] \subseteq queue[r] /\ pc'[r] \notin {"idle", "list"}
        BY <2>4, <3>1 DEF WriteRow, Goto, Typed, ExportTypeOK
    <3>3. Current(r)' = Current(r)
        BY <3>2, SameRun
    <3> QED
        BY <1>4, <1>6, <3>2, <3>3 DEF OwnRun, Committed
  <2>5. CASE MarkSynced(r) \/ MarkFailed(r) \/ RunDies(r)
    <3>1. pc[r] # "idle" /\ (Advance(r) \/ Leave(r, <<>>))
        BY <2>5, MarkTyped DEF RunDies
    <3> QED
        BY <1>6, <3>1, LeavingOwns
  <2> QED
      BY <2>1, <2>2, <2>3, <2>4, <2>5 DEF RunTurn, RunnerStep
<1>8. RowsAreOwnAndCommitted'
  <2>1. CASE sheet' = sheet
      BY <2>1, RowsKept DEF RowsAreOwnAndCommitted
  <2>2. CASE pc[r] = "write" /\ Put(r)
      BY <1>4, <2>2, WrittenOwns
  <2> QED
      BY <2>1, <2>2 DEF RunTurn, RunnerStep, Start, ListPending, FindRow, WriteRow,
         MarkSynced, MarkFailed, HeaderRefused, CallFails, WriteLost, RunDies
<1> QED
    BY <1>2, <1>3, <1>5, <1>7, <1>8 DEF Own

OwnInv == Typed /\ Own /\ RowsAreOwnAndCommitted

LEMMA OwnInit == Init => OwnInv
<1> SUFFICES ASSUME Init PROVE OwnInv
    OBVIOUS
<1>1. PICK home \in [User -> Sheet] :
          /\ \A u \in User : Holder[home[u]] = u
          /\ config = [u \in User |-> NewExport(home[u])]
    BY DEF Init
<1>2. \A u \in User : Holder[config[u].sheet] = u
    BY <1>1 DEF NewExport
<1>3. DOMAIN <<>> = {}
    OBVIOUS
<1>4. Own /\ RowsAreOwnAndCommitted
    BY <1>2, <1>3 DEF Init, Own, OwnRun, RowsAreOwnAndCommitted
<1> QED
    BY <1>4, TypedInit DEF OwnInv

LEMMA OwnStep == OwnInv /\ [Next]_vars => OwnInv'
<1> SUFFICES ASSUME OwnInv, [Next]_vars PROVE OwnInv'
    OBVIOUS
<1>1. Typed /\ Own /\ RowsAreOwnAndCommitted
    BY DEF OwnInv
<1>2. Typed' /\ LedgerGrows
    BY <1>1, TypedStep, LedgerOnlyGrows
<1>3. ASSUME NEW r \in Runner, RunTurn(r) PROVE OwnInv'
    BY <1>1, <1>2, <1>3, OwnTurn DEF OwnInv
<1>4. ASSUME \/ \E t \in Tx : Stamp(t)
             \/ \E o \in open : CommitWrite(o) \/ RollBack(o)
             \/ \E u \in User, s \in Sheet, on \in BOOLEAN : Reconfigure(u, s, on)
             \/ UNCHANGED vars
      PROVE  OwnInv'
    BY <1>1, <1>2, <1>4, OwnLedger DEF OwnInv
<1> QED
    BY <1>3, <1>4 DEF Next, RunTurn

LEMMA AlwaysOwn == Spec => []OwnInv
BY OwnInit, OwnStep, PTL DEF Spec

(* Whatever runs overlap, calls fail, writes commit out of order and       *)
(* exports are moved meanwhile, a worksheet only ever shows transactions   *)
(* of the user it was set up for, with content that was committed.         *)
THEOREM RowsAreTheUsers == Spec => []RowsAreOwnAndCommitted
<1>1. OwnInv => RowsAreOwnAndCommitted
    BY DEF OwnInv
<1> QED
    BY <1>1, AlwaysOwn, PTL

-----------------------------------------------------------------------------
(* One row per transaction, which never goes back *)

(* Runs follow each other: nothing in the code keeps two apart, but the    *)
(* schedule does as long as a run is shorter than the interval.            *)
Alone == \A r, q \in Runner : r = q

(* The row a write goes to is still the transaction's, or there is still   *)
(* none.                                                                   *)
Aimed(r) ==
    pc[r] = "write" =>
        LET s == Target(r) t == Head1(r).tx IN
        IF row[r] = 0 THEN \A i \in DOMAIN sheet[s] : sheet[s][i].tx # t
                      ELSE sheet[s][row[r]].tx = t

(* The sheet shows nothing newer than what is about to be written.         *)
Fresh(r) ==
    /\ \A e \in queue[r] : \A i \in DOMAIN sheet[Target(r)] :
           sheet[Target(r)][i].tx = e.tx => sheet[Target(r)][i].ver <= e.ver
    /\ \A e, f \in queue[r] : e.tx = f.tx => e.ver = f.ver

RowsInv ==
    /\ OwnInv
    /\ OneRowPerTransaction
    /\ \A r \in Runner : Aimed(r) /\ Fresh(r)

LEMMA AimedWrite ==
    ASSUME Typed, NEW r \in Runner, pc[r] = "write", Put(r), Aimed(r),
           NEW s, s = Target(r), NEW e, e = Head1(r), NEW n, n = row[r]
    PROVE  /\ s \in Sheet /\ e \in queue[r] /\ e \in Entry
           /\ \E k : /\ PutRow(s, k, [tx |-> e.tx, ver |-> e.ver])
                     /\ k \in DOMAIN sheet[s] => sheet[s][k].tx = e.tx
                     /\ k \notin DOMAIN sheet[s] =>
                            \A i \in DOMAIN sheet[s] : sheet[s][i].tx # e.tx
<1>2. /\ s \in Sheet /\ e \in queue[r] /\ e \in Entry
      /\ \E k : /\ PutRow(s, k, [tx |-> e.tx, ver |-> e.ver])
                /\ n = 0 => k \notin DOMAIN sheet[s]
                /\ n # 0 => k = n
    BY PutWrites
<1>3. PICK k : /\ PutRow(s, k, [tx |-> e.tx, ver |-> e.ver])
               /\ n = 0 => k \notin DOMAIN sheet[s]
               /\ n # 0 => k = n
    BY <1>2
<1>4. CASE n = 0
    BY <1>2, <1>3, <1>4 DEF Aimed
<1>5. CASE n # 0
  <2>1. k \in DOMAIN sheet[s] /\ sheet[s][k].tx = e.tx
      BY <1>3, <1>5 DEF Aimed, Typed, RunReady
  <2> QED
      BY <1>2, <1>3, <2>1
<1> QED
    BY <1>4, <1>5

(* What a write does to the rows: it keeps them apart, none goes back, and *)
(* nothing the queue holds is older than what is shown.                    *)
RowsForward ==
    \A s \in Sheet : \A i \in DOMAIN sheet[s] :
        /\ i \in DOMAIN sheet'[s] /\ sheet'[s][i].tx = sheet[s][i].tx
        /\ sheet'[s][i].ver >= sheet[s][i].ver

LEMMA SheetRows ==
    ASSUME Typed, NEW s \in Sheet, NEW i \in DOMAIN sheet[s]
    PROVE  sheet[s][i] \in SheetRow /\ sheet[s][i].tx \in Tx /\ sheet[s][i].ver \in Nat
<1>1. sheet[s] \in Seq(SheetRow)
    BY DEF Typed, ExportTypeOK, SheetRow
<1>2. sheet[s] \in [1 .. Len(sheet[s]) -> SheetRow]
    BY <1>1, LenProperties
<1>3. sheet[s][i] \in SheetRow
    BY <1>2
<1> QED
    BY <1>3 DEF SheetRow

LEMMA WriteForward ==
    ASSUME Typed, NEW r \in Runner, pc[r] = "write", Put(r), Aimed(r), Fresh(r),
           OneRowPerTransaction
    PROVE  RowsForward /\ OneRowPerTransaction'
<1>1. PICK s, e, n : s = Target(r) /\ e = Head1(r) /\ n = row[r]
    OBVIOUS
<1>2. /\ s \in Sheet /\ e \in queue[r] /\ e \in Entry
      /\ \E k : /\ PutRow(s, k, [tx |-> e.tx, ver |-> e.ver])
                /\ k \in DOMAIN sheet[s] => sheet[s][k].tx = e.tx
                /\ k \notin DOMAIN sheet[s] =>
                       \A i \in DOMAIN sheet[s] : sheet[s][i].tx # e.tx
    BY <1>1, AimedWrite
<1>3. PICK k : /\ PutRow(s, k, [tx |-> e.tx, ver |-> e.ver])
               /\ k \in DOMAIN sheet[s] => sheet[s][k].tx = e.tx
               /\ k \notin DOMAIN sheet[s] =>
                      \A i \in DOMAIN sheet[s] : sheet[s][i].tx # e.tx
    BY <1>2
<1>4. ASSUME NEW x \in Sheet, NEW i \in DOMAIN sheet[x]
      PROVE  /\ i \in DOMAIN sheet'[x] /\ sheet'[x][i].tx = sheet[x][i].tx
             /\ sheet'[x][i].ver >= sheet[x][i].ver
  <2>1. sheet[x][i].ver \in Nat
      BY SheetRows
  <2>2. CASE x = s /\ i = k
    <3>1. sheet[x][i].tx = e.tx /\ sheet[x][i].ver <= e.ver
        BY <1>1, <1>2, <1>3, <1>4, <2>2 DEF Fresh
    <3>2. i \in DOMAIN sheet'[x] /\ sheet'[x][i].tx = e.tx /\ sheet'[x][i].ver = e.ver
        BY <1>3, <2>2 DEF PutRow
    <3> QED
        BY <1>2, <2>1, <3>1, <3>2 DEF Entry
  <2>3. CASE ~(x = s /\ i = k)
    <3>1. i \in DOMAIN sheet'[x] /\ sheet'[x][i] = sheet[x][i]
        BY <1>2, <1>3, <1>4, <2>3 DEF PutRow
    <3> QED
        BY <2>1, <3>1
  <2> QED
      BY <2>2, <2>3
<1>5. ASSUME NEW x \in Sheet, NEW i \in DOMAIN sheet'[x], NEW j \in DOMAIN sheet'[x],
             sheet'[x][i].tx = sheet'[x][j].tx
      PROVE  i = j
  <2>1. CASE x # s
      BY <1>3, <1>5, <2>1 DEF PutRow, OneRowPerTransaction
  <2>2. CASE x = s /\ k \in DOMAIN sheet[s]
    <3>1. i \in DOMAIN sheet[x] /\ j \in DOMAIN sheet[x]
        BY <1>3, <1>5, <2>2 DEF PutRow
    <3>2. sheet[x][i].tx = sheet[x][j].tx
        BY <1>4, <1>5, <3>1
    <3> QED
        BY <3>1, <3>2 DEF OneRowPerTransaction
  <2>3. CASE x = s /\ k \notin DOMAIN sheet[s]
    <3>1. \A m \in DOMAIN sheet'[s] :
              \/ m = k /\ sheet'[s][m].tx = e.tx
              \/ m \in DOMAIN sheet[s] /\ sheet'[s][m].tx = sheet[s][m].tx
                 /\ sheet[s][m].tx # e.tx
        BY <1>3, <2>3 DEF PutRow
    <3> QED
        BY <1>2, <1>5, <2>3, <3>1 DEF OneRowPerTransaction
  <2> QED
      BY <2>1, <2>2, <2>3
<1> QED
    BY <1>4, <1>5 DEF RowsForward, OneRowPerTransaction

(* After the write the queue is still not behind what is shown.            *)
LEMMA WriteFresh ==
    ASSUME Typed, NEW r \in Runner, pc[r] = "write", Put(r), Fresh(r),
           todo'[r] = todo[r], queue'[r] \subseteq queue[r]
    PROVE  Fresh(r)'
<1>1. PICK s, e, n : s = Target(r) /\ e = Head1(r) /\ n = row[r]
    OBVIOUS
<1>2. /\ s \in Sheet /\ e \in queue[r] /\ e \in Entry
      /\ \E k : PutRow(s, k, [tx |-> e.tx, ver |-> e.ver])
    BY <1>1, PutWrites
<1>3. PICK k : PutRow(s, k, [tx |-> e.tx, ver |-> e.ver])
    BY <1>2
<1>4. Target(r)' = s
    BY <1>1, SameRun
<1>5. ASSUME NEW f \in queue'[r], NEW i \in DOMAIN sheet'[s], sheet'[s][i].tx = f.tx
      PROVE  sheet'[s][i].ver <= f.ver
  <2>1. f \in queue[r]
      OBVIOUS
  <2>2. CASE i = k
    <3>1. e.tx = f.tx /\ sheet'[s][i].ver = e.ver
        BY <1>3, <1>5, <2>2 DEF PutRow
    <3>2. e.ver = f.ver
        BY <1>2, <2>1, <3>1 DEF Fresh
    <3> QED
        BY <1>2, <3>1, <3>2 DEF Entry
  <2>3. CASE i # k
      BY <1>1, <1>3, <1>5, <2>1, <2>3 DEF PutRow, Fresh
  <2> QED
      BY <2>2, <2>3
<1> QED
    BY <1>4, <1>5 DEF Fresh

(* The events given have the content their transactions have now.          *)
LEMMA ListFresh ==
    ASSUME OwnInv, NEW r \in Runner, NEW s \in Sheet, NEW u, NEW cursor
    PROVE  /\ \A e \in Pending(u, cursor) : \A i \in DOMAIN sheet[s] :
                  sheet[s][i].tx = e.tx => sheet[s][i].ver <= e.ver
           /\ \A e, f \in Pending(u, cursor) : e.tx = f.tx => e.ver = f.ver
<1>1. \A e \in Pending(u, cursor) : e.ver = ledger[e.tx]
    BY DEF Pending
<1>2. Typed /\ RowsAreOwnAndCommitted
    BY DEF OwnInv
<1>3. \A i \in DOMAIN sheet[s] : sheet[s][i].tx \in Tx
    BY <1>2, SheetRows
<1>4. \A t \in Tx : ledger[t] \in Nat
    BY <1>2 DEF Typed, ExportTypeOK
<1>5. \A i \in DOMAIN sheet[s] : sheet[s][i].ver <= ledger[sheet[s][i].tx]
    BY <1>2, <1>3, <1>4 DEF RowsAreOwnAndCommitted
<1> QED
    BY <1>1, <1>5

LEMMA RowsTurn ==
    ASSUME RowsInv, NEW r \in Runner, RunTurn(r)
    PROVE  RowsForward /\ OneRowPerTransaction' /\ Aimed(r)' /\ Fresh(r)'
<1>1. /\ OwnInv /\ Typed /\ OneRowPerTransaction /\ Aimed(r) /\ Fresh(r)
    BY DEF RowsInv, OwnInv
<1>2. RowsForward /\ OneRowPerTransaction'
  <2>1. CASE sheet' = sheet
    <3>1. RowsForward
        BY <1>1, <2>1, SheetRows DEF RowsForward
    <3> QED
        BY <1>1, <2>1, <3>1 DEF OneRowPerTransaction
  <2>2. CASE pc[r] = "write" /\ Put(r)
      BY <1>1, <2>2, WriteForward
  <2> QED
      BY <2>1, <2>2 DEF RunTurn, RunnerStep, Start, ListPending, FindRow, WriteRow,
         MarkSynced, MarkFailed, HeaderRefused, CallFails, WriteLost, RunDies
<1>3. Aimed(r)'
  <2>1. CASE FindRow(r)
    <3>1. /\ pc[r] = "find" /\ UNCHANGED <<sheet, todo, queue>>
          /\ row'[r] = RowOf(Target(r), Head1(r).tx)
        BY <1>1, <2>1 DEF FindRow, Typed, ExportTypeOK
    <3>2. Target(r)' = Target(r) /\ Head1(r)' = Head1(r)
        BY <3>1, SameRun DEF Head1, First
    <3>3. PICK s, t : s = Target(r) /\ t = Head1(r).tx
        OBVIOUS
    <3>4. s \in Sheet
        BY <1>1, <3>1, <3>3, TargetSheet
    <3>5. 0 \notin DOMAIN sheet[s]
      <4>1. sheet[s] \in Seq([tx : Tx, ver : Nat])
          BY <1>1, <3>4 DEF Typed, ExportTypeOK
      <4> QED
          BY <4>1, LenProperties
    <3>6. \/ RowOf(s, t) = 0 /\ \A i \in DOMAIN sheet[s] : sheet[s][i].tx # t
          \/ RowOf(s, t) \in DOMAIN sheet[s] /\ sheet[s][RowOf(s, t)].tx = t
        BY <1>1, <3>4, RowFound
    <3>7. IF row'[r] = 0 THEN \A i \in DOMAIN sheet'[s] : sheet'[s][i].tx # t
                         ELSE sheet'[s][row'[r]].tx = t
        BY <3>1, <3>3, <3>5, <3>6
    <3> QED
        BY <3>2, <3>3, <3>7 DEF Aimed
  <2>2. CASE pc'[r] # "write"
      BY <2>2 DEF Aimed
  <2>3. CASE MarkSynced(r) \/ MarkFailed(r) \/ RunDies(r)
    <3>1. PICK rows : Leave(r, rows)
        BY <2>3, Leaves
    <3>2. pc'[r] \in {"idle", "list"}
        BY <1>1, <3>1, Leaving
    <3> QED
        BY <2>2, <3>2
  <2>4. CASE Start(r) \/ ListPending(r) \/ WriteRow(r) \/ HeaderRefused(r) \/ CallFails(r)
             \/ WriteLost(r)
    <3>1. pc'[r] # "write"
        BY <1>1, <2>4 DEF Start, ListPending, WriteRow, HeaderRefused, CallFails, WriteLost,
           Goto, Typed, ExportTypeOK
    <3> QED
        BY <2>2, <3>1
  <2> QED
      BY <2>1, <2>3, <2>4 DEF RunTurn, RunnerStep
<1>4. Fresh(r)'
  <2>1. CASE queue'[r] = {}
      BY <2>1 DEF Fresh
  <2>2. CASE sheet' = sheet /\ todo' = todo /\ queue' = queue
    <3>1. Target(r)' = Target(r)
        BY <2>2, SameRun
    <3> QED
        BY <1>1, <2>2, <3>1 DEF Fresh
  <2>3. CASE Start(r)
    <3>1. queue'[r] = {}
        BY <1>1, <2>3 DEF Start, OwnInv, Own, OwnRun
    <3> QED
        BY <2>1, <3>1
  <2>4. CASE ListPending(r)
    <3>1. PICK u, cursor : queue' = [queue EXCEPT ![r] = Pending(u, cursor)]
        BY <2>4 DEF ListPending
    <3>2. pc[r] = "list" /\ todo' = todo /\ sheet' = sheet /\ queue'[r] = Pending(u, cursor)
        BY <1>1, <2>4, <3>1 DEF ListPending, Typed, ExportTypeOK
    <3>3. Target(r)' = Target(r) /\ Target(r) \in Sheet
        BY <1>1, <3>2, SameRun, TargetSheet
    <3> QED
        BY <1>1, <3>2, <3>3, ListFresh DEF Fresh
  <2>5. CASE WriteRow(r) \/ WriteLost(r)
    <3>1. pc[r] = "write" /\ Put(r)
        BY <2>5 DEF WriteRow, WriteLost
    <3>2. todo'[r] = todo[r] /\ queue'[r] \subseteq queue[r]
        BY <1>1, <2>5 DEF WriteRow, WriteLost, runVars, Typed, ExportTypeOK
    <3> QED
        BY <1>1, <3>1, <3>2, WriteFresh
  <2>6. CASE MarkSynced(r) \/ MarkFailed(r) \/ RunDies(r)
    <3>1. PICK rows : Leave(r, rows)
        BY <2>6, Leaves
    <3>2. queue'[r] = {}
        BY <1>1, <3>1, Leaving
    <3> QED
        BY <2>1, <3>2
  <2> QED
      BY <2>2, <2>3, <2>4, <2>5, <2>6 DEF RunTurn, RunnerStep, FindRow, HeaderRefused, CallFails, runVars
<1> QED
    BY <1>2, <1>3, <1>4

LEMMA RowsInit == Init => RowsInv
<1> SUFFICES ASSUME Init PROVE RowsInv
    OBVIOUS
<1>1. DOMAIN <<>> = {}
    OBVIOUS
<1>2. OneRowPerTransaction
    BY <1>1 DEF Init, OneRowPerTransaction
<1>3. \A r \in Runner : Aimed(r) /\ Fresh(r)
    BY DEF Init, Aimed, Fresh
<1> QED
    BY <1>2, <1>3, OwnInit DEF RowsInv

LEMMA RowsStep ==
    ASSUME Alone, RowsInv, [Next]_vars
    PROVE  RowsInv' /\ RowsForward
<1>1. OwnInv' /\ Typed
    BY OwnStep DEF RowsInv, OwnInv
<1>2. ASSUME NEW r \in Runner, RunTurn(r) PROVE RowsInv' /\ RowsForward
  <2>1. RowsForward /\ OneRowPerTransaction' /\ Aimed(r)' /\ Fresh(r)'
      BY <1>2, RowsTurn
  <2>2. \A q \in Runner : q = r
      BY DEF Alone
  <2> QED
      BY <1>1, <2>1, <2>2 DEF RowsInv
<1>3. ASSUME UNCHANGED <<sheet, pc, runVars>> PROVE RowsInv' /\ RowsForward
  <2>1. sheet' = sheet /\ pc' = pc /\ todo' = todo /\ queue' = queue /\ row' = row
      BY <1>3 DEF runVars
  <2>2. \A r \in Runner : Target(r)' = Target(r) /\ Head1(r)' = Head1(r)
      BY <2>1, SameRun DEF Head1, First
  <2>3. \A r \in Runner : Aimed(r)' /\ Fresh(r)'
      BY <2>1, <2>2 DEF Aimed, Fresh, RowsInv
  <2>4. OneRowPerTransaction'
      BY <2>1 DEF OneRowPerTransaction, RowsInv
  <2>5. RowsForward
      BY <1>1, <2>1, SheetRows DEF RowsForward
  <2> QED
      BY <1>1, <2>3, <2>4, <2>5 DEF RowsInv
<1>4. \/ \E r \in Runner : RunTurn(r)
      \/ UNCHANGED <<sheet, pc, runVars>>
    BY DEF Next, RunTurn, vars, Stamp, CommitWrite, RollBack, Reconfigure, runVars
<1> QED
    BY <1>2, <1>3, <1>4

LEMMA AlwaysRows ==
    ASSUME Alone
    PROVE  Spec => [](RowsInv) /\ [][RowsForward]_vars
<1>1. RowsInv /\ [Next]_vars => RowsInv' /\ RowsForward
    BY RowsStep
<1> QED
    BY <1>1, RowsInit, PTL DEF Spec

(* When runs follow each other, a transaction has one row in a sheet,      *)
(* whatever calls fail, answers are lost and runs are killed: a run that   *)
(* repeats what was written finds the row that was appended.               *)
THEOREM RowsAreUnique ==
    ASSUME Alone
    PROVE  Spec => []OneRowPerTransaction
<1>1. RowsInv => OneRowPerTransaction
    BY DEF RowsInv
<1> QED
    BY <1>1, AlwaysRows, PTL

(* When runs follow each other, no row is taken away or goes back to older *)
(* content, though an event may be exported again after newer ones: what   *)
(* is written is the transaction as it was read, never as recorded.        *)
THEOREM RowsGoForward ==
    ASSUME Alone
    PROVE  Spec => RowsNeverGoBack
<1>1. RowsForward => \A s \in Sheet : \A i \in DOMAIN sheet[s] :
                         i \in DOMAIN sheet'[s] /\ sheet'[s][i].ver >= sheet[s][i].ver
    BY DEF RowsForward
<1> QED
    BY <1>1, AlwaysRows, PTL DEF RowsNeverGoBack

-----------------------------------------------------------------------------
(* What is left behind the cursor *)

(* The writes of one store have one stamp each, committed or not.          *)
Stamped ==
    /\ IsFiniteSet(events)
    /\ \A o \in open : o.at \in 1 .. clock
    /\ \A o, p \in open : o.at = p.at => o = p
    /\ \A e \in events : e.at \in 1 .. clock /\ \A o \in open : o.at # e.at
    /\ \A e, f \in events : e.at = f.at => e = f

(* What a run has in hand comes after the cursor it would store now.       *)
Queued(r) ==
    /\ \A e \in queue[r] : e.at > last[r]
    /\ \A e, f \in queue[r] : e.at = f.at => e = f

(* The export rows a run has still to serve are as it read them, but for   *)
(* those that were moved.                                                  *)
AsRead(r) ==
    \A u \in DOMAIN todo[r] : u \notin moved =>
        /\ todo[r][u].sheet = config[u].sheet
        /\ todo[r][u].cursor = config[u].cursor

(* An event of the user a run serves is shown, or in the queue, or later   *)
(* than all of the queue, or it committed too late for this run.           *)
Covered(r, e) ==
    \/ e.at \in overtaken
    \/ e.at <= last[r] /\ Shows(Target(r), e.tx, e.ver)
    \/ \E f \in queue[r] : f.at = e.at /\ f.tx = e.tx /\ f.ver >= e.ver
    \/ e.at > last[r] /\ \A f \in queue[r] : f.at < e.at

Working(r) ==
    pc[r] \in {"find", "write", "mark"} /\ Current(r) \notin moved =>
        \A e \in events : Owner[e.tx] = Current(r) => Covered(r, e)

RunCursor(r) == Queued(r) /\ AsRead(r) /\ Working(r)

CursorInv ==
    /\ RowsInv
    /\ Stamped
    /\ \A r \in Runner : RunCursor(r)
    /\ LeftBehindForAReason

(* What the first N events leave out is later than all of them.            *)
LEMMA FirstAreFirst ==
    ASSUME Typed, Stamped, NEW u, NEW cursor,
           NEW e \in After(u, cursor), e \notin FirstN(After(u, cursor)),
           NEW f \in FirstN(After(u, cursor))
    PROVE  f.at < e.at
<1> DEFINE S == After(u, cursor)
           upto(d) == {x \in S : x.at <= d.at}
<1>1. S \subseteq events /\ IsFiniteSet(events)
    BY DEF After, Stamped
<1>2. IsFiniteSet(S)
    BY <1>1, FS_Subset
<1>3. e \in S /\ f \in S /\ Cardinality(upto(f)) <= BatchSize
      /\ ~(Cardinality(upto(e)) <= BatchSize)
    BY DEF FirstN
<1>4. e.at \in Nat /\ f.at \in Nat /\ \A x \in S : x.at \in Nat
    BY <1>1, <1>3 DEF Typed, ExportTypeOK, Entry
<1>5. ASSUME e.at <= f.at PROVE FALSE
  <2>1. upto(e) \subseteq upto(f)
      BY <1>4, <1>5
  <2>2. IsFiniteSet(upto(f)) /\ IsFiniteSet(upto(e))
      BY <1>2, FS_Subset
  <2>3. Cardinality(upto(e)) <= Cardinality(upto(f))
      BY <2>1, <2>2, FS_Subset
  <2>4. Cardinality(upto(e)) \in Nat /\ Cardinality(upto(f)) \in Nat
      BY <2>2, FS_CardinalityType
  <2> QED
      BY <1>3, <2>3, <2>4
<1> QED
    BY <1>4, <1>5

(* What a sheet shows it goes on showing.                                  *)
ShowsNext(s, t, ver) ==
    \E i \in DOMAIN sheet'[s] : sheet'[s][i].tx = t /\ sheet'[s][i].ver >= ver

LEMMA StillShown ==
    ASSUME Typed, Typed', RowsForward, NEW s \in Sheet, NEW t, NEW ver \in Nat,
           Shows(s, t, ver)
    PROVE  ShowsNext(s, t, ver)
<1>1. PICK i \in DOMAIN sheet[s] : sheet[s][i].tx = t /\ sheet[s][i].ver >= ver
    BY DEF Shows
<1>2. /\ i \in DOMAIN sheet'[s] /\ sheet'[s][i].tx = t
      /\ sheet'[s][i].ver >= sheet[s][i].ver
    BY <1>1 DEF RowsForward
<1>3. sheet[s][i].ver \in Nat
    BY SheetRows
<1>4. sheet'[s][i].ver \in Nat
  <2>1. sheet'[s] \in Seq(SheetRow)
      BY DEF Typed, ExportTypeOK, SheetRow
  <2>2. sheet'[s] \in [1 .. Len(sheet'[s]) -> SheetRow]
      BY <2>1, LenProperties
  <2>3. sheet'[s][i] \in SheetRow
      BY <1>2, <2>2
  <2> QED
      BY <2>3 DEF SheetRow
<1>5. sheet'[s][i].ver >= ver
    BY <1>1, <1>2, <1>3, <1>4
<1> QED
    BY <1>2, <1>5 DEF ShowsNext

(* Steps of the ledger keep the stamps apart.                              *)
LEMMA StampedStep ==
    ASSUME Typed, Stamped,
           \/ \E t \in Tx : Stamp(t)
           \/ \E o \in open : CommitWrite(o) \/ RollBack(o)
           \/ clock' = clock /\ open' = open /\ events' = events
    PROVE  Stamped'
<1>1. /\ clock \in Nat /\ \A e \in events : e.at \in Nat /\ e.at <= clock /\ e.at > 0
      /\ \A o \in open : o.at \in Nat /\ o.at <= clock /\ o.at > 0
    BY DEF Typed, ExportTypeOK, Entry, Stamped
<1>2. ASSUME NEW t \in Tx, Stamp(t) PROVE Stamped'
  <2>1. /\ clock' = clock + 1 /\ open' = open \cup {[tx |-> t, at |-> clock + 1]}
        /\ events' = events
      BY <1>2 DEF Stamp
  <2>2. \A o \in open' : o.at \in 1 .. clock'
      BY <1>1, <2>1
  <2>3. \A o, p \in open' : o.at = p.at => o = p
      BY <1>1, <2>1 DEF Stamped
  <2>4. \A e \in events : e.at \in 1 .. clock' /\ \A o \in open' : o.at # e.at
      BY <1>1, <2>1 DEF Stamped
  <2> QED
      BY <2>1, <2>2, <2>3, <2>4 DEF Stamped
<1>3. ASSUME NEW o \in open, CommitWrite(o) PROVE Stamped'
  <2>1. PICK new : new.at = o.at /\ events' = events \cup {new}
      BY <1>3 DEF CommitWrite
  <2>2. open' = open \ {o} /\ clock' = clock
      BY <1>3 DEF CommitWrite
  <2>3. IsFiniteSet(events')
      BY <2>1, FS_AddElement DEF Stamped
  <2>4. \A p \in open' : p.at # new.at
      BY <2>1, <2>2 DEF Stamped
  <2>5. \A e \in events' : e.at \in 1 .. clock /\ \A p \in open' : p.at # e.at
      BY <1>1, <2>1, <2>2, <2>4 DEF Stamped
  <2>6. \A e \in events : e.at # new.at
      BY <2>1 DEF Stamped
  <2>7. \A e, f \in events' : e.at = f.at => e = f
      BY <2>1, <2>6 DEF Stamped
  <2> QED
      BY <2>2, <2>3, <2>5, <2>7 DEF Stamped
<1>4. ASSUME NEW o \in open, RollBack(o) PROVE Stamped'
    BY <1>4 DEF RollBack, Stamped
<1>5. CASE clock' = clock /\ open' = open /\ events' = events
    BY <1>5 DEF Stamped
<1> QED
    BY <1>2, <1>3, <1>4, <1>5

-----------------------------------------------------------------------------
(* The cursor *)

(* Steps that leave alone what a run goes by.                              *)
LEMMA RunKept ==
    ASSUME NEW r \in Runner, RunCursor(r),
           UNCHANGED <<events, config, sheet, overtaken, moved>>,
           todo'[r] = todo[r], queue'[r] = queue[r], last'[r] = last[r],
           pc'[r] \in {"find", "write", "mark"} => pc[r] \in {"find", "write", "mark"}
    PROVE  RunCursor(r)'
<1>1. Current(r)' = Current(r) /\ Target(r)' = Target(r)
    BY SameRun
<1>2. Queued(r)' /\ AsRead(r)'
    BY DEF RunCursor, Queued, AsRead
<1>3. ASSUME NEW e, Covered(r, e) PROVE Covered(r, e)'
    BY <1>1, <1>3 DEF Covered, Shows
<1>4. Working(r)'
    BY <1>1, <1>3 DEF RunCursor, Working
<1> QED
    BY <1>2, <1>4 DEF RunCursor

LEMMA CursorKeptQuiet ==
    ASSUME CursorInv, RowsInv', Stamped',
           UNCHANGED <<events, config, sheet, pc, todo, queue, last, overtaken, moved>>
    PROVE  CursorInv'
<1>1. LeftBehindForAReason'
    BY DEF CursorInv, LeftBehindForAReason, Shows
<1>2. \A r \in Runner : RunCursor(r)'
    BY RunKept DEF CursorInv
<1> QED
    BY <1>1, <1>2 DEF CursorInv

(* A write that commits is after the cursor and after all that the run at  *)
(* its user has in hand, or it is noted as overtaken.                      *)
LEMMA CursorCommit ==
    ASSUME CursorInv, RowsInv', Stamped', NEW o \in open, CommitWrite(o)
    PROVE  CursorInv'
<1>1. /\ Typed /\ Typed' /\ LeftBehindForAReason
      /\ \A r \in Runner : RunCursor(r)
    BY DEF CursorInv, RowsInv, OwnInv
<1>2. /\ config' = config /\ sheet' = sheet /\ pc' = pc /\ todo' = todo /\ queue' = queue
      /\ last' = last /\ moved' = moved
    BY DEF CommitWrite, runVars
<1>3. PICK new : /\ new = [tx |-> o.tx, at |-> o.at, ver |-> ledger[o.tx] + 1]
                 /\ events' = events \cup {new}
    BY DEF CommitWrite
<1>4. /\ overtaken \subseteq overtaken'
      /\ TooLate(Owner[new.tx], new.at) => new.at \in overtaken'
    BY <1>3 DEF CommitWrite
<1>5. new \in Entry /\ Owner[new.tx] \in User /\ new.at \in Nat
    BY <1>1, <1>3 DEF Typed, ExportTypeOK, Entry
<1>6. LeftBehindForAReason'
  <2> SUFFICES ASSUME NEW e \in events',
                      e.at <= config[Owner[e.tx]].cursor
               PROVE  \/ Shows(config[Owner[e.tx]].sheet, e.tx, e.ver)
                      \/ e.at \in overtaken'
                      \/ Owner[e.tx] \in moved
      BY <1>2 DEF LeftBehindForAReason, Shows
  <2>1. CASE e \in events
      BY <1>1, <1>4, <2>1 DEF LeftBehindForAReason
  <2>2. CASE e = new
      BY <1>4, <2>2 DEF TooLate
  <2> QED
      BY <1>3, <2>1, <2>2
<1>7. ASSUME NEW r \in Runner PROVE RunCursor(r)'
  <2>1. Current(r)' = Current(r) /\ Target(r)' = Target(r)
      BY <1>2, SameRun
  <2>2. Queued(r)' /\ AsRead(r)'
      BY <1>1, <1>2 DEF RunCursor, Queued, AsRead
  <2>3. ASSUME NEW e, Covered(r, e) PROVE Covered(r, e)'
      BY <1>2, <1>4, <2>1, <2>3 DEF Covered, Shows
  <2>4. ASSUME pc[r] \in {"find", "write", "mark"}, Owner[new.tx] = Current(r)
        PROVE  Covered(r, new)'
    <3>1. last[r] \in Nat /\ \A f \in queue[r] : f.at \in Nat
        BY <1>1 DEF Typed, ExportTypeOK, Entry
    <3>2. CASE new.at <= last[r] \/ \E f \in queue[r] : new.at <= f.at
      <4>1. TooLate(Owner[new.tx], new.at)
          BY <2>4, <3>2 DEF TooLate, Serves
      <4> QED
          BY <1>4, <4>1 DEF Covered
    <3>3. CASE ~(new.at <= last[r] \/ \E f \in queue[r] : new.at <= f.at)
      <4>1. new.at > last[r] /\ \A f \in queue[r] : f.at < new.at
          BY <1>5, <3>1, <3>3
      <4> QED
          BY <1>2, <4>1 DEF Covered
    <3> QED
        BY <3>2, <3>3
  <2>5. Working(r)'
    <3> SUFFICES ASSUME pc[r] \in {"find", "write", "mark"}, Current(r) \notin moved,
                        NEW e \in events', Owner[e.tx] = Current(r)
                 PROVE  Covered(r, e)'
        BY <1>2, <2>1 DEF Working
    <3>1. CASE e \in events
        BY <1>1, <2>3, <3>1 DEF RunCursor, Working
    <3>2. CASE e = new
        BY <2>4, <3>2
    <3> QED
        BY <1>3, <3>1, <3>2
  <2> QED
      BY <2>2, <2>5 DEF RunCursor
<1> QED
    BY <1>6, <1>7 DEF CursorInv

(* A new spreadsheet starts over: what was overtaken is listed again,      *)
(* unless a run has read the row already.                                  *)
LEMMA CursorReconfigure ==
    ASSUME CursorInv, RowsInv', Stamped',
           NEW u \in User, NEW s \in Sheet, NEW on \in BOOLEAN, Reconfigure(u, s, on)
    PROVE  CursorInv'
<1>1. /\ Typed /\ Stamped /\ LeftBehindForAReason
      /\ \A r \in Runner : RunCursor(r)
    BY DEF CursorInv, RowsInv, OwnInv
<1>2. /\ sheet' = sheet /\ pc' = pc /\ todo' = todo /\ queue' = queue /\ last' = last
      /\ events' = events /\ NoteMove(u, s)
    BY DEF Reconfigure, runVars, ledgerVars
<1>3. config \in [User -> ConfigRow]
    BY <1>1 DEF Typed, ExportTypeOK
<1>4. PICK c : /\ c.sheet = s /\ c.cursor = CursorAfter(config[u], s)
               /\ config' = [config EXCEPT ![u] = c]
    BY <1>3 DEF Reconfigure
<1>5. /\ \A v \in User \ {u} : config'[v] = config[v]
      /\ config'[u].sheet = s
      /\ config'[u].cursor = IF config[u].sheet = s THEN config[u].cursor ELSE 0
    BY <1>3, <1>4 DEF CursorAfter
<1>6. \A e \in events : Owner[e.tx] \in User /\ e.at \in Nat /\ e.at > 0
    BY <1>1 DEF Typed, ExportTypeOK, Entry, Stamped
<1>7. \A r \in Runner : Current(r)' = Current(r) /\ Target(r)' = Target(r) /\ Queued(r)'
    BY <1>1, <1>2, SameRun DEF RunCursor, Queued
<1>8. CASE config[u].sheet = s
  <2>1. overtaken' = overtaken /\ moved' = moved
      BY <1>2, <1>8 DEF NoteMove, history
  <2>2. \A v \in User : config'[v].sheet = config[v].sheet
                        /\ config'[v].cursor = config[v].cursor
      BY <1>5, <1>8
  <2>3. LeftBehindForAReason'
      BY <1>1, <1>2, <1>6, <2>1, <2>2 DEF LeftBehindForAReason, Shows
  <2>4. ASSUME NEW r \in Runner PROVE RunCursor(r)'
    <3>1. DOMAIN todo[r] \subseteq User
        BY <1>1 DEF Typed, ExportTypeOK
    <3>2. AsRead(r)'
        BY <1>1, <1>2, <2>1, <2>2, <3>1 DEF RunCursor, AsRead
    <3>3. ASSUME NEW e, Covered(r, e) PROVE Covered(r, e)'
        BY <1>2, <1>7, <2>1, <3>3 DEF Covered, Shows
    <3>4. Working(r)'
        BY <1>1, <1>2, <1>7, <2>1, <3>3 DEF RunCursor, Working
    <3> QED
        BY <1>7, <3>2, <3>4 DEF RunCursor
  <2> QED
      BY <2>3, <2>4 DEF CursorInv
<1>9. CASE config[u].sheet # s
  <2>1. /\ overtaken' = overtaken \ {e.at : e \in {d \in events : Owner[d.tx] = u}}
        /\ \A v \in User \ {u} : v \in moved' <=> v \in moved
        /\ \A r \in Runner : u \in DOMAIN todo[r] => u \in moved'
      BY <1>2, <1>9 DEF NoteMove
  <2>2. \A e \in events : Owner[e.tx] # u /\ e.at \in overtaken => e.at \in overtaken'
      BY <1>1, <2>1 DEF Stamped
  <2>3. LeftBehindForAReason'
    <3> SUFFICES ASSUME NEW e \in events, e.at <= config'[Owner[e.tx]].cursor
                 PROVE  \/ Shows(config'[Owner[e.tx]].sheet, e.tx, e.ver)
                        \/ e.at \in overtaken'
                        \/ Owner[e.tx] \in moved'
        BY <1>2 DEF LeftBehindForAReason, Shows
    <3>1. CASE Owner[e.tx] = u
        BY <1>5, <1>6, <1>9, <3>1
    <3>2. CASE Owner[e.tx] # u
      <4>1. PICK v \in User : v = Owner[e.tx]
          BY <1>6
      <4>2. config'[v] = config[v] /\ (v \in moved' <=> v \in moved)
          BY <1>5, <2>1, <3>2, <4>1
      <4> QED
          BY <1>1, <2>2, <3>2, <4>1, <4>2 DEF LeftBehindForAReason
    <3> QED
        BY <3>1, <3>2
  <2>4. ASSUME NEW r \in Runner PROVE RunCursor(r)'
    <3>1. DOMAIN todo[r] \subseteq User
        BY <1>1 DEF Typed, ExportTypeOK
    <3>2. ASSUME NEW v \in DOMAIN todo[r], v \notin moved'
          PROVE  /\ todo[r][v].sheet = config'[v].sheet
                 /\ todo[r][v].cursor = config'[v].cursor
      <4>1. v \in User /\ v # u
          BY <2>1, <3>1, <3>2
      <4>2. config'[v] = config[v] /\ v \notin moved
          BY <1>5, <2>1, <3>2, <4>1
      <4> QED
          BY <1>1, <3>2, <4>2 DEF RunCursor, AsRead
    <3>3. AsRead(r)'
        BY <1>2, <3>2 DEF AsRead
    <3>4. Working(r)'
      <4> SUFFICES ASSUME pc[r] \in {"find", "write", "mark"}, Current(r) \notin moved',
                          NEW e \in events, Owner[e.tx] = Current(r)
                   PROVE  Covered(r, e)'
          BY <1>2, <1>7 DEF Working
      <4>1. Current(r) \in DOMAIN todo[r] /\ Current(r) \in User
          BY <1>1, TargetSheet
      <4>2. Current(r) # u /\ Current(r) \notin moved
          BY <2>1, <4>1
      <4>3. Covered(r, e)
          BY <1>1, <4>2 DEF RunCursor, Working
      <4>4. e.at \in overtaken => e.at \in overtaken'
          BY <2>2, <4>2
      <4> QED
          BY <1>2, <1>7, <4>3, <4>4 DEF Covered, Shows
    <3> QED
        BY <1>7, <3>3, <3>4 DEF RunCursor
  <2> QED
      BY <2>3, <2>4 DEF CursorInv
<1> QED
    BY <1>8, <1>9

(* Whatever is written, what is behind an unmoved cursor stays shown.      *)
LEMMA BehindKept ==
    ASSUME Typed, Typed', LeftBehindForAReason, RowsForward,
           UNCHANGED <<events, overtaken, moved>>,
           \A u \in User : /\ config'[u].sheet = config[u].sheet
                           /\ config'[u].cursor = config[u].cursor
    PROVE  LeftBehindForAReason'
<1>1. ASSUME NEW e \in events, e.at <= config'[Owner[e.tx]].cursor,
             e.at \notin overtaken, Owner[e.tx] \notin moved
      PROVE  ShowsNext(config'[Owner[e.tx]].sheet, e.tx, e.ver)
  <2>1. PICK u \in User : u = Owner[e.tx]
      BY DEF Typed, ExportTypeOK, Entry
  <2>2. e.ver \in Nat
      BY DEF Typed, ExportTypeOK, Entry
  <2>3. PICK s : s = config[u].sheet
      OBVIOUS
  <2>4. s \in Sheet
      BY <2>1, <2>3 DEF Typed, ExportTypeOK, ConfigRow
  <2>5. config'[u].sheet = s /\ e.at <= config[u].cursor
      BY <1>1, <2>1, <2>3
  <2>6. Shows(s, e.tx, e.ver)
      BY <1>1, <2>1, <2>3, <2>5 DEF LeftBehindForAReason
  <2>7. ShowsNext(s, e.tx, e.ver)
      BY <2>2, <2>4, <2>6, StillShown
  <2> QED
      BY <2>1, <2>5, <2>7
<1> QED
    BY <1>1 DEF LeftBehindForAReason, Shows, ShowsNext

(* list_pending_events: what the cursor leaves open is given, or is later. *)
LEMMA CursorListed ==
    ASSUME CursorInv, NEW r \in Runner, ListPending(r)
    PROVE  RunCursor(r)'
<1>1. /\ Typed /\ Stamped /\ LeftBehindForAReason /\ AsRead(r) /\ Own
    BY DEF CursorInv, RowsInv, OwnInv, RunCursor
<1>2. PICK u, cursor :
          /\ u = Current(r) /\ cursor = todo[r][u].cursor
          /\ queue' = [queue EXCEPT ![r] = Pending(u, cursor)]
          /\ last' = [last EXCEPT ![r] = cursor]
    BY DEF ListPending
<1>3. pc[r] = "list" /\ UNCHANGED <<ledger, events, config, sheet, todo, overtaken, moved>>
    BY DEF ListPending, ledgerVars, history
<1>4. /\ u \in DOMAIN todo[r] /\ u \in User /\ Target(r) \in Sheet
      /\ cursor \in Nat
    BY <1>1, <1>2, <1>3, TargetSheet DEF ConfigRow
<1>5. last'[r] = cursor /\ queue'[r] = Pending(u, cursor)
    BY <1>1, <1>2 DEF Typed, ExportTypeOK
<1>6. \A f \in Pending(u, cursor) : \E e \in FirstN(After(u, cursor)) :
          f = [tx |-> e.tx, at |-> e.at, ver |-> ledger[e.tx]]
    BY DEF Pending
<1>7. \A e \in FirstN(After(u, cursor)) : e \in events /\ e.at > cursor
    BY DEF FirstN, After
<1>8. Queued(r)'
  <2>1. \A f \in queue'[r] : f.at > cursor
    <3> SUFFICES ASSUME NEW f \in queue'[r] PROVE f.at > cursor
        OBVIOUS
    <3>1. PICK d \in FirstN(After(u, cursor)) :
              f = [tx |-> d.tx, at |-> d.at, ver |-> ledger[d.tx]]
        BY <1>5, <1>6
    <3>2. f.at = d.at
        BY <3>1
    <3> QED
        BY <1>7, <3>2
  <2>2. \A f, g \in queue'[r] : f.at = g.at => f = g
    <3> SUFFICES ASSUME NEW f \in queue'[r], NEW g \in queue'[r], f.at = g.at
                 PROVE  f = g
        OBVIOUS
    <3>1. PICK d \in FirstN(After(u, cursor)) :
              f = [tx |-> d.tx, at |-> d.at, ver |-> ledger[d.tx]]
        BY <1>5, <1>6
    <3>2. PICK e \in FirstN(After(u, cursor)) :
              g = [tx |-> e.tx, at |-> e.at, ver |-> ledger[e.tx]]
        BY <1>5, <1>6
    <3>3. d = e
        BY <1>1, <1>7, <3>1, <3>2 DEF Stamped
    <3> QED
        BY <3>1, <3>2, <3>3
  <2> QED
      BY <1>5, <2>1, <2>2 DEF Queued
<1>9. AsRead(r)'
    BY <1>1, <1>3 DEF AsRead
<1>10. Current(r)' = u /\ Target(r)' = Target(r)
    BY <1>2, <1>3, SameRun
<1>11. ASSUME u \notin moved, NEW e \in events, Owner[e.tx] = u
       PROVE  Covered(r, e)'
  <2>1. e.at \in Nat /\ e.ver \in 1 .. ledger[e.tx] /\ ledger[e.tx] \in Nat
      BY <1>1 DEF Own, Committed, Typed, ExportTypeOK, Entry
  <2>2. cursor = config[u].cursor /\ Target(r) = config[u].sheet
      BY <1>1, <1>2, <1>4, <1>11 DEF AsRead, Target
  <2>3. CASE e.at <= cursor
    <3>1. Shows(Target(r), e.tx, e.ver) \/ e.at \in overtaken
        BY <1>1, <1>11, <2>2, <2>3 DEF LeftBehindForAReason
    <3> QED
        BY <1>3, <1>5, <1>10, <2>3, <3>1 DEF Covered, Shows
  <2>4. CASE ~(e.at <= cursor)
    <3>1. e \in After(u, cursor)
        BY <1>4, <1>11, <2>1, <2>4 DEF After
    <3>2. CASE e \in FirstN(After(u, cursor))
      <4>1. [tx |-> e.tx, at |-> e.at, ver |-> ledger[e.tx]] \in queue'[r]
          BY <1>5, <3>2 DEF Pending
      <4> QED
          BY <2>1, <4>1 DEF Covered
    <3>3. CASE e \notin FirstN(After(u, cursor))
      <4>1. \A d \in FirstN(After(u, cursor)) : d.at < e.at
          BY <1>1, <3>1, <3>3, FirstAreFirst
      <4>2. \A f \in queue'[r] : f.at < e.at
          BY <1>5, <1>6, <4>1
      <4> QED
          BY <1>4, <1>5, <2>1, <2>4, <4>2 DEF Covered
    <3> QED
        BY <3>2, <3>3
  <2> QED
      BY <2>3, <2>4
<1>12. Working(r)'
    BY <1>3, <1>10, <1>11 DEF Working
<1> QED
    BY <1>8, <1>9, <1>12 DEF RunCursor

(* A row written is an event shown: the cursor may move on to it.          *)
LEMMA CursorWritten ==
    ASSUME CursorInv, NEW r \in Runner, WriteRow(r), Typed', RowsForward
    PROVE  RunCursor(r)'
<1>1. Typed /\ Stamped /\ Queued(r) /\ AsRead(r) /\ Working(r)
    BY DEF CursorInv, RowsInv, OwnInv, RunCursor
<1>2. PICK s, e, n : s = Target(r) /\ e = Head1(r) /\ n = row[r]
    OBVIOUS
<1>3. pc[r] = "write" /\ Put(r)
    BY DEF WriteRow
<1>4. /\ s \in Sheet /\ e \in queue[r] /\ e \in Entry
      /\ \E k : PutRow(s, k, [tx |-> e.tx, ver |-> e.ver])
    BY <1>1, <1>2, <1>3, PutWrites
<1>5. /\ queue'[r] = queue[r] \ {e} /\ last'[r] = e.at
      /\ UNCHANGED <<events, config, todo, overtaken, moved>>
    BY <1>1, <1>2 DEF WriteRow, Typed, ExportTypeOK, ledgerVars, history
<1>6. /\ \A f \in queue[r] : e.at <= f.at /\ f.at \in Nat /\ f.ver \in Nat /\ f.at > last[r]
      /\ e.at \in Nat /\ last[r] \in Nat
  <2>1. queue[r] # {}
      BY <1>4
  <2>2. \A f \in queue[r] : Head1(r).at <= f.at
      BY <1>1, <2>1, HeadEvent
  <2>3. \A f \in queue[r] : f.at \in Nat /\ f.ver \in Nat /\ f.at > last[r]
      BY <1>1 DEF Typed, ExportTypeOK, Entry, Queued
  <2>4. last[r] \in Nat
      BY <1>1 DEF Typed, ExportTypeOK
  <2> QED
      BY <1>2, <1>4, <2>2, <2>3, <2>4
<1>7. AsRead(r)'
    BY <1>1, <1>5 DEF AsRead
<1>8. Current(r)' = Current(r) /\ Target(r)' = s
    BY <1>2, <1>5, SameRun
<1>9. Queued(r)'
  <2>1. \A f \in queue'[r] : f.at > e.at
      BY <1>1, <1>4, <1>5, <1>6 DEF Queued
  <2> QED
      BY <1>1, <1>5, <2>1 DEF Queued
<1>10. ASSUME NEW d \in events, Covered(r, d)
       PROVE  Covered(r, d)'
  <2>1. d.at \in Nat /\ d.ver \in Nat
      BY <1>1 DEF Typed, ExportTypeOK, Entry
  <2>2. CASE d.at \in overtaken
      BY <1>5, <2>2 DEF Covered
  <2>3. CASE d.at <= last[r] /\ Shows(s, d.tx, d.ver)
    <3>1. ShowsNext(s, d.tx, d.ver)
        BY <1>1, <1>4, <2>1, <2>3, StillShown
    <3>2. d.at <= e.at
        BY <1>4, <1>6, <2>1, <2>3
    <3> QED
        BY <1>5, <1>8, <3>1, <3>2 DEF Covered, Shows, ShowsNext
  <2>4. ASSUME NEW f \in queue[r], f.at = d.at, f.tx = d.tx, f.ver >= d.ver
        PROVE  Covered(r, d)'
    <3>1. CASE f = e
      <4>1. PICK k : PutRow(s, k, [tx |-> e.tx, ver |-> e.ver])
          BY <1>4
      <4>2. k \in DOMAIN sheet'[s] /\ sheet'[s][k].tx = e.tx /\ sheet'[s][k].ver = e.ver
          BY <4>1 DEF PutRow
      <4>3. ShowsNext(s, d.tx, d.ver)
          BY <2>4, <3>1, <4>2 DEF ShowsNext
      <4>4. d.at <= e.at
          BY <2>1, <2>4, <3>1
      <4> QED
          BY <1>5, <1>8, <4>3, <4>4 DEF Covered, Shows, ShowsNext
    <3>2. CASE f # e
      <4>1. f \in queue'[r]
          BY <1>5, <3>2
      <4> QED
          BY <2>4, <4>1 DEF Covered
    <3> QED
        BY <3>1, <3>2
  <2>5. CASE d.at > last[r] /\ \A f \in queue[r] : f.at < d.at
    <3>1. d.at > e.at /\ \A f \in queue'[r] : f.at < d.at
        BY <1>4, <1>5, <1>6, <2>1, <2>5
    <3> QED
        BY <1>5, <3>1 DEF Covered
  <2> QED
      BY <1>2, <1>10, <2>2, <2>3, <2>4, <2>5 DEF Covered
<1>11. Working(r)'
    BY <1>1, <1>3, <1>5, <1>8, <1>10 DEF Working
<1> QED
    BY <1>7, <1>9, <1>11 DEF RunCursor

(* mark_synced: what is stored is shown in the spreadsheet it is stored for.*)
LEMMA CursorMarked ==
    ASSUME CursorInv, NEW r \in Runner, MarkSynced(r)
    PROVE  /\ LeftBehindForAReason'
           /\ \A u \in User \ {Current(r)} : config'[u] = config[u]
<1>1. /\ Typed /\ Stamped /\ LeftBehindForAReason /\ Queued(r) /\ AsRead(r) /\ Working(r)
    BY DEF CursorInv, RowsInv, OwnInv, RunCursor
<1>2. PICK u, at : u = Current(r) /\ at = last[r]
    OBVIOUS
<1>3. /\ pc[r] = "mark" /\ config' = [config EXCEPT ![u] = StoreCursor(config[u], at)]
      /\ UNCHANGED <<events, sheet, overtaken, moved>>
    BY <1>2 DEF MarkSynced, ledgerVars, history
<1>4. u \in DOMAIN todo[r] /\ u \in User /\ config \in [User -> ConfigRow] /\ at \in Nat
    BY <1>1, <1>2, <1>3, TargetSheet DEF Typed, ExportTypeOK
<1>5. config[u] \in ConfigRow
    BY <1>4
<1>6. /\ config'[u].sheet = config[u].sheet
      /\ config'[u].cursor = IF at = 0 THEN config[u].cursor ELSE at
      /\ \A v \in User \ {u} : config'[v] = config[v]
    BY <1>3, <1>4, <1>5 DEF StoreCursor, ConfigRow
<1>7. LeftBehindForAReason'
  <2> SUFFICES ASSUME NEW e \in events, e.at <= config'[Owner[e.tx]].cursor,
                      e.at \notin overtaken, Owner[e.tx] \notin moved
               PROVE  Shows(config'[Owner[e.tx]].sheet, e.tx, e.ver)
      BY <1>3 DEF LeftBehindForAReason, Shows
  <2>1. Owner[e.tx] \in User /\ e.at \in Nat
      BY <1>1 DEF Typed, ExportTypeOK, Entry
  <2>2. CASE config'[Owner[e.tx]].cursor = config[Owner[e.tx]].cursor
      BY <1>1, <1>6, <2>1, <2>2 DEF LeftBehindForAReason
  <2>3. CASE Owner[e.tx] = u /\ config'[u].cursor = at
    <3>1. Target(r) = config'[u].sheet
        BY <1>1, <1>2, <1>4, <1>6, <2>3 DEF AsRead, Target
    <3>2. Covered(r, e)
        BY <1>1, <1>2, <1>3, <2>3 DEF Working
    <3>3. \A f \in queue[r] : f.at > at /\ f.at \in Nat
        BY <1>1, <1>2 DEF Queued, Typed, ExportTypeOK, Entry
    <3>4. Shows(Target(r), e.tx, e.ver)
        BY <1>2, <1>4, <2>1, <2>3, <3>2, <3>3 DEF Covered
    <3> QED
        BY <2>3, <3>1, <3>4
  <2> QED
      BY <1>6, <2>1, <2>2, <2>3
<1> QED
    BY <1>2, <1>6, <1>7

(* A run leaves a user; the rows it has still to serve are as it read them.*)
LEMMA CursorLeft ==
    ASSUME Typed, NEW r \in Runner, AsRead(r), moved' = moved,
           Advance(r) \/ Leave(r, <<>>), pc[r] # "idle",
           \A u \in User \ {Current(r)} : /\ config'[u].sheet = config[u].sheet
                                          /\ config'[u].cursor = config[u].cursor
    PROVE  RunCursor(r)'
<1>1. PICK rows : /\ Leave(r, rows) /\ DOMAIN rows \subseteq DOMAIN todo[r] \ {Current(r)}
                  /\ \A u \in DOMAIN rows : rows[u] = todo[r][u]
  <2>1. CASE Leave(r, <<>>)
      BY <2>1
  <2>2. CASE Advance(r)
    <3>1. PICK rows : rows = [v \in DOMAIN todo[r] \ {Current(r)} |-> todo[r][v]]
        OBVIOUS
    <3> QED
        BY <2>2, <3>1 DEF Advance
  <2> QED
      BY <2>1, <2>2
<1>2. todo'[r] = rows /\ queue'[r] = {} /\ pc'[r] \in {"idle", "list"}
    BY <1>1, Leaving
<1>3. DOMAIN todo[r] \subseteq User
    BY DEF Typed, ExportTypeOK
<1>4. AsRead(r)'
    BY <1>1, <1>2, <1>3 DEF AsRead
<1>5. Queued(r)' /\ Working(r)'
    BY <1>2 DEF Queued, Working
<1> QED
    BY <1>4, <1>5 DEF RunCursor

LEMMA CursorTurn ==
    ASSUME CursorInv, NEW r \in Runner, RunTurn(r), RowsInv', RowsForward
    PROVE  Stamped' /\ LeftBehindForAReason' /\ RunCursor(r)'
<1>1. /\ Typed /\ Stamped /\ LeftBehindForAReason /\ RunCursor(r) /\ Typed'
      /\ Queued(r) /\ AsRead(r)
    BY DEF CursorInv, RowsInv, OwnInv, RunCursor
<1>2. /\ events' = events /\ open' = open /\ clock' = clock
      /\ overtaken' = overtaken /\ moved' = moved
    BY DEF RunTurn, RunnerStep, Start, ListPending, FindRow, WriteRow, MarkSynced,
       MarkFailed, HeaderRefused, CallFails, WriteLost, RunDies, ledgerVars, history
<1>3. Stamped'
    BY <1>1, <1>2, StampedStep
<1>4. ASSUME \A u \in User : /\ config'[u].sheet = config[u].sheet
                             /\ config'[u].cursor = config[u].cursor
      PROVE  LeftBehindForAReason'
    BY <1>1, <1>2, <1>4, BehindKept
<1>5. CASE Start(r)
  <2>1. /\ config' = config /\ last'[r] = last[r] /\ queue'[r] = queue[r]
        /\ todo'[r] = [u \in {v \in User : config[v].enabled} |-> config[u]]
        /\ pc'[r] \in {"idle", "list"}
      BY <1>1, <1>5 DEF Start, Goto, Typed, ExportTypeOK
  <2>2. Queued(r)' /\ AsRead(r)' /\ Working(r)'
      BY <1>1, <2>1 DEF Queued, AsRead, Working
  <2> QED
      BY <1>3, <1>4, <2>1, <2>2 DEF RunCursor
<1>6. CASE ListPending(r)
  <2>1. config' = config
      BY <1>6 DEF ListPending
  <2> QED
      BY <1>3, <1>4, <1>6, <2>1, CursorListed
<1>7. CASE WriteRow(r)
  <2>1. config' = config
      BY <1>7 DEF WriteRow
  <2> QED
      BY <1>1, <1>3, <1>4, <1>7, <2>1, CursorWritten
<1>8. CASE FindRow(r)
  <2>1. /\ config' = config /\ last' = last /\ queue' = queue /\ todo' = todo
        /\ sheet' = sheet /\ pc[r] = "find"
      BY <1>8 DEF FindRow
  <2>2. RunCursor(r)'
      BY <1>1, <1>2, <2>1, RunKept
  <2> QED
      BY <1>3, <1>4, <2>1, <2>2
<1>9. CASE HeaderRefused(r) \/ CallFails(r) \/ WriteLost(r)
  <2>1. /\ config' = config /\ last' = last /\ queue' = queue /\ todo' = todo
        /\ pc'[r] = "failed"
      BY <1>1, <1>9 DEF HeaderRefused, CallFails, WriteLost, Goto, runVars, Typed, ExportTypeOK
  <2>2. Queued(r)' /\ AsRead(r)' /\ Working(r)'
      BY <1>1, <1>2, <2>1 DEF Queued, AsRead, Working
  <2> QED
      BY <1>3, <1>4, <2>1, <2>2 DEF RunCursor
<1>10. CASE MarkSynced(r)
  <2>1. /\ LeftBehindForAReason'
        /\ \A u \in User \ {Current(r)} : config'[u] = config[u]
      BY <1>10, CursorMarked
  <2>2. Advance(r) /\ pc[r] # "idle"
      BY <1>1, <1>10, MarkTyped
  <2>3. RunCursor(r)'
      BY <1>1, <1>2, <2>1, <2>2, CursorLeft
  <2> QED
      BY <1>3, <2>1, <2>3
<1>11. CASE MarkFailed(r)
  <2>1. Advance(r) /\ pc[r] # "idle"
      BY <1>1, <1>11, MarkTyped
  <2>2. config \in [User -> ConfigRow] /\ Current(r) \in User
      BY <1>1, <2>1, TargetSheet DEF Typed, ExportTypeOK
  <2>3. config' = [config EXCEPT ![Current(r)].failing = TRUE]
      BY <1>11 DEF MarkFailed
  <2>4. \A u \in User : config[u] \in ConfigRow
      BY <2>2
  <2>5. \A u \in User : /\ config'[u].sheet = config[u].sheet
                        /\ config'[u].cursor = config[u].cursor
      BY <2>2, <2>3, <2>4 DEF ConfigRow
  <2>6. RunCursor(r)'
      BY <1>1, <1>2, <2>1, <2>5, CursorLeft
  <2> QED
      BY <1>3, <1>4, <2>5, <2>6
<1>12. CASE RunDies(r)
  <2>1. config' = config /\ Leave(r, <<>>) /\ pc[r] # "idle"
      BY <1>12 DEF RunDies
  <2>2. RunCursor(r)'
      BY <1>1, <1>2, <2>1, CursorLeft
  <2> QED
      BY <1>3, <1>4, <2>1, <2>2
<1> QED
    BY <1>5, <1>6, <1>7, <1>8, <1>9, <1>10, <1>11, <1>12 DEF RunTurn, RunnerStep

LEMMA CursorInit == Init => CursorInv
<1> SUFFICES ASSUME Init PROVE CursorInv
    OBVIOUS
<1>1. RowsInv /\ Typed
    BY RowsInit, TypedInit
<1>2. /\ events = {} /\ open = {} /\ todo = [r \in Runner |-> <<>>]
      /\ pc = [r \in Runner |-> "idle"] /\ queue = [r \in Runner |-> {}]
    BY DEF Init
<1>3. IsFiniteSet(events)
    BY <1>2, FS_EmptySet
<1>4. Stamped
    BY <1>2, <1>3 DEF Stamped
<1>5. \A r \in Runner : Queued(r) /\ AsRead(r) /\ Working(r)
    BY <1>2 DEF Queued, AsRead, Working
<1>6. LeftBehindForAReason
    BY <1>2 DEF LeftBehindForAReason
<1> QED
    BY <1>1, <1>4, <1>5, <1>6 DEF CursorInv, RunCursor

LEMMA CursorStep ==
    ASSUME Alone, CursorInv, [Next]_vars
    PROVE  CursorInv'
<1>1. RowsInv' /\ RowsForward /\ Typed /\ Stamped
    BY RowsStep DEF CursorInv, RowsInv, OwnInv
<1>2. ASSUME NEW r \in Runner, RunTurn(r) PROVE CursorInv'
  <2>1. Stamped' /\ LeftBehindForAReason' /\ RunCursor(r)'
      BY <1>1, <1>2, CursorTurn
  <2>2. \A q \in Runner : q = r
      BY DEF Alone
  <2>3. \A q \in Runner : RunCursor(q)'
      BY <2>1, <2>2
  <2> QED
      BY <1>1, <2>1, <2>3 DEF CursorInv
<1>3. ASSUME NEW o \in open, CommitWrite(o) PROVE CursorInv'
  <2>1. Stamped'
      BY <1>1, <1>3, StampedStep
  <2> QED
      BY <1>1, <1>3, <2>1, CursorCommit
<1>4. ASSUME NEW u \in User, NEW s \in Sheet, NEW on \in BOOLEAN, Reconfigure(u, s, on)
      PROVE  CursorInv'
  <2>1. clock' = clock /\ open' = open /\ events' = events
      BY <1>4 DEF Reconfigure, ledgerVars
  <2>2. Stamped'
      BY <1>1, <2>1, StampedStep
  <2> QED
      BY <1>1, <1>4, <2>2, CursorReconfigure
<1>5. CASE \/ \E t \in Tx : Stamp(t)
           \/ \E o \in open : RollBack(o)
           \/ UNCHANGED vars
  <2>1. UNCHANGED <<events, config, sheet, pc, todo, queue, last, overtaken, moved>>
      BY <1>5 DEF Stamp, RollBack, vars, runVars, history
  <2>2. Stamped'
    <3>1. UNCHANGED vars => clock' = clock /\ open' = open /\ events' = events
        BY DEF vars
    <3> QED
        BY <1>1, <1>5, <3>1, StampedStep
  <2> QED
      BY <1>1, <2>1, <2>2, CursorKeptQuiet
<1> QED
    BY <1>2, <1>3, <1>4, <1>5 DEF Next, RunTurn

(* When runs follow each other, the cursor passes an event that the user's *)
(* spreadsheet does not show for two reasons only: it committed when a     *)
(* later stamped event of its user was exported or listed already, or the  *)
(* user's spreadsheet was changed while a run held the old one.  Failed    *)
(* calls, lost answers, killed runs, the batch size and moves to a new     *)
(* spreadsheet between runs, which start over, leave nothing behind.  That *)
(* the first reason is a real one is what SheetExport_LateCommit shows.    *)
THEOREM NothingIsLeftBehind ==
    ASSUME Alone
    PROVE  Spec => []LeftBehindForAReason
<1>1. CursorInv /\ [Next]_vars => CursorInv'
    BY CursorStep
<1>2. CursorInv => LeftBehindForAReason
    BY DEF CursorInv
<1> QED
    BY <1>1, <1>2, CursorInit, PTL DEF Spec

=============================================================================
