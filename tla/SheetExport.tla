---------------------------- MODULE SheetExport ----------------------------
(***************************************************************************)
(* The one-way projection of the PostgreSQL ledger into each user's Google *)
(* Sheet.                                                                  *)
(*                                                                         *)
(*   core/sheet_export_service.py                      one run: sync_once  *)
(*   integrations/postgres/sheet_export_repository.py  cursor and config   *)
(*   integrations/google_sheets/ledger_export.py       upsert of one row   *)
(*   scripts/deploy_sheet_projection_job.sh            a run every 5 min   *)
(*                                                                         *)
(* A runner is one execution of the job.  Each database statement and each *)
(* Sheets call is an action.  The ledger moves on meanwhile: an event gets *)
(* its created_at before its transaction commits (Stamp, then Commit).     *)
(* Each committed write is one event here; a batch commits several.        *)
(***************************************************************************)
EXTENDS Naturals, Sequences, FiniteSets

CONSTANTS
    User,         \* users with an export row; runs take them in id order
    Tx,           \* transactions
    Owner,        \* the user of each transaction
    Sheet,        \* spreadsheets
    Holder,       \* the user each spreadsheet is set up for
    Broken,       \* spreadsheets without a valid Ledger worksheet
    Runner,       \* executions of the job that may overlap
    BatchSize,    \* --batch-size
    MaxEvents,    \* bound: event stamps
    MaxFailures,  \* bound: failed calls and killed runs
    MaxReconfigs  \* bound: changes of an export row

ASSUME ExportAssumption ==
    /\ User \subseteq Nat
    /\ Owner \in [Tx -> User]
    /\ Holder \in [Sheet -> User]
    /\ Broken \subseteq Sheet
    /\ BatchSize \in Nat \ {0}
    /\ MaxEvents \in Nat /\ MaxFailures \in Nat /\ MaxReconfigs \in Nat

VARIABLES
    ledger,    \* content version of each transaction, 0 before it exists
    events,    \* committed transaction_events: [tx, at, ver]
    open,      \* uncommitted writes: [tx, at]
    clock,     \* the last event stamp
    config,    \* google_sheet_exports: [sheet, enabled, cursor, failing]
    sheet,     \* rows of each Ledger worksheet: [tx, ver]
    pc,        \* where each runner is
    todo,      \* export rows it read and has still to serve, by user
    queue,     \* events of the current user it has still to upsert
    last,      \* cursor it will store for the current user
    row,       \* row number the next write goes to, 0 to append
    overtaken, \* history: stamps of events that committed too late
    moved,     \* history: users whose spreadsheet changed during a run
    failures, reconfigs

ledgerVars == <<ledger, events, open, clock>>
runVars == <<todo, queue, last, row>>
history == <<overtaken, moved>>
vars == <<ledger, events, open, clock, config, sheet, pc, todo, queue, last,
          row, overtaken, moved, failures, reconfigs>>

ConfigRow == [sheet : Sheet, enabled : BOOLEAN, cursor : Nat, failing : BOOLEAN]

NewExport(s) == [sheet |-> s, enabled |-> TRUE, cursor |-> 0, failing |-> FALSE]

(* The cursor is an event id; stamps name events here, 0 is no event.      *)
Init ==
    /\ ledger = [t \in Tx |-> 0]
    /\ events = {} /\ open = {} /\ clock = 0
    /\ \E home \in [User -> Sheet] :
        /\ \A u \in User : Holder[home[u]] = u
        /\ config = [u \in User |-> NewExport(home[u])]
    /\ sheet = [s \in Sheet |-> <<>>]
    /\ pc = [r \in Runner |-> "idle"]
    /\ todo = [r \in Runner |-> <<>>]
    /\ queue = [r \in Runner |-> {}]
    /\ last = [r \in Runner |-> 0]
    /\ row = [r \in Runner |-> 0]
    /\ overtaken = {} /\ moved = {}
    /\ failures = 0 /\ reconfigs = 0

-----------------------------------------------------------------------------
(* The ledger *)

(* A write of t gets its created_at: from the clock of the executor for a  *)
(* new transaction, from now(), the start of the database transaction, for *)
(* an update.  The row lock admits one writer per transaction.             *)
Stamp(t) ==
    /\ clock < MaxEvents
    /\ \A o \in open : o.tx # t
    /\ clock' = clock + 1
    /\ open' = open \cup {[tx |-> t, at |-> clock + 1]}
    /\ UNCHANGED <<ledger, events, config, sheet, pc, runVars, history, failures,
                   reconfigs>>

First(S, key(_)) == CHOOSE x \in S : \A y \in S : key(x) <= key(y)

(* What every run does for one user: it lists, exports, stores the cursor. *)
Current(r) == First(DOMAIN todo[r], LAMBDA u : u)
Serves(r, u) == pc[r] \in {"find", "write", "mark"} /\ u = Current(r)

(* A later stamped event of the user was exported before this one is       *)
(* committed, or is in the hands of a run that has listed already.         *)
TooLate(u, at) ==
    \/ at <= config[u].cursor
    \/ \E r \in Runner :
        Serves(r, u) /\ (at <= last[r] \/ \E e \in queue[r] : at <= e.at)

CommitWrite(o) ==
    /\ open' = open \ {o}
    /\ ledger' = [ledger EXCEPT ![o.tx] = @ + 1]
    /\ events' = events \cup {[tx |-> o.tx, at |-> o.at, ver |-> ledger[o.tx] + 1]}
    /\ overtaken' = overtaken \cup {n \in {o.at} : TooLate(Owner[o.tx], n)}
    /\ UNCHANGED <<clock, config, sheet, pc, runVars, moved, failures, reconfigs>>

RollBack(o) ==
    /\ open' = open \ {o}
    /\ UNCHANGED <<ledger, events, clock, config, sheet, pc, runVars, history,
                   failures, reconfigs>>

(* Mutant: the cursor is kept for a new spreadsheet.                       *)
CursorKept(c, s) == c.cursor

(* upsert_export_config, by an operator: a new spreadsheet starts over.    *)
CursorAfter(c, s) == IF c.sheet = s THEN c.cursor ELSE 0

(* A move to another spreadsheet lists all events of the user anew, unless *)
(* a run has read the row already and stores the cursor of the old one.    *)
NoteMove(u, s) ==
    IF config[u].sheet = s THEN UNCHANGED history
    ELSE /\ overtaken' = overtaken \ {e.at : e \in {d \in events : Owner[d.tx] = u}}
         /\ moved' = IF \E r \in Runner : u \in DOMAIN todo[r]
                     THEN moved \cup {u} ELSE moved \ {u}

Reconfigure(u, s, on) ==
    /\ reconfigs < MaxReconfigs
    /\ Holder[s] = u
    /\ config' = [config EXCEPT ![u] =
           [sheet |-> s, enabled |-> on, cursor |-> CursorAfter(@, s),
            failing |-> FALSE]]
    /\ reconfigs' = reconfigs + 1
    /\ NoteMove(u, s)
    /\ UNCHANGED <<ledgerVars, sheet, pc, runVars, failures>>

-----------------------------------------------------------------------------
(* One run of the job: sync_once *)

Goto(r, label) == pc' = [pc EXCEPT ![r] = label]

Head1(r) == First(queue[r], LAMBDA e : e.at)
Target(r) == todo[r][Current(r)].sheet

(* list_enabled_exports: the rows, cursors included, as they are now.      *)
Start(r) ==
    /\ pc[r] = "idle"
    /\ LET rows == [u \in {v \in User : config[v].enabled} |-> config[u]] IN
       /\ todo' = [todo EXCEPT ![r] = rows]
       /\ Goto(r, IF rows = <<>> THEN "idle" ELSE "list")
    /\ UNCHANGED <<ledgerVars, config, sheet, queue, last, row, history, failures,
                   reconfigs>>

(* Mutant: the events of all users.                                        *)
AfterOfAnyone(u, cursor) == {e \in events : e.at > cursor}

(* list_pending_events: the first BatchSize committed events of the user   *)
(* after the cursor, each with the transaction as it is now.               *)
After(u, cursor) == {e \in events : Owner[e.tx] = u /\ e.at > cursor}
FirstN(S) == {e \in S : Cardinality({d \in S : d.at <= e.at}) <= BatchSize}

(* Mutant: the amount and fields as the event recorded them.               *)
PendingAsRecorded(u, cursor) == FirstN(After(u, cursor))

Pending(u, cursor) ==
    {[tx |-> e.tx, at |-> e.at, ver |-> ledger[e.tx]] : e \in FirstN(After(u, cursor))}

ListPending(r) ==
    LET u == Current(r)
        cursor == todo[r][u].cursor
        found == Pending(u, cursor)
    IN
    /\ pc[r] = "list"
    /\ queue' = [queue EXCEPT ![r] = found]
    /\ last' = [last EXCEPT ![r] = cursor]
    /\ Goto(r, IF found = {} THEN "mark" ELSE "find")
    /\ UNCHANGED <<ledgerVars, config, sheet, todo, row, history, failures, reconfigs>>

(* Mutants: always append; 0 is the header row and -1 means no row.        *)
NoRow(s, t) == 0
NoRowIsNegative(s, t) ==
    LET rows == {i \in DOMAIN sheet[s] : sheet[s][i].tx = t} IN
    IF rows = {} THEN 0 - 1 ELSE First(rows, LAMBDA i : i)

(* get_values: the number of the first row with the transaction's id.      *)
RowOf(s, t) ==
    LET rows == {i \in DOMAIN sheet[s] : sheet[s][i].tx = t} IN
    IF rows = {} THEN 0 ELSE First(rows, LAMBDA i : i)

FindRow(r) ==
    /\ pc[r] = "find" /\ Target(r) \notin Broken
    /\ row' = [row EXCEPT ![r] = RowOf(Target(r), Head1(r).tx)]
    /\ Goto(r, "write")
    /\ UNCHANGED <<ledgerVars, config, sheet, todo, queue, last, history, failures,
                   reconfigs>>

(* update_values or append_values.                                         *)
Put(r) ==
    LET s == Target(r) e == Head1(r) new == [tx |-> e.tx, ver |-> e.ver] IN
    sheet' = [sheet EXCEPT ![s] =
                 IF row[r] = 0 THEN Append(@, new) ELSE [@ EXCEPT ![row[r]] = new]]

WriteRow(r) ==
    LET rest == queue[r] \ {Head1(r)} IN
    /\ pc[r] = "write"
    /\ Put(r)
    /\ last' = [last EXCEPT ![r] = Head1(r).at]
    /\ queue' = [queue EXCEPT ![r] = rest]
    /\ row' = [row EXCEPT ![r] = 0]
    /\ Goto(r, IF rest = {} THEN "mark" ELSE "find")
    /\ UNCHANGED <<ledgerVars, config, todo, history, failures, reconfigs>>

(* What the run holds from here on: nothing of the current user.           *)
Leave(r, rows) ==
    /\ todo' = [todo EXCEPT ![r] = rows]
    /\ queue' = [queue EXCEPT ![r] = {}]
    /\ last' = [last EXCEPT ![r] = 0]
    /\ row' = [row EXCEPT ![r] = 0]
    /\ Goto(r, IF rows = <<>> THEN "idle" ELSE "list")

(* The next user, or the end of the run.                                   *)
Advance(r) ==
    Leave(r, [v \in DOMAIN todo[r] \ {Current(r)} |-> todo[r][v]])

(* Mutant: the cursor is not stored.                                       *)
StoreNothing(c, at) == [c EXCEPT !.failing = FALSE]

(* mark_synced: the last event upserted, or the cursor that was read; when *)
(* both are null the stored cursor stays.                                  *)
StoreCursor(c, at) == [c EXCEPT !.cursor = IF at = 0 THEN @ ELSE at, !.failing = FALSE]

MarkSynced(r) ==
    /\ pc[r] = "mark"
    /\ config' = [config EXCEPT ![Current(r)] = StoreCursor(@, last[r])]
    /\ Advance(r)
    /\ UNCHANGED <<ledgerVars, sheet, history, failures, reconfigs>>

(* mark_failed, after any exception in the work for one user.              *)
MarkFailed(r) ==
    /\ pc[r] = "failed"
    /\ config' = [config EXCEPT ![Current(r)].failing = TRUE]
    /\ Advance(r)
    /\ UNCHANGED <<ledgerVars, sheet, history, failures, reconfigs>>

(* The worksheet or its header row is missing: every read raises.          *)
HeaderRefused(r) ==
    /\ pc[r] = "find" /\ Target(r) \in Broken
    /\ Goto(r, "failed")
    /\ UNCHANGED <<ledgerVars, config, sheet, runVars, history, failures, reconfigs>>

-----------------------------------------------------------------------------
(* Failures *)

Failure == failures < MaxFailures /\ failures' = failures + 1

(* A database or Sheets call raises without effect.                        *)
CallFails(r) ==
    /\ pc[r] \in {"list", "find", "write", "mark"}
    /\ Failure
    /\ Goto(r, "failed")
    /\ UNCHANGED <<ledgerVars, config, sheet, runVars, history, reconfigs>>

(* The row is written, the answer of the Sheets API is lost.               *)
WriteLost(r) ==
    /\ pc[r] = "write"
    /\ Failure
    /\ Put(r)
    /\ Goto(r, "failed")
    /\ UNCHANGED <<ledgerVars, config, runVars, history, reconfigs>>

(* The run ends: killed, or mark_failed raises out of the loop.            *)
RunDies(r) ==
    /\ pc[r] # "idle"
    /\ Failure
    /\ Leave(r, <<>>)
    /\ UNCHANGED <<ledgerVars, config, sheet, history, reconfigs>>

-----------------------------------------------------------------------------
RunnerStep(r) ==
    \/ Start(r) \/ ListPending(r) \/ FindRow(r) \/ WriteRow(r)
    \/ MarkSynced(r) \/ MarkFailed(r) \/ HeaderRefused(r)

Next ==
    \/ \E t \in Tx : Stamp(t)
    \/ \E o \in open : CommitWrite(o) \/ RollBack(o)
    \/ \E u \in User, s \in Sheet, on \in BOOLEAN : Reconfigure(u, s, on)
    \/ \E r \in Runner : RunnerStep(r) \/ CallFails(r) \/ WriteLost(r) \/ RunDies(r)

Spec == Init /\ [][Next]_vars

(* The scheduler starts runs for ever, and a run goes on by itself.        *)
FairSpec == Spec /\ \A r \in Runner : WF_vars(RunnerStep(r))

-----------------------------------------------------------------------------
(* Properties *)

Entry == [tx : Tx, at : Nat, ver : Nat]

(* Every variable has its type.                                            *)
ExportTypeOK ==
    /\ ledger \in [Tx -> Nat]
    /\ events \subseteq Entry
    /\ open \subseteq [tx : Tx, at : Nat]
    /\ clock \in Nat
    /\ config \in [User -> ConfigRow]
    /\ sheet \in [Sheet -> Seq([tx : Tx, ver : Nat])]
    /\ pc \in [Runner -> {"idle", "list", "find", "write", "mark", "failed"}]
    /\ \A r \in Runner :
        DOMAIN todo[r] \subseteq User /\ \A u \in DOMAIN todo[r] : todo[r][u] \in ConfigRow
    /\ queue \in [Runner -> SUBSET Entry]
    /\ last \in [Runner -> Nat]
    /\ row \in [Runner -> Nat]
    /\ overtaken \subseteq Nat /\ moved \subseteq User
    /\ failures \in Nat /\ reconfigs \in Nat

Shows(s, t, ver) == \E i \in DOMAIN sheet[s] : sheet[s][i].tx = t /\ sheet[s][i].ver >= ver

(* The cursor never passes an event whose effect is not in the user's      *)
(* sheet: what is behind the cursor is never looked at again.              *)
BehindCursorIsShown ==
    \A e \in events :
        LET c == config[Owner[e.tx]] IN
        e.at <= c.cursor => Shows(c.sheet, e.tx, e.ver)

(* The same but for the two cases in which the code does pass over events: *)
(* one that commits when a later stamped one of its user is on its way or  *)
(* exported already, and a spreadsheet that is changed under a run.  No    *)
(* failed call, lost answer, killed run, broken worksheet or move to a new *)
(* spreadsheet between runs leaves an event behind.                        *)
LeftBehindForAReason ==
    \A e \in events :
        LET c == config[Owner[e.tx]] IN
        e.at <= c.cursor =>
            \/ Shows(c.sheet, e.tx, e.ver)
            \/ e.at \in overtaken
            \/ Owner[e.tx] \in moved

(* A transaction has one row in a sheet, whatever calls and runs failed.   *)
OneRowPerTransaction ==
    \A s \in Sheet : \A i, j \in DOMAIN sheet[s] :
        sheet[s][i].tx = sheet[s][j].tx => i = j

(* A worksheet only ever shows transactions of the user it was set up for, *)
(* with content that was committed.                                        *)
RowsAreOwnAndCommitted ==
    \A s \in Sheet : \A i \in DOMAIN sheet[s] :
        LET shown == sheet[s][i] IN
        Owner[shown.tx] = Holder[s] /\ shown.ver \in 1 .. ledger[shown.tx]

(* A row never goes back to older content.                                 *)
RowsNeverGoBack ==
    [][\A s \in Sheet : \A i \in DOMAIN sheet[s] :
        i \in DOMAIN sheet'[s] /\ sheet'[s][i].ver >= sheet[s][i].ver]_vars

(* Again and again every committed change is in the sheet of a user whose  *)
(* export is enabled and whose worksheet is in order, but for the two      *)
(* cases above: as the writes are finitely many, each of them gets there,  *)
(* though calls fail, runs are killed and the worksheet of another user,   *)
(* served before, is broken.                                               *)
Delivered(e) ==
    LET c == config[Owner[e.tx]] IN
    \/ Shows(c.sheet, e.tx, e.ver)
    \/ e.at \in overtaken \/ Owner[e.tx] \in moved
    \/ ~c.enabled \/ c.sheet \in Broken

ProjectionCatchesUp == []<>(\A e \in events : Delivered(e))
=============================================================================
