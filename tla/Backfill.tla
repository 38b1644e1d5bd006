------------------------------ MODULE Backfill ------------------------------
(***************************************************************************)
(* Moving the ledger from the Transactions worksheet to PostgreSQL.        *)
(*                                                                         *)
(*   scripts/backfill_google_sheets_to_postgres.py   plan, then append     *)
(*   scripts/verify_postgres_backfill.py             compare both ledgers  *)
(*   scripts/migration_utils.py                      keys and equality     *)
(*   docs/postgres-backfill-cutover.md               who runs what         *)
(*                                                                         *)
(* Each read of a ledger and each append is a step.  The bot goes on       *)
(* writing to the ledger it is configured for, an operator switches it to  *)
(* PostgreSQL or back and repairs the worksheet, and runs of the backfill  *)
(* overlap, are killed and are repeated.                                   *)
(***************************************************************************)
EXTENDS Migrations, Integers, FiniteSetsExt

CONSTANTS
    Message,      \* source messages: platform, chat and message id
    NoMessage,    \* a row without that metadata
    UserOf,       \* the user of each message
    Content,      \* what a row may say: [month, amount, currency, category, merchant]
    Said,         \* what users tell the bot
    Start,        \* worksheets the import may begin with
    Quantum,      \* amounts PostgreSQL keeps are multiples of it
    Runner,       \* executions of the backfill
    NeededVersion,\* the backfill needs migrations 1 .. NeededVersion
    MaxWrites     \* bound: writes of the bot

Backend == {"google_sheets", "postgres"}

(* The id of a transaction, by the ledger that recorded its message first. *)
Id == Backend \X (Message \cup {NoMessage})

Row == [id : Id, msg : Message \cup {NoMessage}, made : Nat, changed : Nat, is : Content]

(* numeric(18, 4): PostgreSQL rounds finer amounts.                        *)
Rounded(c) == [c EXCEPT !.amount = ((2 * @ + Quantum) \div (2 * Quantum)) * Quantum]

ASSUME BackfillAssumption ==
    /\ NoMessage \notin Message
    /\ DOMAIN UserOf = Message
    /\ \A c \in Content : c.month \in Nat /\ c.amount \in Nat /\ Rounded(c) \in Content
    /\ Said \subseteq Content /\ Start \subseteq Seq(Row)
    /\ Quantum \in Nat \ {0} /\ NeededVersion \in 1 .. Versions
    /\ MaxWrites \in Nat

VARIABLES
    backend,   \* STORAGE_BACKEND
    sheet,     \* rows of the Transactions worksheet
    pg,        \* rows of transactions
    created,   \* 'created' events, by id
    rpc, source, todo,  \* the runs: phase, rows as read, indexes of those to import
    vpc, read, \* the verification: phase, and the worksheet as it read it
    calm,      \* has nothing been written since it read the worksheet?
    dirty,     \* messages whose transactions the bot put in or changed itself
    writes

ledgerVars == <<sheet, pg, created, dirty>>
runVars == <<rpc, source, todo>>
verifyVars == <<vpc, read>>
vars == <<migrationVars, backend, ledgerVars, runVars, verifyVars, calm, writes>>

Init ==
    /\ MigrationInit
    /\ backend = "google_sheets"
    /\ sheet \in Start
    /\ pg = {}
    /\ created = [i \in Id |-> 0]
    /\ rpc = [r \in Runner |-> "idle"]
    /\ source = [r \in Runner |-> <<>>]
    /\ todo = [r \in Runner |-> {}]
    /\ vpc = "idle" /\ read = <<>> /\ calm = TRUE
    /\ dirty = {}
    /\ writes = 0

(* get_latest_transaction of a user: the rows made last, by their index.   *)
Who(e) == IF e.msg = NoMessage THEN NoMessage ELSE UserOf[e.msg]
Users(s) == {Who(e) : e \in ToSet(s)}
LatestOf(s, u) ==
    {i \in DOMAIN s : Who(s[i]) = u /\ \A e \in ToSet(s) : Who(e) = u => e.made <= s[i].made}

Ready == 1 .. NeededVersion \subseteq recorded

(* A ledger is written: the verification's reading may be out of date.     *)
Writing == calm' = (vpc # "half")
Goto(r, label) == rpc' = [rpc EXCEPT ![r] = label]

-----------------------------------------------------------------------------
(* The PostgreSQL ledger *)

(* Mutant: the column counts in other units.                               *)
WrongScale(e) == [e EXCEPT !.is.amount = @ \div Quantum]

Stored(e) == [e EXCEPT !.is = Rounded(@)]

(* Mutant: a message is not looked up.                                     *)
NotLookedUp(m) == {}

OfMessage(m) == {p \in pg : p.msg = m}

(* append_transaction returns the transaction its message has, or inserts; *)
(* the id is unique.                                                       *)
Insertable(e) == OfMessage(e.msg) = {} /\ \A p \in pg : p.id # e.id

Insert(e) ==
    IF Insertable(e)
    THEN /\ pg' = pg \cup {Stored(e)}
         /\ created' = [created EXCEPT ![e.id] = @ + 1]
    ELSE UNCHANGED <<pg, created>>

-----------------------------------------------------------------------------
(* The bot and the operator *)

NewRow(m, c) ==
    [id |-> <<backend, m>>, msg |-> m, made |-> writes + 2, changed |-> writes + 2, is |-> c]

(* A message is recorded unless find_by_source_message finds it there.     *)
BotAppend(m, c) ==
    /\ writes < MaxWrites /\ writes' = writes + 1
    /\ \/ /\ backend = "google_sheets"
          /\ \A i \in DOMAIN sheet : sheet[i].msg # m
          /\ sheet' = Append(sheet, NewRow(m, c))
          /\ UNCHANGED <<pg, created, dirty>>
       \/ /\ backend = "postgres" /\ Ready
          /\ OfMessage(m) = {}
          /\ Insert(NewRow(m, c))
          /\ dirty' = dirty \cup {m}
          /\ UNCHANGED sheet
    /\ Writing
    /\ UNCHANGED <<migrationVars, backend, runVars, verifyVars>>

Edited(e, c) == [e EXCEPT !.is = c, !.changed = writes + 2]

(* update_transaction of the user's latest: in the worksheet the first of  *)
(* those made last, and the first row that has its id.                     *)
BotUpdate(u, c) ==
    /\ writes < MaxWrites /\ writes' = writes + 1
    /\ \/ /\ backend = "google_sheets" /\ LatestOf(sheet, u) # {}
          /\ LET last == sheet[Min(LatestOf(sheet, u))]
                 i == Min({k \in DOMAIN sheet : sheet[k].id = last.id})
             IN
             /\ sheet' = [sheet EXCEPT ![i] = Edited(@, c)]
             /\ dirty' = dirty \cup {sheet[i].msg}
          /\ UNCHANGED pg
       \/ /\ backend = "postgres"
          /\ \E p \in pg :
              /\ Who(p) = u /\ \A q \in pg : Who(q) = u => q.made <= p.made
              /\ pg' = (pg \ {p}) \cup {Stored(Edited(p, c))}
              /\ dirty' = dirty \cup {p.msg}
          /\ UNCHANGED sheet
    /\ Writing
    /\ UNCHANGED <<migrationVars, backend, created, runVars, verifyVars>>

Switch(b) ==
    /\ b # backend /\ backend' = b
    /\ UNCHANGED <<migrationVars, ledgerVars, runVars, verifyVars, calm, writes>>

-----------------------------------------------------------------------------
(* Backfill *)

(* validate_backfill_records: no metadata, an id twice, a message twice.   *)
Flawed(s) ==
    \E i \in DOMAIN s :
        \/ s[i].msg = NoMessage
        \/ \E j \in 1 .. i - 1 : s[j].id = s[i].id \/ s[j].msg = s[i].msg

(* A blocking issue is resolved by hand: a row that is too many goes.      *)
Repair ==
    /\ \E i \in DOMAIN sheet :
        /\ \/ sheet[i].msg = NoMessage
           \/ \E j \in 1 .. i - 1 : sheet[j].id = sheet[i].id \/ sheet[j].msg = sheet[i].msg
        /\ sheet' = RemoveAt(sheet, i)
    /\ Writing
    /\ UNCHANGED <<migrationVars, backend, pg, created, dirty, runVars, verifyVars, writes>>

(* load_google_sheet_records, in a dry run or with --execute.              *)
LoadSheet(r, mode) ==
    /\ rpc[r] \notin {"dry", "execute", "import"}
    /\ source' = [source EXCEPT ![r] = sheet]
    /\ Goto(r, mode)
    /\ UNCHANGED <<migrationVars, backend, ledgerVars, todo, verifyVars, calm, writes>>

(* records_equivalent: every field, the timestamps included.               *)
Equivalent(e, p) == e = p

(* The rows of PostgreSQL that plan_backfill compares a row with: that of  *)
(* its source message, or else that of its id.                             *)
ById(e) == {p \in pg : p.id = e.id}
Counterpart(e) == IF OfMessage(e.msg) # {} THEN OfMessage(e.msg) ELSE ById(e)

(* Mutant: any row that is there already is a conflict.                    *)
AnyPresent(e) == Counterpart(e) # {}

Blocking(e) ==
    \/ \E p \in OfMessage(e.msg), q \in ById(e) : p # q
    \/ \E p \in Counterpart(e) : ~Equivalent(e, p)

Missing(s) == {i \in DOMAIN s : Counterpart(s[i]) = {}}

(* plan_backfill with target.list_transactions, and what follows from it.  *)
Plan(r) ==
    LET s == source[r]
        refused == Flawed(s) \/ \E i \in DOMAIN s : Blocking(s[i])
    IN
    /\ rpc[r] \in {"dry", "execute"} /\ (Ready \/ Flawed(s))
    /\ todo' = [todo EXCEPT ![r] = IF refused \/ rpc[r] = "dry" THEN {} ELSE Missing(s)]
    /\ Goto(r, IF refused THEN "refused"
               ELSE IF rpc[r] = "dry" THEN "idle"
               ELSE IF Missing(s) = {} THEN "complete" ELSE "import")
    /\ UNCHANGED <<migrationVars, backend, ledgerVars, source, verifyVars, calm, writes>>

(* Mutant: what append_transaction returned is not looked at.              *)
Unchecked(e) == TRUE

(* append_transaction raises if the id is taken, and the run if what it    *)
(* returned is not the row.                                                *)
GoesOn(e) ==
    IF OfMessage(e.msg) = {} THEN Insertable(e)
    ELSE \E p \in OfMessage(e.msg) : Equivalent(e, p)

(* append_transaction of the next row.                                     *)
Import(r) ==
    /\ rpc[r] = "import"
    /\ \E i \in todo[r] :
        LET e == source[r][i] IN
        /\ \A k \in todo[r] : i <= k
        /\ Insert(e)
        /\ todo' = [todo EXCEPT ![r] = IF GoesOn(e) THEN @ \ {i} ELSE {}]
        /\ Goto(r, IF ~GoesOn(e) THEN "refused"
                   ELSE IF todo[r] = {i} THEN "complete" ELSE "import")
    /\ Writing
    /\ UNCHANGED <<migrationVars, backend, sheet, dirty, source, verifyVars, writes>>

(* The run is killed, or a call of it fails; what it appended stays.       *)
RunDies(r) ==
    /\ rpc[r] \in {"dry", "execute", "import"}
    /\ Goto(r, "idle")
    /\ todo' = [todo EXCEPT ![r] = {}]
    /\ source' = [source EXCEPT ![r] = <<>>]
    /\ UNCHANGED <<migrationVars, backend, ledgerVars, verifyVars, calm, writes>>

-----------------------------------------------------------------------------
(* Verification: the worksheet is read first, PostgreSQL after it.         *)

LoadSource ==
    /\ vpc # "half" /\ vpc' = "half"
    /\ read' = sheet /\ UNCHANGED calm
    /\ UNCHANGED <<migrationVars, backend, ledgerVars, runVars, writes>>

Added(s, Key(_), Value(_), k) ==
    FoldSeq(LAMBDA e, sum : sum + (IF Key(e) = k THEN Value(e) ELSE 0), 0, s)

SameBy(s, t, Key(_), Value(_)) ==
    \A k \in {Key(e) : e \in ToSet(s) \cup ToSet(t)} :
        Added(s, Key, Value, k) = Added(t, Key, Value, k)

One(e) == 1
Amount(e) == e.is.amount
MonthKey(e) == <<Who(e), e.is.month, e.is.currency>>
CurrencyKey(e) == e.is.currency
CategoryKey(e) == e.is.category
MerchantKey(e) == e.is.merchant

(* Of two rows with one id the later stands for it.                        *)
Standing(s) == {s[i] : i \in {i \in DOMAIN s : \A j \in i + 1 .. Len(s) : s[j].id # s[i].id}}

(* Mutant: only the ids are compared.                                      *)
SameIds(s, t) == {e.id : e \in ToSet(s)} = {e.id : e \in ToSet(t)}

SameRows(s, t) ==
    /\ {e.id : e \in ToSet(s)} = {e.id : e \in ToSet(t)}
    /\ \A e \in Standing(s), p \in Standing(t) : e.id = p.id => Equivalent(e, p)

SameAggregates(s, t) ==
    /\ SameBy(s, t, MonthKey, Amount)
    /\ SameBy(s, t, CurrencyKey, One)
    /\ SameBy(s, t, CategoryKey, One)
    /\ SameBy(s, t, MerchantKey, One)

(* _latest_transaction_ids: of those made at one moment the                *)
(* worksheet gives its first, PostgreSQL its last: the last of the latest  *)
(* month, as far as days and uuids do not decide.                          *)
SourceLatest(s, u) == s[Min(LatestOf(s, u))].id
TargetLatest(t, u) ==
    {t[i].id : i \in {i \in LatestOf(t, u) :
        \A j \in LatestOf(t, u) : t[j].is.month <= t[i].is.month}}

(* compare_backfill_records.                                               *)
Compare ==
    LET t == SetToSeq(pg)
        same == SameRows(read, t) /\ SameAggregates(read, t)
        mayAgree == \A u \in Users(read) : SourceLatest(read, u) \in TargetLatest(t, u)
        mustAgree == \A u \in Users(read) : TargetLatest(t, u) = {SourceLatest(read, u)}
    IN
    /\ vpc = "half" /\ Ready
    /\ \/ same /\ mayAgree /\ vpc' = "passed"
       \/ ~(same /\ mustAgree) /\ vpc' = "failed"
    /\ read' = <<>> /\ calm' = TRUE
    /\ UNCHANGED <<migrationVars, backend, ledgerVars, runVars, writes>>

-----------------------------------------------------------------------------
Next ==
    \/ MigrationNext /\ UNCHANGED <<backend, ledgerVars, runVars, verifyVars, calm, writes>>
    \/ \E m \in Message, c \in Said : BotAppend(m, c)
    \/ \E m \in Message, c \in Said : BotUpdate(UserOf[m], c)
    \/ \E b \in Backend : Switch(b)
    \/ Repair
    \/ \E r \in Runner, mode \in {"dry", "execute"} : LoadSheet(r, mode)
    \/ \E r \in Runner : Plan(r) \/ Import(r) \/ RunDies(r)
    \/ LoadSource \/ Compare

Spec == Init /\ [][Next]_vars

-----------------------------------------------------------------------------
(* Properties *)

BackfillTypeOK ==
    /\ MigrationTypeOK
    /\ backend \in Backend
    /\ sheet \in Seq(Row) /\ pg \subseteq Row
    /\ created \in [Id -> Nat]
    /\ rpc \in [Runner -> {"idle", "dry", "execute", "import", "complete", "refused"}]
    /\ source \in [Runner -> Seq(Row)]
    /\ todo \in [Runner -> SUBSET Nat]
    /\ \A r \in Runner : todo[r] \subseteq DOMAIN source[r]
    /\ vpc \in {"idle", "half", "passed", "failed"}
    /\ read \in Seq(Row) /\ calm \in BOOLEAN
    /\ dirty \subseteq Message \cup {NoMessage}
    /\ \A r \in Runner : rpc[r] = "import" <=> todo[r] # {}
    /\ writes \in 0 .. MaxWrites

(* Two runs at once, one that is killed and repeated, and a bot that       *)
(* already writes to PostgreSQL leave one transaction per message and per  *)
(* id, and one 'created' event for each.                                   *)
OneRowPerMessage ==
    /\ \A p, q \in pg : p.msg = q.msg \/ p.id = q.id => p = q
    /\ \A i \in Id : created[i] = Cardinality({p \in pg : p.id = i})

(* A run that plans from an old reading of both ledgers never replaces or  *)
(* removes what PostgreSQL has: only the bot's own update does.            *)
NothingOverwritten == [][writes' = writes => pg \subseteq pg']_vars

(* "backfill complete": every row the run read from the worksheet is in    *)
(* PostgreSQL, under its id and message, with what it said unless the bot  *)
(* changed that transaction itself, whichever run put it there and         *)
(* wherever an earlier one stopped.                                        *)
CompleteMeansThere ==
    \A r \in Runner : rpc[r] = "complete" =>
        \A i \in DOMAIN source[r] :
            \E p \in pg :
                /\ p.id = source[r][i].id /\ p.msg = source[r][i].msg
                /\ p \in {source[r][i], Stored(source[r][i])} \/ p.msg \in dirty

(* A run refuses only what needs a hand: a defect of the worksheet it      *)
(* read, a transaction the bot wrote or changed on its own, or an amount   *)
(* PostgreSQL had to round.  What runs do to each other is no reason.      *)
RefusedForAReason ==
    \A r \in Runner : rpc[r] = "refused" =>
        \/ Flawed(source[r])
        \/ \E i \in DOMAIN source[r] :
            source[r][i].msg \in dirty \/ Stored(source[r][i]) # source[r][i]

(* If nothing was written while the verification read one ledger and then  *)
(* the other, a report that passes means PostgreSQL holds exactly the rows *)
(* of the worksheet, and one that fails that it does not, or that a user   *)
(* has two latest rows.                                                    *)
Tied(s) == \E i, j \in DOMAIN s : i # j /\ Who(s[i]) = Who(s[j]) /\ s[i].made = s[j].made
Copied == pg = ToSet(sheet) /\ Cardinality(pg) = Len(sheet)
VerifiedMeansCopied ==
    [][vpc = "half" /\ calm =>
        /\ vpc' = "passed" => Copied
        /\ vpc' = "failed" => ~Copied \/ Tied(sheet)]_vars
=============================================================================
