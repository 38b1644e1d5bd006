# Verification of expense-agent

TLA+ models of the expense-recording service, TLC runs on small instances of
them, and TLAPS proofs for all instances. The models are translated from the
code; where the code and its documents disagree, the model does what the code
does and a run shows the difference.

Contents: [the system](#1-the-system), [the modules](#2-the-modules),
[correspondence](#3-how-state-and-actions-correspond-to-the-code),
[runs](#4-what-each-run-checks), [fairness](#5-fairness),
[proofs](#6-what-is-proved), [findings](#7-where-code-and-documents-disagree),
[limits](#8-what-is-not-modelled), [plan](#9-plan).

## 1. The system

A user writes an expense ("lunch 12.5") to a Telegram bot or a WeChat account.
The provider posts the message to a webhook; a language model turns it into
calls of application functions; the calls are validated and executed on a
PostgreSQL ledger; a reply goes back. Independently, a scheduled job copies the
ledger into each user's Google Sheet.

Any number of instances, and any number of request threads in each, handle
messages at once. They share only PostgreSQL. Providers redeliver what was not
answered with a 2xx, and may deliver twice at the same time. Instances are
stopped at any point.

| Component (source) | State it keeps | Operations | Correct when |
|---|---|---|---|
| Webhooks (`app/telegram_webhook.py`, `app/wechat_webhook.py`) | none | receive, reply, acknowledge | every delivery of a message tells the same outcome; one that comes after completion gets the stored text, one that runs beside or after another execution may get a text of its own |
| Function batch handler (`core/function_batch_handler.py`) | none between requests | find the batch, claim, select, accept, execute | one selection and one batch per message |
| Function selector, model client (`core/function_selector.py`, `core/function_calls.py`, `integrations/llm_client.py`) | none | ask the model, check the shape of its answer | - (its answer is an arbitrary input) |
| Function batch executor (`core/function_batch_executor.py`) | none | validate, write, read, answer, complete | all writes or none; a reply never runs ahead of the ledger |
| Function batch repository (`integrations/postgres/function_batch_repository.py`, `migrations/0004_*.sql`) | `function_call_batches`, `function_call_executions`, `transactions`, `transaction_events` | `find_batch`, `begin_batch`, `accept_calls`, `execute_writes`, `complete_batch` | unique keys and row states make each of these idempotent |
| Pending requests (`core/pending_requests.py`) | `pending_requests`: one open question per user and chat | load, save, remove, expire | a question to the user leaves an open request |
| Sheet export (`core/sheet_export_service.py`, `integrations/postgres/sheet_export_repository.py`, `integrations/google_sheets/ledger_export.py`) | `google_sheet_exports` (sheet, cursor, error); the worksheet rows | list exports, list events after the cursor, upsert a row, move the cursor | no committed change is lost or duplicated in the sheet |
| Legacy transaction service (`core/transaction_service.py`, `integrations/postgres/repository.py`, `integrations/google_sheets/repository.py`) | `transactions`; in each process a map from message to the row it updated | find by message, append, update the latest, query a month | one row per message |
| Statistics (`core/statistics.py`, the queries of `integrations/postgres/repository.py`) | none between two requests | summarise, compare, list the dearest and the most recent | a period counts its own expenses, of whom the asker may see, each once |
| Exchange rates (`integrations/exchange_rates.py`) | a cache of rates per process, shared by its threads | convert | a rate is never newer than the expense, and the reply names its date |
| Backfill and verification (`scripts/backfill_google_sheets_to_postgres.py`, `scripts/verify_postgres_backfill.py`) | none of their own; a run holds what it read and what it has still to append | plan, import, compare | a rerun imports nothing twice and overwrites nothing; "complete" and "passed" are true |
| Migration runner (`scripts/migrate_postgres.py`) | `schema_migrations` | apply the files not applied yet | every file takes effect once, in order |
| Validator, currencies, categories, intent parser | none | recognise words and shapes in one message | - (what they let through is an input) |

How they interact: the webhook calls the handler, synchronously, in the request
thread. Handler and executor call the selector (HTTP), the repositories (SQL,
one connection and transaction per call) and the pending-request service. The
executor commits writes and their `transaction_events` together; the export job
polls those events. There are no queues, no locks in process memory and no
callbacks: every race is a race of SQL statements and HTTP calls. The one thing
threads of a process share is a dictionary: the cache of rates, and the memory of
update targets on the legacy path. During the cutover, operators run the scripts
beside a bot that goes on writing.

What is hard in it:

* **Concurrent deliveries** of one message race for the `selecting` claim and
  later execute the same persisted batch side by side.
* **Crashes** between any two steps: after the claim, after the acceptance,
  inside the write transaction, after the commit, between the reply and the
  2xx. The next delivery resumes from the row the dead request left.
* **READ COMMITTED**: a statement that waits on a unique key held by another
  transaction wakes up with the snapshot it began with.
* **A rollout**: an instance of the revision before function batches handles
  the same delivery.
* **The cursor** of the export is the stamp of an event, taken before the event
  becomes visible; runs of the job may overlap, fail half-way or be killed;
  Sheets calls may take effect and still fail.
* **Statistics** read the ledger once or twice and rates any number of times,
  while both change; the first answer of the provider is kept for the life of
  the process.
* **The cutover**: a plan is made from two readings, and carried out row by row
  while other runs, the bot and the operator go on; runs die and are repeated.

The full list, each entry with the line where it bites and the properties that
cover it, is `hazards` in `PROJECT.json`.

## 2. The modules

| Module | What it is |
|---|---|
| `FunctionBatch` | The path of a message from delivery to acknowledgement: webhook, handler, executor, repository and pending requests composed; one action per SQL statement, model call or provider call |
| `FunctionBatchHistory` | `FunctionBatch` with two history variables, for what the rows do not show: who was overtaken by the previous revision, and which requests came after the acknowledgement |
| `DeliveryContract` | The abstract specification: what that path promises about a message |
| `FunctionBatchRefinement` | The refinement mapping from the first to the second |
| `SheetExport` | Ledger events, export configuration, worksheets and the runs of the job |
| `LegacyTransactions` | The path of a message without function batches, on a PostgreSQL or a worksheet ledger |
| `SpendingStatistics` | Read calls: scope, period, queries, conversion with the shared cache of rates, sums and lists; a ledger and a rate provider that change meanwhile |
| `Migrations` | Executions of the migration runner |
| `Backfill` | The cutover: backfill runs, verification, bot and operator on two ledgers, on top of `Migrations` (it extends it: its steps are steps of `Backfill` too, and a backfill needs the tables they make) |
| `MCFunctionBatch`, `MCFunctionBatchHistory`, `MCSheetExport`, `MCLegacyTransactions`, `MCSpendingStatistics`, `MCBackfill` | Constants for TLC |
| `FunctionBatchProofs`, `FunctionBatchReplies`, `DeliveryContractProofs`, `SheetExportProofs`, `LegacyTransactionsProofs`, `SpendingStatisticsProofs`, `BackfillProofs` | Theorems and proofs about these modules; the second extends the first, `FunctionBatchRefinement` and `FunctionBatchHistory` |
| `Sums` | Lemmas about numbers and sums over finite sets that the proofs share |

`FunctionBatch` is a composition by design: the handler and the executor have no
state of their own between two calls, so a worker's program counter and locals
are all there is of them, and what they share is the tables.

## 3. How state and actions correspond to the code

### FunctionBatch

| Variable | In the code |
|---|---|
| `batch[m]` | the row of `function_call_batches` for the message's provider key: `status`, `calls`, `reply` |
| `ledger` | committed rows of `transactions` (each with its `created` event) and `function_call_executions` (each with its `updated` event) |
| `pending` | the row of `pending_requests`; `fresh` is `expires_at > now` |
| `pc[w]`, `job[w]`, `plan[w]`, `next[w]`, `stamp[w]`, `answer[w]` | where a request thread is, its message, its `FunctionCallBatch`, the loop index of `execute_writes`, `created_at` of the records it validated, the reply it built |
| `tx[w]` | rows written by its open transaction, invisible to others, holding their unique keys and row locks |
| `modelCalls`, `replies`, `retired` | history only: no guard reads them |
| `acked[m]` | the provider got a 2xx and stops redelivering |

`clock` and `failures` are counted so that they can be bounded; `clock` also
orders rows by `created_at`.

The actions, in the order of a request: `Deliver`; `FindBatch` (`find_batch`,
and the branch of the handler it leads to); `ClaimSelection` / `ClaimTaken`
(`begin_batch` with no calls); `LoadPending`, `DropExpired` (the two statements
of `PendingRequestService.load`); `SelectCalls` / `SelectionFails`;
`AcceptCalls`; `BeginExecution` (validation, then `begin_batch` with the calls;
the executor goes on with the *persisted* calls); for a control call
`SaveClarification` or `RejectRequest`; for writes the statements of
`execute_writes`: `InsertRecord`, `ReuseRecord`, `StatementBlocks`,
`InsertLost`, `ApplyUpdate`, `UpdateMisses`, `UpdateRefused`, `Commit`; then
`SaveMissingTarget` or `ReadLedger`, `ClearPending`, `CompleteBatch`,
`SendReply`, `Acknowledge`. `Fail` ends a request anywhere: a stopped instance,
a timed-out request, a lost database connection, a failed call of the
provider's API. An exception of the code's own (`TransactionRepositoryError`) is
`Raise`.

What is abstracted: a call's arguments are legal or not (`bad`); a reply is its
kind and the rows its reads saw; the model is any choice from `Proposal`. All
messages come from one sender in one chat: tables are keyed by sender and chat,
so other senders' rows are disjoint.

Two choices need an explanation.

* `UpdateAccepted`. The text of the update statement in the code has a
  `UNION ALL` whose branches disagree in type, and PostgreSQL refuses it. With
  `FALSE` the model does what the code does. With `TRUE` it asks what the
  rest of the statement would do once the columns are swapped, so that the
  interleavings of updates can be studied at all.
* Waits. A statement keeps what it read when it began. One that meets a unique
  key another transaction holds is at "blocked" (`StatementBlocks`), with the row
  an update has chosen in `goal`; it goes on with that row, or raises
  (`InsertLost`), when the key is free. An update that meets a row lock holds its
  key already and is at "locked" (`ApplyUpdate`); when the lock is free
  (`RowFreed`) it changes the row it waited for, though a later one was committed
  meanwhile.

Of two writes of one call only the stamp tells the first from the second, and a
batch without records has none: a pure update that was executed twice on the same
row would be one element of `ledger`. `OneWritePerCall` sees it on another row, or
in a batch with a record; in the code the key of `function_call_executions`
excludes both, and so do `HeldByOther` and `KeyCommitted` here.

`FunctionBatchHistory` steps with every action of `FunctionBatch`. `raced` holds a
message whose row the previous revision inserted while a request was at
`execute_writes` (`InExecution`); `late` holds a request that was delivered after
the provider had its 2xx, until it ends.

### SheetExport

| Variable | In the code |
|---|---|
| `ledger[t]`, `events`, `open` | the content version of a transaction, committed `transaction_events`, and writes that have their `created_at` and are not committed |
| `config[u]` | the row of `google_sheet_exports`: spreadsheet, enabled, `last_synced_event_id`, error set or not |
| `sheet[s]` | the rows of a Ledger worksheet, in order |
| `pc[r]`, `todo[r]`, `queue[r]`, `last[r]`, `row[r]` | a run of the job: the exports it read at its start, the events of the user it works on, `last_event_id`, the row number it found |

Actions: `Stamp`, `CommitWrite`, `RollBack` (the ledger as the batch path
writes it); `Reconfigure` (`upsert_export_config`, run by an operator);
`Start` (`list_enabled_exports`), `ListPending`, `FindRow` and `WriteRow` (the
read and the write of `upsert_transaction`), `MarkSynced`, `MarkFailed`,
`HeaderRefused`; and the failures `CallFails`, `WriteLost` (the write took
effect, its answer is lost) and `RunDies`.

An event carries the transaction as it is when the events are listed, not as it
was when the event was recorded, because the SQL joins `transactions`; that is
why `Pending` reads `ledger`. The cursor is an event id in the table and a stamp
here: the query turns the id into the stamp, and stamps are distinct here.

Two variables are history only, for the two ways in which the code leaves an
event behind. `overtaken` has the stamps of events that committed when a later
stamped event of their user had been exported, or listed by a run (`TooLate`).
`moved` has the users whose spreadsheet was changed after a run had read their
row (`NoteMove`): that run goes on writing into the old one and then stores its
cursor for the new one. A move to another spreadsheet that no run has read the
row of takes a user out of both, because the cursor starts over.

The runs have one run of the job at a time. With two, both may read the sheet
before either appends, and both append: nothing in the code keeps them apart,
and `docs/architecture.md:64` excludes the duplicate. That case is checked
nowhere here but for types and ownership, which the theorems state for any
number of runs.

### LegacyTransactions

`settings.function_batches_enabled` chooses at start-up between the batch path
and this one, and `settings.storage_backend` chooses its ledger; the model has
one variable, `storage`, that is chosen in `Init` and never changes, and
`Recorded`, `Latest`, `Locked` and `Write` are where the two ledgers differ.

| Variable | In the code |
|---|---|
| `rows` | `transactions`, or the rows of the worksheet, in the order of their insertion |
| `events` | `transaction_events` of type `updated`; a worksheet has none |
| `targets[m]` | `_update_targets_by_message` of the process, emptied by a restart |
| `pc[w]`, `job[w]`, `answer[w]` | where a request is, its message, the validated result of the parser |
| `goal[w]`, `known[w]` | the transaction it updates, and whether the memory named it |
| `seen[w]` | `old_record`: the row as `update_transaction` read it |
| `stamp[w]` | `created_at` of the record before it is appended |
| `effects`, `calm` | history only: who wrote which row; requests came one at a time, with no restart and no lost answer |

Actions: `Deliver`, `FindMessage`, `Parse`, then `ChooseTarget` (an update) or
`GuardCreate` (the retry guard before an append) or a reply at once; `AppendRow`;
`ReadTarget`, `WriteTarget`, `Remember`; `SendReply`. A parser may make something
else of the same message at each delivery, within `Answer[m]`. `CallFails` is a
`TransactionRepositoryError` without effect and `AnswerLost` one after the write
took effect: both are answered with a failure message and a 2xx, as in the code.
`SendFails` is the 502 and `Restart` stops the process.

The PostgreSQL append is one step: it inserts or locks the row of the inbound
message first, so two appends of one message follow each other. The update is
two steps, with the row lock between them, because the lock is what
`AuditChain` depends on. Descriptions are normalised; `Similar` says which of
them contain each other.

### SpendingStatistics

| Variable | In the code |
|---|---|
| `day`, `published` | the date of a message; the days the rate provider has a rate for |
| `ledger` | `transactions` with the user and the chat of the recording message |
| `cache[p]` | `_cache` of the process's `FrankfurterExchangeRateProvider`: by currency and date asked for, the date of the rate it got |
| `asked[w]`, `sent[w]` | the read call a thread answers, and the date its periods are resolved with |
| `pc[w]`, `half[w]`, `rows[w]`, `priced[w]` | where it is; which of the two periods of a comparison; the records of its query still to convert, and the converted ones |
| `got[w]` | the response it holds before it stores it in the cache |
| `answer[w]` | what the reply is rendered from |
| `base[w]`, `touched[w]` | history only: what was published when the process started; what was written since the question came |

Actions: `Ask` (validation of range and limit, the scope decided from chat and
wording), `ReadExpenses` (one query, one snapshot) or `ListRecent`, `Convert`
(home currency, or a hit), `FetchDirect`, `FetchEarlier` (the fall-back over
`lookback_days`), `Store`, `NextHalf` (the second query of a comparison),
`Answer`. Around them `WriteLedger`, `NextDay`, `Publish`, `CallFails` and
`Restart`, which empties the cache and starts over what the provider of the
message redelivers, with the date of the message. A miss is three steps, so two
threads may both miss and both store.

What is abstracted: a filter is the set of values it lets through; amounts and
rates are integers; the rate of a currency on a day never changes once it is
published. Days are numbers of which 0 is a Monday; `MonthStart` is the calendar.

### Migrations and Backfill

| Variable | In the code |
|---|---|
| `schema`, `recorded` | versions whose SQL is in effect, in the order it took effect; the rows of `schema_migrations` |
| `jpc[j]`, `seen[j]`, `mine[j]` | an execution of the runner: where it is, `applied_versions`, what its open transaction has done |
| `backend` | `STORAGE_BACKEND` of the bot |
| `sheet`, `pg`, `created` | the rows of the `Transactions` worksheet, in order; `transactions`; how many `created` events each id has |
| `rpc[r]`, `source[r]`, `todo[r]` | an execution of the backfill: its phase, the rows it read, those of `records_to_import` it has not appended |
| `vpc`, `read` | the verification: its phase, and the worksheet as it read it |
| `calm`, `dirty` | history only: nothing written since that reading; messages whose transactions the bot put into PostgreSQL or changed in either ledger itself |

A job's transaction is `Connect` (or `WaitForTable` and `GetTable`, when another
one is creating the table), `ApplySql` for each file, `CommitSchema`; `JobFails`
rolls back. The runner takes no lock: that two jobs do not both apply a file is
left to PostgreSQL, where the second waits for the objects of the first and then
fails on what exists (`Held`, `Conflicts`).

A run is `LoadSheet`, `Plan` (preflight checks, `list_transactions`, the plan:
one reading of each ledger), then `Import` once for each row: `append_transaction`
and the comparison of what it returned. `RunDies` may come anywhere, and the next
run starts from the ledgers. The verification is `LoadSource` and `Compare`, a
step each because the ledgers change in between. The bot appends and updates in
the ledger it is configured for; `Switch` goes in both directions, as the runbook
has a rollback; `Repair` removes a row that blocks the plan.

What is abstracted: a transaction row and the inbound message it comes from are
one row, keyed by message and by id; an amount that `numeric(18, 4)` cannot hold
is one that is no multiple of `Quantum`, and `Rounded` is what the column does to
it. A message has one transaction: the worksheet is written by the path that
records one, and the bot of the model records one in PostgreSQL too.

## 4. What each run checks

Passing runs:

| Run | Instance | Question |
|---|---|---|
| `FunctionBatch_Delivery` | 1 message, 2 workers, 2 failures; batches of two records, a read before a record, an illegal batch, an update that the server refuses, both control calls | Can concurrent deliveries, resumes and crashes select twice, write a call twice, show a part of a batch, say "failed" and record, say "done" and not record, give two different answers, report statistics without the message's own record, change accepted calls or a stored reply? Does the protocol implement `DeliveryContract`? Is an accepted batch that the server does not refuse answered in the end? |
| `FunctionBatch_Updates` | 2 messages, one of which an old instance also gets, 2 workers, 1 failure; updates, updates and a record in one batch, clarifications; update statement supposed accepted | Do concurrent and resumed updates keep the ledger sound and hit only rows that exist? Does a question leave an open request? |
| `FunctionBatch_Rollout` | 1 message, 2 workers, 2 failures, and the previous revision on the same delivery; records, an update that the server refuses, an illegal batch | Is one delivery recorded by both revisions otherwise than by the one race there is? Does a delivery that comes after the acknowledgement write anything? |
| `SheetExport_Orderly` | 2 users; user 1 is served first and has a broken worksheet, user 2 has two spreadsheets and two transactions; 3 events that commit in any order, batches of 2, 1 failure, 1 change of configuration at any moment | Is anything behind the cursor missing from the sheet, but for the two reasons? Are rows duplicated, of another user, uncommitted, or going back? Does every other change arrive in the end? |
| `LegacyTransactions_Both` | both ledgers; 3 messages, the first received one tick before the others, 2 workers, 1 failure, a retry window of the same tick; a record, its currency correction, a similar expense, updates of two fields, a query, a refusal | Can a message be recorded twice, touch two transactions, or break the chain of update events? Is every message answered? |
| `SpendingStatistics_Shared` | 1 process, 2 threads, a group and a private chat, 2 users, 4 expenses over a month's and a week's boundary, one foreign currency with days without a rate; a comparison, filtered and unfiltered, a top list of the asker's own, a recent list, a summary; 1 write, 1 failure, 1 restart | Does a reply show what the asker must not see? Is an expense counted in the wrong period, twice, or not at all? Is a rate from the future, older than it need be, or not named? Are the lists the right ones? |
| `Backfill_Cutover` | 2 runs, 2 migration jobs with 3 files, 2 messages, 6 worksheets: a clean one, two latest rows, an id twice, a message twice, a row without metadata, an amount too fine; 1 write of the bot | Can runs that overlap, die and are repeated duplicate anything? Is "backfill complete" true, a refusal justified, a passed verification a copy? Does `schema_migrations` tell what is in effect? |

Runs that TLC must find violated, each the statement of a document or comment
(section 7): `FunctionBatch_UpdateStuck`, `FunctionBatch_SelectingStuck`,
`FunctionBatch_TwoReplies`, `FunctionBatch_RecordedTwice`,
`SheetExport_LateCommit`.

The properties:

* `OneWritePerCall`: a call is written once, however often the batch is resumed.
* `AllOrNothing`: the writes of a batch are in the ledger together or not at all.
* `OneSelection`: the model is asked at most once per message.
* `FailureMeansNoWrites`, `DoneMeansDurable`: what the user was told is and stays
  true.
* `OneOutcome`: every delivery tells the same outcome (done, a question, a
  refusal, a failure). It says nothing of the text: a second execution reads the
  ledger again and sends what it makes of that, though the stored reply is
  another one (`FunctionBatch_TwoReplies`).
* `ReadsSeeOwnWrites`: statistics include what the same message recorded.
* `AcceptedCallsFixed`, `StoredReplyFixed`: action properties on the batch row.
* `UpdatesHitRows`, `AskedMeansPending`.
* `RecordedTwiceOnlyInRace`: both revisions record one delivery only when the
  previous one inserts between the look of `begin_batch` and the commit of
  `execute_writes`. The documents claim more, and `FunctionBatch_RecordedTwice`
  refutes it; this is what is left of the claim.
* `LateDeliveryWritesNothing`: what comes after the acknowledgement finds nothing
  to execute, in whatever state the batch row was left.
* `ImplementsContract`: refinement of `DeliveryContract`.
* `AnsweredUnlessRefused` (liveness): accepted, legal calls end in a completed
  batch and an acknowledged message, unless there is an update among them. Without
  the exception it is `AcceptedIsAnswered`, which `FunctionBatch_UpdateStuck`
  refutes.
* `LeftBehindForAReason`: relates the cursor, the ledger and the sheet. What the
  cursor has passed is never looked at again, so it must be shown, unless it
  committed too late or the spreadsheet was changed under a run. Without the
  exceptions it is `BehindCursorIsShown`, which `SheetExport_LateCommit` refutes.
* `OneRowPerTransaction`, `RowsAreOwnAndCommitted`, `RowsNeverGoBack`.
* `ProjectionCatchesUp` (liveness): again and again every committed change is in
  the sheet, but for the same two reasons, though another user's worksheet fails
  in every run. Writes are finitely many, so that is that each arrives; it is one
  formula `[]<>` instead of one for each event.
* `RecordedOnce`: in PostgreSQL whatever races, in a worksheet while requests
  come one at a time and no answer is lost: there nothing but the look before
  the append keeps a duplicate out.
* `OneEffectPerMessage`: under the same premise, and within one process, a
  message writes one transaction, though newer ones came in between two of its
  deliveries and the parser changed its mind.
* `AuditChain`: each update event of a transaction begins where the one before
  ended, and the last ends at what is stored.
* `MessageAnswered` (liveness): again and again every message that was delivered
  has its 2xx.
* `AnswersStayInScope`: every record an answer is made from was recorded in the
  chat that asked, or is the asker's own where that is what the scope means.
* `EveryPeriodCounts`: the queries and `resolve_period` against a definition of
  the periods by the calendar. An expense written while the question was answered
  is excepted: a comparison reads twice.
* `RatesAsReported`: relates cache, ledger and reply. A rate may be older than
  what is published by now, because the cache keeps its first answer; it is not
  older than what was published when the process started. Statistics fail only
  for a reason: a failed call, or an expense without a rate for the days looked
  back.
* `ListsAreTheRightOnes`: nothing that was left out should have been in.
* `OneRowPerMessage`, `CompleteMeansThere`, `RefusedForAReason`: a run acts on old readings, and is safe all the same,
  because the append looks the message up again and the ids are unique. A row
  whose amount PostgreSQL has rounded is one of the reasons for a refusal, though
  the runbook says that a rerun skips it (`docs/postgres-backfill-cutover.md:66`).
* `VerifiedMeansCopied`: a passed report means that PostgreSQL is the worksheet
  and a failed one that it is not, if nothing was written between the two
  readings; a user with two latest rows may fail a good copy. Those two cases are
  premises: the property does not say what a report is worth in them.
* `SchemaAsRecorded`: jobs at once, or killed, apply no file twice or out of order.

Every property of a passing run has a mutant: a plausible bug in a modelled
statement with which the run must fail (`mutants` in `PROJECT.json`; the mutated
operators stand next to the originals, marked "Mutant").

### Bounds, and why they are enough

* Messages: properties are about one message, except those of updates and
  pending requests, which relate two; those have two messages. On the legacy path
  an update needs a row to change and a newer one that comes in before its
  redelivery, so that run has three.
  In `FunctionBatch_Updates` an old instance records one of the two messages while
  its batch is executed: the updates of both messages can then choose that one row,
  and one of them waits for it (`RowFreed`), which takes another row than the
  batch's own.
* Workers: all races are for one row, one key or one claim, between one that
  holds it and one that does not; two workers are a holder and a rival, and a
  redelivery after a crash is a rival that comes later.
* `MaxFailures`: one failure makes a redelivery resume; the second one hits the
  resumed execution.
* `MaxClock = 6` bounds validations of record batches and is never reached in
  any run: a behaviour has at most one validation per delivery that gets that
  far, and deliveries stop with the acknowledgement. Deadlock checking is on in
  every run of the module, and `TypeOK` has no such bound.
* `MaxEvents = 3` with batches of 2: one batch is cut in the middle of the
  pending events. `MaxReconfigs = 1` moves a user to another spreadsheet once,
  or disables the export; coming back is the same step again.
* `LegacyTransactions_Both`: the clock has two values and the window is one
  tick, so a correction meets a row that is recent, one that is too old and one
  from after it was received. Deadlock checking is off there: once all messages
  are acknowledged and the clock has run out, nothing is left to do.
* `SpendingStatistics_Shared`: two threads are enough for both to miss the cache
  and store different responses; the second thread always asks for a summary, as
  all that threads share is the cache. The days are those where the kinds of
  periods differ. One write moves an expense across a period or into one, and
  comes at any moment.
* `Backfill_Cutover`: races are between a run and one rival, another run or the
  bot, for one message or one id. One write of the bot meets every step of both
  runs; runs, switches, repairs and migrations are not bounded. Three files: one
  job may be ahead of, within and behind another's list.
* In both, deadlock checking is off: an answered thread has nothing left to do,
  and a ledger that is copied and verified need not change.
* Symmetry is used only with invariants and action properties: of workers in
  `FunctionBatch_Updates`, of runs and of jobs in `Backfill_Cutover`.

## 5. Fairness

* `WF_vars(WorkerStep(w))`: a request thread that has a message goes on; it is a
  synchronous function in a running process. A failure is not a step of this
  formula, and is bounded, as every failure is rare.
* `SF_vars(Redeliver(m))`: the provider redelivers a message that it got no 2xx
  for. Strong, because a delivery needs an idle worker, and another delivery
  takes and gives back workers for ever. Telegram and WeChat give up at some
  point; liveness here says what happens if they do not give up first.
* `SF_vars(\E w : Deliver(w, m))` in `LegacyTransactions` is the same assumption.
* `WF_vars(RunnerStep(r))`: the scheduler starts a run every five minutes for
  ever (`scripts/deploy_sheet_projection_job.sh`), and a run goes on by itself.
* `SpendingStatistics`, `Migrations` and `Backfill` state no fairness and no
  liveness: a read is a request like those above, and whether a script is run
  again is up to an operator.
* Nothing is assumed fair about the model (any answer, or a failure, each
  time), the ledger, operators, or the expiry of requests.

## 6. What is proved

Every invariant and action property that a passing run checks, and the
refinement, is also a theorem for every value of the constants. What a theorem
needs beyond the assumptions that the modules state about their constants is
named in its premises; the cases a premise excludes are described with it. The
invariants that carry the proofs were checked with TLC before they were proved.

### The batch path

For all sets of messages and workers, all proposals, any number of failures and
both values of `UpdateAccepted`, from `ConstantsAssumption`:

| Theorem | States |
|---|---|
| `FunctionBatchProofs!TypeCorrect` | `Spec => []TypeOK` |
| `FunctionBatchProofs!WritesAreUnique` | `Spec => []OneWritePerCall` |
| `FunctionBatchProofs!CallsAreFixed` | `Spec => AcceptedCallsFixed` |
| `FunctionBatchProofs!ReplyIsFixed` | `Spec => StoredReplyFixed` |
| `FunctionBatchProofs!WholeBatches` | `Spec => []AllOrNothing` |
| `FunctionBatchProofs!DoneIsDurable` | `Spec => []DoneMeansDurable` |
| `FunctionBatchReplies!SelectionHappensOnce` | `Spec => []OneSelection` |
| `FunctionBatchReplies!FailureIsFinal` | `Spec => []FailureMeansNoWrites` |
| `FunctionBatchReplies!BothRecordOnlyInRace` | `HSpec => []RecordedTwiceOnlyInRace` |
| `FunctionBatchReplies!LateDeliveryIsHarmless` | `HSpec => []LateDeliveryWritesNothing` |
| `FunctionBatchReplies!QuestionIsPending` | `Spec => []AskedMeansPending` |
| `FunctionBatchReplies!UpdatesHaveRows` | `Spec => []UpdatesHitRows` |
| `FunctionBatchReplies!ReadsAreComplete` | `Spec => []ReadsSeeOwnWrites` |
| `FunctionBatchReplies!RepliesAgree` | `Spec => []OneOutcome`, if `Legacy = {}` and `Plain` |
| `FunctionBatchReplies!ProtocolImplementsContract` | `Spec => ImplementsContract`, if `Legacy = {}` and `Plain` |
| `DeliveryContractProofs!PromiseHolds` | the abstract contract keeps `Promise` |

None of these is inductive. The invariant of the first module is `IInv == Typed
/\ Keyed /\ Bound /\ Durable`, in four layers:

1. `Typed` is `TypeOK` and that a worker which is not idle has a message.
   A worker without one would index `batch` outside its domain.
2. `Keyed` is about unique keys: a row of an open transaction carries its
   worker's message and an index the loop has passed; no two open transactions,
   and no open and committed row, hold the same key. `OneWritePerCall` alone is
   not inductive because the rows that could collide are still in `tx`.
3. `Bound`: a batch has calls exactly from its acceptance on, and a worker that
   executes, executes the persisted calls. Without it a `Commit` could be a
   commit of other calls than those the message is bound to.
4. `Durable`: a worker in the write transaction has, for every call its loop has
   passed, the row in its transaction or in the ledger; a worker past the commit
   has all of them in the ledger; every stored or sent "done" was said by such a
   worker. `Commit` needs the first part, the two promises the others.

A step is one worker's or leaves workers and batch rows alone (`StepKinds`); the
worker that moves is treated action by action (`ReadyStep`, `MoverAssured`), the
others by what a step cannot take away from them (`OthersAssured`): the ledger
only grows and accepted calls stay.

`ReplyInv` of `FunctionBatchReplies` adds what the replies stand for:

* `Claimed`: between the claim and the acceptance a message has one worker, and
  was not put to the model before it got there.
* `Checked` and `Rows`: the executor has validated what it executes, and every
  row of a message, committed or not, is one its batch asks for.
* `Answered`: a reply on its way, stored or sent is `Backed`. The important case
  is "failed": it is backed by the message being `Doomed`, that is, its claim
  was given up, or it is bound to calls the executor refuses, and nothing takes
  a message out of that. This is why a failure that was reported is final,
  although a failure that was *not* reported is retried and may succeed.

An update keeps the row it chose over its waits, so `UpdatesHaveRows` also carries
that a chosen row is one its transaction can see (`OpenRows`).

The two theorems over `HSpec` have invariants of their own. `Raced`: a
message that has a row of the previous revision, and is at `execute_writes` or has
a row of its batch, is in `raced`; `begin_batch` establishes it, as it finds no
such row before it goes on.
`LateInv`: an acknowledged message is `Closed` (it has a row of the previous
revision, its writes are in the ledger, it is completed or `Doomed`), nothing
opens it again, and a request that came late has an empty transaction.

The refinement maps the state of a message to that of the contract, and each
action of a worker to one of the contract's steps or to none
(`AbstractClaim`, `AbstractBind`, `AbstractWrite`, `AbstractAnswer`,
`AbstractSend`).

The two premises are the two cases in which the code tells two stories:
`Legacy = {}`, no instance of the previous revision answers beside the new one;
`Plain`, no update can find its row missing. The second holds of the code as it
is, where `UpdateAccepted = FALSE` because the server refuses the statement. With
the statement accepted and updates proposed, an execution that found nothing to
update and is repeated after another message recorded something would say "done"
where the first said "nothing to update".

### The sheet export

For any users, transactions, spreadsheets, batch sizes, failures and changes of
exports, from `ExportAssumption`:

| Theorem | States |
|---|---|
| `SheetExportProofs!ExportTypes` | `Spec => []ExportTypeOK` |
| `SheetExportProofs!RowsAreTheUsers` | `Spec => []RowsAreOwnAndCommitted` |
| `SheetExportProofs!RowsAreUnique` | `Spec => []OneRowPerTransaction`, if `Alone` |
| `SheetExportProofs!RowsGoForward` | `Spec => RowsNeverGoBack`, if `Alone` |
| `SheetExportProofs!NothingIsLeftBehind` | `Spec => []LeftBehindForAReason`, if `Alone` |

The first two hold for any number of runs at once. `Alone` is that runs follow
each other: the schedule sees to it while a run is shorter than the interval, and
with two at once both may append. The last theorem has no premise about the order
of commits or about the operator: it names what both do to the cursor, and says
that failed calls, lost answers, killed runs, broken worksheets, the batch size
and moves between runs do nothing of the kind.

* `Own`: what a run was told to do, has queued and writes is of the user it
  serves and was committed.
* `RowsInv` adds `Aimed`, the row number that was found is still the
  transaction's, or there is still none, and `Fresh`, the sheet shows nothing
  newer than what is queued. A lost answer is where `Aimed` matters: the row was
  appended, the run is over, and the next one looks it up again.
* `CursorInv` adds `Stamped` (no two writes, committed or not, have the same
  stamp) and for a run `Queued`, `AsRead` (an export to be served is configured as
  the run read it, unless it was moved) and `Working`: an event of the user it
  serves is `Covered`, that is, shown, or queued, or later than all of the queue,
  or overtaken. A commit keeps `Covered` because `TooLate` is what remains;
  `ListPending` establishes it because the first `BatchSize` events leave out only
  later ones (`FirstAreFirst`); a move that empties `overtaken` of a user's events
  keeps it because the stamps of other users' events are others.

### The path without function batches

For either ledger, any messages, workers, answers of the parser and failures,
from `LegacyAssumption`:

| Theorem | States |
|---|---|
| `LegacyTransactionsProofs!LegacyTypes` | `Spec => []LegacyTypeOK` |
| `LegacyTransactionsProofs!MessageRecordedOnce` | `Spec => []RecordedOnce` |
| `LegacyTransactionsProofs!MessageHasOneEffect` | `Spec => []OneEffectPerMessage` |
| `LegacyTransactionsProofs!AuditTrail` | `Spec => []AuditChain` |

`Single`: while requests come one at a time, one that went on after its search
still has no row of its message in the ledger; in PostgreSQL the append itself
looks. `SameTarget` and `Traced` carry the one effect: it is to be seen in the
ledger, in the memory of the process, or in the hands of the request that is
about to remember it, and a later delivery goes where it is seen. `Held` is the
row lock: in PostgreSQL what a request read of its target is the row until it
writes, and no other request is about to write it; with it an event begins where
the one before ended.

### Statistics and rates

For any ledger, calendar, questions, rates, threads and processes, from
`StatisticsAssumption`:

| Theorem | States |
|---|---|
| `SpendingStatisticsProofs!StatisticsTypes` | `Spec => []StatisticsTypeOK` |
| `SpendingStatisticsProofs!ScopeIsKept` | `Spec => []AnswersStayInScope` |
| `SpendingStatisticsProofs!PeriodsAreExact` | `Spec => []EveryPeriodCounts` |
| `SpendingStatisticsProofs!ListsAreRight` | `Spec => []ListsAreTheRightOnes` |
| `SpendingStatisticsProofs!RatesAreReported` | `Spec => []RatesAsReported` |

* `Thread` says what a thread has in hand: records of its question, each once
  (`Unique`). `Accounted` adds that no record of a period it has read is missing
  unless it was written meanwhile (`Complete`), and that what is still to be
  converted is as it is in the ledger (`AsRead`). A period is the one the
  calendar means by arithmetic on days and by `ThisMonth` and `MonthBefore`.
* `RateInv`: a rate that is in the cache or on its way to it `Serves` every
  thread of its process that is still at work, whoever fetched it and whenever.
  That is stronger than what a single thread is promised, and is what the cache
  needs, because it hands a rate to threads that never asked for it.
* A list is right because positions in it are ranks in a total order
  (`RanksAreAll`, `RecentAreFirst`, `DearestAreFirst`).
* That the categories of a summary add up to its total is about folds over sets,
  which are recursive functions. `Sums` proves what is needed by an induction
  over the subsets of a finite set (`SubsetInduction`), derived from the least
  counterexample: the order of a fold does not matter (`AnyLast`), sums of
  disjoint sets add up (`SumsAdd`), and so do sums by class (`ClassesAdd`).

### The cutover

For any number of jobs and files, from `MigrationAssumption`; for any messages,
users, contents, worksheets to begin with, runs of the backfill and writes of the
bot, from `BackfillAssumption`:

| Theorem | States |
|---|---|
| `BackfillProofs!MigrationsAreRecorded` | `MigrationSpec => []SchemaAsRecorded` |
| `BackfillProofs!CutoverSchema` | `Spec => []SchemaAsRecorded` |
| `BackfillProofs!BackfillTypes` | `Spec => []BackfillTypeOK` |
| `BackfillProofs!CutoverOneRow` | `Spec => []OneRowPerMessage` |
| `BackfillProofs!CutoverComplete` | `Spec => []CompleteMeansThere` |
| `BackfillProofs!CutoverKeeps` | `Spec => NothingOverwritten` |
| `BackfillProofs!RefusalsHaveReasons` | `Spec => []RefusedForAReason`, if `OwnIds` |
| `BackfillProofs!ReportsAreTrue` | `Spec => VerifiedMeansCopied` |

`SchemaAsRecorded` says nothing of jobs, and a job commits what it computed from
`applied_versions` long ago. `MigrationInv` adds `Consistent`: while a job's
transaction holds versions, what it read is all there is in `schema`, they are
the next ones in order, and no other job holds any. The last part is what the
primary key and the locks of PostgreSQL give; without it two commits would
append the same versions. Every step of `Backfill` is a step of `Migrations` or
leaves its variables alone (`NextMigrates`), which carries the theorem over.

`CompleteMeansThere` is about runs that have ended. `BackfillInv ==
BackfillTypeOK /\ OneRowPerMessage /\ Accounted` adds `Accounted`: in a run that
imports or is complete, every row it read is still in `todo` or is in PostgreSQL,
as it was read or as the bot has made it. A plan establishes it, because a row
that is not missing has an equivalent counterpart (`PlanAccounts`); an append
keeps it, because it inserts the row or meets an equivalent one, or ends the run
(`ImportAccounts`); nobody else breaks it, because a row stays where it is
(`StaysThere`), up to the bot's update, which marks it `dirty`. That needs
`OneRowPerMessage`: else the row that is there might not be the one that
`append_transaction` finds. `CutoverKeeps` follows from `InsertKeeps` and from
every step but the bot's leaving or growing `pg` (`OnlyTheBotChanges`).

`RefusedForAReason` needs to know where a row that a run meets comes from.
`RefusalInv` adds `Traced`: every row of PostgreSQL is a copy of the first row
of the worksheet with that id and message, or was recorded by the bot, and what
a run read without a defect is still such a row, unless the bot changed it. Ids
are random uuids; `OwnIds` is that the worksheet the import begins with has none
of those the bot will draw.

`VerifiedMeansCopied` is about a report that compares less than it claims: ids as
sets, rows by id with the last standing for its id, and four aggregates.
`PassedIsCopied` shows that this is enough: the rows that stand for their ids
are those of PostgreSQL, and a row that stands for none would be counted under
its currency in one ledger only (`SumBeyond`, `SameTotals`). `CopyIsAccepted` is
the converse: two lists of the same rows have the same sums in whatever order.
`ReportInv` says that what the verification holds is the worksheet as long as
nobody writes.

### Only model-checked

Liveness, which is outside the prover's reach, like anything with `ENABLED`:
`AnsweredUnlessRefused`, `ProjectionCatchesUp` and `MessageAnswered`. And the five
violated runs of section 7, which are about counterexamples.

## 7. Where code and documents disagree

Each is a run with one property that TLC refutes; the quoted lines are in
`findings` of `PROJECT.json`.

1. `FunctionBatch_UpdateStuck`: every batch with `update_expense` is accepted
   and then fails for ever, because the server refuses the statement.
2. `FunctionBatch_SelectingStuck`: a crash between the claim and the acceptance
   leaves a message that no redelivery can ever finish.
3. `FunctionBatch_TwoReplies`: two executions of one batch read the ledger at
   different moments and each sends its own text, where the documents promise the
   stored reply.
4. `FunctionBatch_RecordedTwice`: during a rollout one delivery can be recorded
   by both revisions.
5. `SheetExport_LateCommit`: an event that commits after a later stamped one was
   exported never reaches the sheet.

Three limits of what the passing runs show are worth knowing, though no run is
spent on them. Were the update statement accepted, `completed` would not see the
row that `claimed` inserts in the same statement, and a resumed update would not
find what it had updated: `FunctionBatch_Updates` models that, and the user is
then told that there is nothing to update. `OneRowPerTransaction` needs runs of
the export job that do not overlap. And a late or repeated execution of a
clarification saves its pending request once more, whatever has become of the
first: no document says what it should do, so there is no property of it.

## 8. What is not modelled

* The content of messages, prompts, replies and cells; HTTP, XML, signatures;
  logging; configuration at start-up; deployment scripts.
* On the legacy path: other users (their rows are never looked at), a second
  process at the same time (its memory is empty, like one restarted), and a
  Sheets call that takes effect after the process that made it was stopped.
* Recognition of words in a message: dates, currencies, categories and shapes in
  `core/validator.py`, `core/currencies.py`, `core/categories.py` and
  `core/intent_parser.py`. They are stateless tables and regular expressions; a
  model would have to spell out strings to say anything about them. The other
  modules take any result they may have.
* Statistics: matching of merchants by substring, decimals and their rounding,
  percentages and wording; the monthly total of the worksheet ledger. A rate
  that the provider corrects after it was published.
* Backfill: reports and options of the scripts; worksheets whose headers are
  wrong; the tables of users and identities that an import creates on the way;
  an operator who reconciles PostgreSQL transactions into the worksheet after a
  rollback.
* Migrations: what the files do, but that they take effect once and in order.
* Concurrent changes by an operator with SQL of his own, and deleted rows: no
  code deletes a transaction.
* PostgreSQL deadlocks between transactions of several statements: executions of
  one batch take their keys in the same order, and a transaction that updates
  several rows locks them in the order of `created_at`, because the latest row
  it sees only gets later.

## 9. Plan

Done, in the order of what carries the service's promise to its users: the
models of `FunctionBatch` and its contract, `SheetExport`, `LegacyTransactions`,
`SpendingStatistics`, `Migrations` and `Backfill`, their runs, and proofs of every
safety and action property and of the refinement. What is left:

1. `RepliesAgree` and the refinement without the premise `Plain`, with an
   outcome for an update that finds nothing; likewise what remains of
   `OneOutcome` during a rollout.
2. What of `RowsAreUnique` and `RowsGoForward` survives runs that overlap: the
   rows that one run appended before another began to look.
3. Safety halves of the liveness properties: that a request which is under way
   can always take a step (no statement waits for itself), and that what a
   redelivery resumes is never farther from its end than before.
