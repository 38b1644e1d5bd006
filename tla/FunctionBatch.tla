--------------------------- MODULE FunctionBatch ---------------------------
(***************************************************************************)
(* Function batches: what happens to a chat message from the moment the    *)
(* provider delivers it until the provider stops redelivering it.          *)
(*                                                                         *)
(*   core/function_batch_handler.py      claim, model selection, accept    *)
(*   core/function_batch_executor.py     validation, writes, reads, reply  *)
(*   core/pending_requests.py            the open clarification            *)
(*   integrations/postgres/function_batch_repository.py   the SQL          *)
(*   app/telegram_webhook.py             send the reply, acknowledge       *)
(*                                                                         *)
(* A worker is one request thread of any instance of the service.  It      *)
(* keeps nothing between two requests: what survives is in PostgreSQL.     *)
(* Every action is one database round trip, one model call or one message  *)
(* to the provider, so any other worker may run between two of them.       *)
(* execute_writes is a READ COMMITTED transaction of several statements:   *)
(* its rows stay in tx[w] until Commit, a unique key or a row held by      *)
(* another open transaction blocks the statement, and a statement that had *)
(* to wait keeps to the rows its snapshot showed it when it began.         *)
(*                                                                         *)
(* All messages are from one sender in one chat: the rows of other senders *)
(* and chats are disjoint.                                                 *)
(***************************************************************************)
EXTENDS Naturals, Sequences, FiniteSets

CONSTANTS
    Message,         \* inbound messages, one per provider dedupe key
    Worker,          \* request threads
    Proposal,        \* the batches the model may select: sequences of calls
    Legacy,          \* messages an instance of the pre-batch revision also gets
    UpdateAccepted,  \* does the server accept the text of the update statement?
    MaxFailures,     \* bound: crashes and repository errors in a behaviour
    MaxClock         \* bound: validations of a batch that writes

(* "bad" is any call whose arguments the executor refuses.                 *)
Call == {"record", "update", "read", "clarify", "reject", "bad"}

ASSUME ConstantsAssumption ==
    /\ Proposal \subseteq Seq(Call) \ {<<>>}
    /\ Legacy \subseteq Message
    /\ UpdateAccepted \in BOOLEAN
    /\ MaxFailures \in Nat
    /\ MaxClock \in Nat

VARIABLES
    batch,     \* function_call_batches: [status, calls, reply] per message
    ledger,    \* committed writes: transactions, executions and their events
    pending,   \* pending_requests: at most one row, [by, fresh]
    retired,   \* history: messages whose pending row was removed or replaced
    pc,        \* where each worker is in its request
    job,       \* the message it handles
    plan,      \* its local FunctionCallBatch
    next,      \* index of the next call of plan to look at in execute_writes
    stamp,     \* the time its writes carry
    goal,      \* the row its waiting update statement has chosen
    tx,        \* the writes of its open transaction
    answer,    \* the reply it is about to store or send
    clock,     \* the clock the executors read
    modelCalls,\* history: how often the model was asked about a message
    replies,   \* <<m, r>>: reply r to message m reached the user
    acked,     \* the provider got a 2xx for the message
    failures   \* number of failures so far

dbVars == <<batch, ledger, pending, retired>>
localVars == <<job, plan, next, stamp, goal, tx, answer>>
outVars == <<clock, modelCalls, replies, acked, failures>>
vars == <<batch, ledger, pending, retired, pc, job, plan, next, stamp, goal, tx,
          answer, clock, modelCalls, replies, acked, failures>>

-----------------------------------------------------------------------------
(* Data *)

Status == {"none", "selecting", "accepted", "writes_committed", "completed"}

NoMessage == "no message"
NoTransaction == <<"no transaction", 0>>

(* A call is named by its message and its index in the batch.  One write   *)
(* is the transaction row and its 'created' event, or the execution row    *)
(* and the 'updated' event: each pair is inserted in one transaction.      *)
(* "at" is the validation the write comes from, "on" the row it changes.   *)
CallId == Message \X Nat
Write == [kind : {"created", "updated"}, call : CallId, at : Nat, on : CallId]

(* Reply texts are abstracted to their kind, plus, for a batch with reads, *)
(* the committed rows the reads saw.                                       *)
Reply(kind, read, rows) == [kind |-> kind, read |-> read, rows |-> rows]
NoReply == Reply("none", "none", {})
Says(kind) == Reply(kind, "none", {})
ReplySet ==
    [kind : {"none", "done", "clarify", "reject", "missing", "failed", "legacy"},
     read : {"none", "ok", "failed"},
     rows : SUBSET CallId]

Has(calls, kind) == \E i \in DOMAIN calls : calls[i] = kind
IsControl(calls) == Has(calls, "clarify") \/ Has(calls, "reject")
WriteIndexes(calls) == {i \in DOMAIN calls : calls[i] \in {"record", "update"}}

(* _validate_batch: a control call stands alone, every argument is legal.  *)
Valid(calls) ==
    /\ IsControl(calls) => Len(calls) = 1
    /\ ~Has(calls, "bad")

BatchRow(status, calls, reply) ==
    [status |-> status, calls |-> calls, reply |-> reply]
NoBatch == BatchRow("none", <<>>, NoReply)

(* A transaction of the message that is not of a batch.                    *)
LegacyRow(m) == \E e \in ledger : e.call = <<m, 0>>

-----------------------------------------------------------------------------
(* Initial state: an empty database and idle workers. *)

Init ==
    /\ batch = [m \in Message |-> NoBatch]
    /\ ledger = {}
    /\ pending = {}
    /\ retired = {}
    /\ pc = [w \in Worker |-> "idle"]
    /\ job = [w \in Worker |-> NoMessage]
    /\ plan = [w \in Worker |-> <<>>]
    /\ next = [w \in Worker |-> 1]
    /\ stamp = [w \in Worker |-> 0]
    /\ goal = [w \in Worker |-> NoTransaction]
    /\ tx = [w \in Worker |-> {}]
    /\ answer = [w \in Worker |-> NoReply]
    /\ clock = 0
    /\ modelCalls = [m \in Message |-> 0]
    /\ replies = {}
    /\ acked = [m \in Message |-> FALSE]
    /\ failures = 0

-----------------------------------------------------------------------------
(* Steps of a worker *)

Goto(w, label) == pc' = [pc EXCEPT ![w] = label]

(* The request ends, with or without a 2xx; an open transaction is rolled  *)
(* back with its connection.                                               *)
EndRequest(w) ==
    /\ Goto(w, "idle")
    /\ job' = [job EXCEPT ![w] = NoMessage]
    /\ plan' = [plan EXCEPT ![w] = <<>>]
    /\ next' = [next EXCEPT ![w] = 1]
    /\ stamp' = [stamp EXCEPT ![w] = 0]
    /\ goal' = [goal EXCEPT ![w] = NoTransaction]
    /\ tx' = [tx EXCEPT ![w] = {}]
    /\ answer' = [answer EXCEPT ![w] = NoReply]

(* A TransactionRepositoryError is re-raised: HTTP 500, to be retried.     *)
Raise(w) ==
    /\ EndRequest(w)
    /\ UNCHANGED <<dbVars, outVars>>

(* The handler returns this reply to the webhook.                          *)
Return(w, reply) ==
    /\ answer' = [answer EXCEPT ![w] = reply]
    /\ Goto(w, "send")

(* The provider delivers, or redelivers, message m.                        *)
Deliver(w, m) ==
    /\ pc[w] = "idle"
    /\ Goto(w, "find")
    /\ job' = [job EXCEPT ![w] = m]
    /\ UNCHANGED <<plan, next, stamp, goal, tx, answer, dbVars, outVars>>

(* Hand the batch to the executor, which validates it before any SQL; a    *)
(* FunctionBatchValidationError becomes the generic failure reply.         *)
StartExecutor(w, calls) ==
    /\ plan' = [plan EXCEPT ![w] = calls]
    /\ IF Valid(calls)
       THEN Goto(w, "begin") /\ UNCHANGED answer
       ELSE Return(w, Says("failed"))

(* find_batch: the batch row wins over a legacy transaction.               *)
FindBatch(w) ==
    LET m == job[w] b == batch[m] IN
    /\ pc[w] = "find"
    /\ \/ /\ b.status = "completed"
          /\ Return(w, b.reply) /\ UNCHANGED plan
       \/ /\ b.status = "none" /\ LegacyRow(m)
          /\ Return(w, Says("legacy")) /\ UNCHANGED plan
       \/ /\ b.status # "completed" /\ b.calls # <<>>
          /\ StartExecutor(w, b.calls)
       \/ /\ b.calls = <<>> /\ ~(b.status = "none" /\ LegacyRow(m))
          /\ Goto(w, "claim") /\ UNCHANGED <<plan, answer>>
    /\ UNCHANGED <<job, next, stamp, goal, tx, dbVars, outVars>>

(* begin_batch's own lookup of such a transaction, whatever the batch is.  *)
(* Mutant: only for a message without a batch, as find_batch does.         *)
LegacyFoundForNew(m) == LegacyRow(m) /\ batch[m].status = "none"
LegacyFound(m) == LegacyRow(m)

(* Mutants: a claim whose owner may be gone is taken over; an unfinished   *)
(* batch is selected again.                                                *)
MayTakeOver(b) == b.status \in {"none", "selecting"}
MayStartOver(b) == b.status # "completed"

(* INSERT ... ON CONFLICT DO NOTHING on the message's batch row.           *)
MayClaim(b) == b.status = "none"

(* begin_batch(message, ()): only the request that inserted the row may    *)
(* ask the model; another one that meets a 'selecting' row gives up.       *)
ClaimSelection(w) ==
    LET m == job[w] b == batch[m] IN
    /\ pc[w] = "claim"
    /\ \/ /\ LegacyFound(m)
          /\ Return(w, Says("legacy")) /\ UNCHANGED <<plan, batch>>
       \/ /\ ~LegacyFound(m) /\ MayClaim(b)
          /\ batch' = [batch EXCEPT ![m] = BatchRow("selecting", <<>>, NoReply)]
          /\ Goto(w, "load") /\ UNCHANGED <<plan, answer>>
       \/ /\ ~LegacyFound(m) /\ b.status = "completed"
          /\ Return(w, b.reply) /\ UNCHANGED <<plan, batch>>
       \/ /\ ~LegacyFound(m) /\ b.status \in {"accepted", "writes_committed"}
          /\ StartExecutor(w, b.calls) /\ UNCHANGED batch
    /\ UNCHANGED <<job, next, stamp, goal, tx, ledger, pending, retired, outVars>>

ClaimTaken(w) ==
    /\ pc[w] = "claim"
    /\ ~LegacyFound(job[w])
    /\ batch[job[w]].status = "selecting"
    /\ Raise(w)

(* PendingRequestService.load: read, then delete what has expired.         *)
LoadPending(w) ==
    /\ pc[w] = "load"
    /\ Goto(w, IF \E p \in pending : ~p.fresh THEN "expire" ELSE "select")
    /\ UNCHANGED <<localVars, dbVars, outVars>>

RemovePending ==
    /\ retired' = retired \cup {p.by : p \in pending}
    /\ pending' = {}

(* Mutant: ON CONFLICT DO NOTHING instead of DO UPDATE.                    *)
SavePendingOnce(m) ==
    /\ pending' = IF pending = {} THEN {[by |-> m, fresh |-> TRUE]} ELSE pending
    /\ UNCHANGED retired

SavePending(m) ==
    /\ retired' = retired \cup ({p.by : p \in pending} \ {m})
    /\ pending' = {[by |-> m, fresh |-> TRUE]}

DropExpired(w) ==
    /\ pc[w] = "expire"
    /\ RemovePending
    /\ Goto(w, "select")
    /\ UNCHANGED <<batch, ledger, localVars, outVars>>

(* selector.select: the model proposes any batch, or the call fails and    *)
(* the failure reply is sent with the batch left 'selecting'.              *)
AskModel(w) == modelCalls' = [modelCalls EXCEPT ![job[w]] = @ + 1]

SelectCalls(w) ==
    /\ pc[w] = "select"
    /\ AskModel(w)
    /\ \E calls \in Proposal : plan' = [plan EXCEPT ![w] = calls]
    /\ Goto(w, "accept")
    /\ UNCHANGED <<job, next, stamp, goal, tx, answer, dbVars, clock, replies, acked,
                   failures>>

SelectionFails(w) ==
    /\ pc[w] = "select"
    /\ AskModel(w)
    /\ Return(w, Says("failed"))
    /\ UNCHANGED <<job, plan, next, stamp, goal, tx, dbVars, clock, replies, acked,
                   failures>>

(* accept_calls: compare-and-set from 'selecting' with no calls.           *)
ClaimHeld(b) == b.status = "selecting" /\ b.calls = <<>>

AcceptCalls(w) ==
    LET m == job[w] IN
    /\ pc[w] = "accept"
    /\ IF ClaimHeld(batch[m])
       THEN /\ batch' = [batch EXCEPT ![m] = BatchRow("accepted", plan[w], NoReply)]
            /\ StartExecutor(w, plan[w])
            /\ UNCHANGED <<job, next, stamp, goal, tx, ledger, pending, retired, outVars>>
       ELSE Raise(w)

(* begin_batch(message, calls) and the second validation.  The executor    *)
(* goes on with the persisted calls; what it will write gets its time.     *)
PersistedCalls(w) ==
    IF batch[job[w]].calls = <<>> THEN plan[w] ELSE batch[job[w]].calls

(* A refused update statement writes nothing that could carry a time.      *)
MayWrite(calls) ==
    Has(calls, "record") \/ (UpdateAccepted /\ Has(calls, "update"))

BeginExecution(w) ==
    LET m == job[w] calls == PersistedCalls(w) IN
    /\ pc[w] = "begin"
    /\ \/ /\ LegacyFound(m)
          /\ Return(w, Says("legacy"))
          /\ UNCHANGED <<plan, stamp, clock>>
       \/ /\ ~LegacyFound(m) /\ batch[m].status = "completed"
          /\ Return(w, batch[m].reply)
          /\ UNCHANGED <<plan, stamp, clock>>
       \/ /\ ~LegacyFound(m) /\ batch[m].status # "completed"
          /\ plan' = [plan EXCEPT ![w] = calls]
          /\ IF MayWrite(calls)
             THEN /\ clock < MaxClock
                  /\ clock' = clock + 1
                  /\ stamp' = [stamp EXCEPT ![w] = clock + 1]
             ELSE UNCHANGED <<clock, stamp>>
          /\ Goto(w, IF IsControl(calls) THEN "control" ELSE "write")
          /\ UNCHANGED answer
    /\ UNCHANGED <<job, next, goal, tx, dbVars, modelCalls, replies, acked, failures>>

(* _execute_control, then the reply of the control call.                   *)
SaveClarification(w) ==
    /\ pc[w] = "control" /\ Has(plan[w], "clarify")
    /\ SavePending(job[w])
    /\ answer' = [answer EXCEPT ![w] = Says("clarify")]
    /\ Goto(w, "complete")
    /\ UNCHANGED <<batch, ledger, job, plan, next, stamp, goal, tx, outVars>>

RejectRequest(w) ==
    /\ pc[w] = "control" /\ Has(plan[w], "reject")
    /\ RemovePending
    /\ answer' = [answer EXCEPT ![w] = Says("reject")]
    /\ Goto(w, "complete")
    /\ UNCHANGED <<batch, ledger, job, plan, next, stamp, goal, tx, outVars>>

-----------------------------------------------------------------------------
(* execute_writes: one transaction, one statement per write call *)

(* Mutant: the last call of the batch is left out.                         *)
RemainingButLast(w) ==
    {i \in WriteIndexes(plan[w]) : i >= next[w] /\ i < Len(plan[w])}
Remaining(w) == {i \in WriteIndexes(plan[w]) : i >= next[w]}
IsNextWrite(w, i) == i \in Remaining(w) /\ \A j \in Remaining(w) : i <= j

(* Mutants: no unique key, seen from another open transaction, and after   *)
(* its commit.                                                             *)
HolderIgnored(w, c) == FALSE
KeyIgnored(c) == FALSE

(* The key (batch, call index) of transactions and of executions.          *)
HeldByOther(w, c) == \E v \in Worker \ {w} : \E e \in tx[v] : e.call = c
KeyCommitted(c) == \E e \in ledger : e.call = c

(* The last update of an open transaction may still wait for its row.      *)
AwaitsRow(w, e) == pc[w] = "locked" /\ e.call[2] + 1 = next[w]
RowLocked(w, r) ==
    \E v \in Worker \ {w} : \E e \in tx[v] :
        e.kind = "updated" /\ e.on = r /\ ~AwaitsRow(v, e)

InWriteTransaction(w) == pc[w] \in {"write", "blocked"}

(* Mutant: each statement commits by itself.                               *)
AutoCommit(w, i, e, label) ==
    /\ ledger' = ledger \cup {e}
    /\ next' = [next EXCEPT ![w] = i + 1]
    /\ goal' = [goal EXCEPT ![w] = NoTransaction]
    /\ Goto(w, label)
    /\ UNCHANGED <<job, plan, stamp, tx, answer, batch, pending, retired, outVars>>

(* The write is added to the open transaction, the next call is next.      *)
Buffer(w, i, e, label) ==
    /\ tx' = [tx EXCEPT ![w] = @ \cup {e}]
    /\ next' = [next EXCEPT ![w] = i + 1]
    /\ goal' = [goal EXCEPT ![w] = NoTransaction]
    /\ Goto(w, label)
    /\ UNCHANGED <<job, plan, stamp, answer, dbVars, outVars>>

(* The user's latest transactions, by created_at, among the rows the       *)
(* statement sees: the committed ones and those of its own transaction.    *)
(* The records of a batch have one created_at, and the ids that decide     *)
(* between them are random.                                                *)
(* Mutant: READ UNCOMMITTED.                                               *)
DirtyVisible(w) ==
    {e \in ledger \cup UNION {tx[v] : v \in Worker} : e.kind = "created"}
Visible(w) == {e \in ledger \cup tx[w] : e.kind = "created"}
Latest(w) == {e \in Visible(w) : \A d \in Visible(w) : d.at <= e.at}

(* The row an update statement that starts now may choose, or none; one    *)
(* that had to wait keeps the choice it made on the snapshot of its start. *)
Choices(w) ==
    IF Latest(w) = {} THEN {NoTransaction} ELSE {e.call : e \in Latest(w)}
Chosen(w) == IF pc[w] = "blocked" THEN {goal[w]} ELSE Choices(w)

(* A statement that meets a key another open transaction holds waits for   *)
(* that transaction; its snapshot is the one of its start.                 *)
StatementBlocks(w) ==
    /\ pc[w] = "write"
    /\ \E i \in WriteIndexes(plan[w]) :
        /\ IsNextWrite(w, i)
        /\ HeldByOther(w, <<job[w], i>>)
        /\ \/ plan[w][i] = "record" /\ UNCHANGED goal
           \/ /\ plan[w][i] = "update" /\ UpdateAccepted
              /\ \E r \in Choices(w) : goal' = [goal EXCEPT ![w] = r]
    /\ Goto(w, "blocked")
    /\ UNCHANGED <<job, plan, next, stamp, tx, answer, dbVars, outVars>>

InsertRecord(w) ==
    /\ InWriteTransaction(w)
    /\ \E i \in WriteIndexes(plan[w]) :
        LET c == <<job[w], i>> IN
        /\ IsNextWrite(w, i) /\ plan[w][i] = "record"
        /\ ~HeldByOther(w, c) /\ ~KeyCommitted(c)
        /\ Buffer(w, i, [kind |-> "created", call |-> c, at |-> stamp[w],
                         on |-> c], "write")

(* ON CONFLICT DO NOTHING: the row inserted earlier is returned.           *)
ReuseRecord(w) ==
    /\ pc[w] = "write"
    /\ \E i \in WriteIndexes(plan[w]) :
        /\ IsNextWrite(w, i) /\ plan[w][i] = "record"
        /\ KeyCommitted(<<job[w], i>>)
        /\ next' = [next EXCEPT ![w] = i + 1]
    /\ UNCHANGED <<pc, job, plan, stamp, goal, tx, answer, dbVars, outVars>>

(* The row that made the statement wait was committed after its snapshot:  *)
(* neither inserted nor selected, no row, TransactionRepositoryError.      *)
InsertLost(w) ==
    /\ pc[w] = "blocked"
    /\ \E i \in WriteIndexes(plan[w]) :
        /\ IsNextWrite(w, i) /\ plan[w][i] = "record"
        /\ KeyCommitted(<<job[w], i>>)
    /\ Raise(w)

(* The statement holds the key of the call before it locks the row; if     *)
(* another transaction has the row, it waits for that very row, though a   *)
(* later one is committed meanwhile.                                       *)
ApplyUpdate(w) ==
    /\ UpdateAccepted /\ InWriteTransaction(w)
    /\ \E i \in WriteIndexes(plan[w]), r \in Chosen(w) \ {NoTransaction} :
        LET c == <<job[w], i>> IN
        /\ IsNextWrite(w, i) /\ plan[w][i] = "update"
        /\ ~HeldByOther(w, c) /\ ~KeyCommitted(c)
        /\ Buffer(w, i, [kind |-> "updated", call |-> c, at |-> stamp[w],
                         on |-> r],
                  IF RowLocked(w, r) THEN "locked" ELSE "write")

RowFreed(w) ==
    /\ pc[w] = "locked"
    /\ \E e \in tx[w] : AwaitsRow(w, e) /\ ~RowLocked(w, e.on)
    /\ Goto(w, "write")
    /\ UNCHANGED <<localVars, dbVars, outVars>>

(* No row comes back: the user has no transaction, or the call already has *)
(* an execution row.  That row's transaction_id is NULL: CTE "completed"   *)
(* runs on the snapshot of the statement that inserts the row, so its      *)
(* UPDATE never sees it, and CTE "selected" joins on transaction_id.       *)
UpdateMisses(w) ==
    /\ UpdateAccepted /\ InWriteTransaction(w)
    /\ \E i \in WriteIndexes(plan[w]) :
        LET c == <<job[w], i>> IN
        /\ IsNextWrite(w, i) /\ plan[w][i] = "update"
        /\ ~HeldByOther(w, c)
        /\ KeyCommitted(c) \/ NoTransaction \in Chosen(w)
    /\ tx' = [tx EXCEPT ![w] = {}]
    /\ goal' = [goal EXCEPT ![w] = NoTransaction]
    /\ Goto(w, "no_target")
    /\ UNCHANGED <<job, plan, next, stamp, answer, dbVars, outVars>>

(* PostgreSQL refuses the text: the branches of UNION ALL in "selected"    *)
(* have old_values (jsonb) and inserted (boolean) in opposite order.       *)
UpdateRefused(w) ==
    /\ ~UpdateAccepted /\ pc[w] = "write"
    /\ \E i \in WriteIndexes(plan[w]) :
        IsNextWrite(w, i) /\ plan[w][i] = "update"
    /\ Raise(w)

(* Mutant: a status the schema does not have.                              *)
MarkMisspelt(b) == [b EXCEPT !.status = "committed"]

(* mark_writes_committed leaves a batch that is not 'accepted' alone.      *)
MarkCommitted(b) ==
    IF b.status = "accepted" THEN [b EXCEPT !.status = "writes_committed"] ELSE b

Commit(w) ==
    /\ pc[w] = "write" /\ Remaining(w) = {}
    /\ ledger' = ledger \cup tx[w]
    /\ batch' = [batch EXCEPT ![job[w]] = MarkCommitted(@)]
    /\ tx' = [tx EXCEPT ![w] = {}]
    /\ IF Has(plan[w], "read")
       THEN Goto(w, "read") /\ UNCHANGED answer
       ELSE Goto(w, "clear") /\ answer' = [answer EXCEPT ![w] = Says("done")]
    /\ UNCHANGED <<pending, retired, job, plan, next, stamp, goal, outVars>>

-----------------------------------------------------------------------------
(* After the writes *)

SaveMissingTarget(w) ==
    /\ pc[w] = "no_target"
    /\ SavePending(job[w])
    /\ answer' = [answer EXCEPT ![w] = Says("missing")]
    /\ Goto(w, "complete")
    /\ UNCHANGED <<batch, ledger, job, plan, next, stamp, goal, tx, outVars>>

(* Mutant: the period read ends before the batch's own records.            *)
ReadEarlier(w) ==
    /\ pc[w] = "read"
    /\ answer' = [answer EXCEPT ![w] =
           Reply("done", "ok",
                 {e.call : e \in {d \in ledger : d.kind = "created" /\ d.at < stamp[w]}})]
    /\ Goto(w, "clear")
    /\ UNCHANGED <<job, plan, next, stamp, goal, tx, dbVars, outVars>>

(* The read calls of the batch, taken as one read of the committed rows;   *)
(* an exception of a read only changes its line of the reply.              *)
ReadLedger(w) ==
    /\ pc[w] = "read"
    /\ \/ answer' = [answer EXCEPT ![w] =
              Reply("done", "ok",
                    {e.call : e \in {d \in ledger : d.kind = "created"}})]
       \/ answer' = [answer EXCEPT ![w] = Reply("done", "failed", {})]
    /\ Goto(w, "clear")
    /\ UNCHANGED <<job, plan, next, stamp, goal, tx, dbVars, outVars>>

ClearPending(w) ==
    /\ pc[w] = "clear"
    /\ RemovePending
    /\ Goto(w, "complete")
    /\ UNCHANGED <<batch, ledger, localVars, outVars>>

(* Mutants: every completion stores its reply; only a batch with committed *)
(* writes can be completed.                                                *)
CompletedAgain(b, reply) == [b EXCEPT !.status = "completed", !.reply = reply]
CompletedAfterWrites(b, reply) ==
    IF b.status = "writes_committed"
    THEN [b EXCEPT !.status = "completed", !.reply = reply]
    ELSE b

(* complete_batch: the first completion stores its reply, a later one      *)
(* matches no row, which nobody looks at; both return their own reply.     *)
Completed(b, reply) ==
    IF b.status \in {"accepted", "writes_committed"}
    THEN [b EXCEPT !.status = "completed", !.reply = reply]
    ELSE b

CompleteBatch(w) ==
    /\ pc[w] = "complete"
    /\ batch' = [batch EXCEPT ![job[w]] = Completed(@, answer[w])]
    /\ Goto(w, "send")
    /\ UNCHANGED <<ledger, pending, retired, localVars, outVars>>

(* The webhook sends the reply, then answers the provider with a 2xx.      *)
SendReply(w) ==
    /\ pc[w] = "send"
    /\ replies' = replies \cup {<<job[w], answer[w]>>}
    /\ Goto(w, "ack")
    /\ UNCHANGED <<localVars, dbVars, clock, modelCalls, acked, failures>>

Acknowledge(w) ==
    /\ pc[w] = "ack"
    /\ acked' = [acked EXCEPT ![job[w]] = TRUE]
    /\ EndRequest(w)
    /\ UNCHANGED <<dbVars, clock, modelCalls, replies, failures>>

-----------------------------------------------------------------------------
(* Environment *)

(* The instance is stopped, the request times out, the database or the     *)
(* provider's API fails: the request ends without a 2xx.                   *)
Fail(w) ==
    /\ pc[w] # "idle"
    /\ failures < MaxFailures
    /\ failures' = failures + 1
    /\ EndRequest(w)
    /\ UNCHANGED <<dbVars, clock, modelCalls, replies, acked>>

(* Ten minutes pass.                                                       *)
ExpirePending ==
    /\ \E p \in pending : p.fresh
    /\ pending' = {[p EXCEPT !.fresh = FALSE] : p \in pending}
    /\ UNCHANGED <<batch, ledger, retired, pc, localVars, outVars>>

(* An instance of the previous revision handles the same delivery:         *)
(* append_transaction inserts unless the message already has a row.        *)
LegacyAppend(m) ==
    /\ m \in Legacy
    /\ ~acked[m]
    /\ clock < MaxClock
    /\ IF \E e \in ledger : e.kind = "created" /\ e.call[1] = m
       THEN UNCHANGED <<ledger, clock>>
       ELSE /\ clock' = clock + 1
            /\ ledger' = ledger \cup
                 {[kind |-> "created", call |-> <<m, 0>>, at |-> clock + 1,
                   on |-> <<m, 0>>]}
    /\ replies' = replies \cup {<<m, Says("legacy")>>}
    /\ acked' = [acked EXCEPT ![m] = TRUE]
    /\ UNCHANGED <<batch, pending, retired, pc, localVars, modelCalls, failures>>

-----------------------------------------------------------------------------
(* Specification *)

(* What a request thread does by itself once it has a message.             *)
WorkerStep(w) ==
    \/ FindBatch(w) \/ ClaimSelection(w) \/ ClaimTaken(w)
    \/ LoadPending(w) \/ DropExpired(w) \/ SelectCalls(w) \/ SelectionFails(w)
    \/ AcceptCalls(w) \/ BeginExecution(w)
    \/ SaveClarification(w) \/ RejectRequest(w)
    \/ StatementBlocks(w) \/ InsertRecord(w) \/ ReuseRecord(w) \/ InsertLost(w)
    \/ ApplyUpdate(w) \/ RowFreed(w) \/ UpdateMisses(w) \/ UpdateRefused(w)
    \/ Commit(w)
    \/ SaveMissingTarget(w) \/ ReadLedger(w) \/ ClearPending(w)
    \/ CompleteBatch(w) \/ SendReply(w) \/ Acknowledge(w)

Next ==
    \/ \E w \in Worker : WorkerStep(w) \/ Fail(w)
    \/ \E w \in Worker, m \in Message : Deliver(w, m)
    \/ ExpirePending
    \/ \E m \in Legacy : LegacyAppend(m)

Spec == Init /\ [][Next]_vars

(* Threads run, and the provider redelivers what it got no 2xx for.        *)
Redeliver(m) == ~acked[m] /\ \E w \in Worker : Deliver(w, m)

FairSpec ==
    /\ Spec
    /\ \A w \in Worker : WF_vars(WorkerStep(w))
    /\ \A m \in Message : SF_vars(Redeliver(m))

-----------------------------------------------------------------------------
(* Properties *)

Label == {"idle", "find", "claim", "load", "expire", "select", "accept",
          "begin", "control", "write", "blocked", "locked", "no_target",
          "read", "clear", "complete", "send", "ack"}
Calls == Proposal \cup {<<>>}

(* Every variable has its type.                                            *)
TypeOK ==
    /\ batch \in [Message -> [status : Status, calls : Calls, reply : ReplySet]]
    /\ ledger \subseteq Write
    /\ pending \subseteq [by : Message, fresh : BOOLEAN]
    /\ retired \subseteq Message
    /\ pc \in [Worker -> Label]
    /\ job \in [Worker -> Message \cup {NoMessage}]
    /\ plan \in [Worker -> Calls]
    /\ next \in [Worker -> Nat]
    /\ stamp \in [Worker -> Nat]
    /\ goal \in [Worker -> CallId \cup {NoTransaction}]
    /\ tx \in [Worker -> SUBSET Write]
    /\ answer \in [Worker -> ReplySet]
    /\ clock \in Nat
    /\ modelCalls \in [Message -> Nat]
    /\ replies \subseteq Message \X ReplySet
    /\ acked \in [Message -> BOOLEAN]
    /\ failures \in Nat

WritesOf(m) == {e \in ledger : e.call[1] = m /\ e.call[2] > 0}
AllWritten(m) ==
    \A i \in WriteIndexes(batch[m].calls) : \E e \in ledger : e.call = <<m, i>>
Told(m, kind) == \E r \in replies : r[1] = m /\ r[2].kind = kind

(* However often a message is delivered and its batch resumed, each of its *)
(* calls is written at most once (unique keys of 0004, execute_writes).    *)
OneWritePerCall == \A d, e \in ledger : d.call = e.call => d = e

(* The writes of a batch become visible together: no crash, rollback or    *)
(* concurrent resume leaves a part of the accepted calls in the ledger.    *)
AllOrNothing == \A m \in Message : WritesOf(m) # {} => AllWritten(m)

(* The model is asked at most once per message, whatever the deliveries    *)
(* that race for the 'selecting' claim and the crashes of its owner.       *)
OneSelection == \A m \in Message : modelCalls[m] <= 1

(* A user told that processing failed has nothing in the ledger, and no    *)
(* concurrent or later delivery of the same message puts it there.         *)
FailureMeansNoWrites ==
    \A m \in Message : Told(m, "failed") => WritesOf(m) = {}

(* A user told "recorded" or "updated" has every write of the batch.       *)
DoneMeansDurable == \A m \in Message : Told(m, "done") => AllWritten(m)

(* Statistics in a reply include what the same message recorded, also when *)
(* the record call comes after the read call, and on a resumed batch.      *)
ReadsSeeOwnWrites ==
    \A r \in replies : r[2].read = "ok" =>
        {<<r[1], i>> : i \in {j \in DOMAIN batch[r[1]].calls :
                                 batch[r[1]].calls[j] = "record"}}
            \subseteq r[2].rows

(* Whatever deliveries race and whoever resumes the batch, all the replies *)
(* a user gets to one message tell the same outcome: recorded, refused,    *)
(* asked back or failed.  Their texts may differ, see OneReply.            *)
OneOutcome ==
    \A q, r \in replies : q[1] = r[1] => q[2].kind = r[2].kind

(* All the replies a user gets to one message are the same text, the one   *)
(* that was persisted: the same statistics, the same failures of reads.    *)
OneReply ==
    \A q, r \in replies : q[1] = r[1] => q[2] = r[2]

(* A user asked for a missing detail or for a target has an open pending   *)
(* request, unless a later step removed or replaced it.                    *)
AskedMeansPending ==
    \A m \in Message : Told(m, "clarify") \/ Told(m, "missing") =>
        m \in retired \/ \E p \in pending : p.by = m

(* A resumed update may find a newer row, never one that does not exist or *)
(* whose insert was rolled back.                                           *)
UpdatesHitRows ==
    \A e \in ledger : e.kind = "updated" =>
        \E d \in ledger : d.kind = "created" /\ d.call = e.on

(* One delivery is recorded by the batch path or by the previous revision, *)
(* never by both.                                                          *)
OneRecordingPerDelivery ==
    \A m \in Message : LegacyRow(m) => WritesOf(m) = {}

(* Accepted calls never change.                                            *)
AcceptedCallsFixed ==
    [][\A m \in Message :
        batch[m].calls # <<>> => batch'[m].calls = batch[m].calls]_vars

(* Once a reply is stored it stays the stored reply, and the batch stays   *)
(* completed, though late executions of the same batch complete it again.  *)
StoredReplyFixed ==
    [][\A m \in Message :
        batch[m].status = "completed" => batch'[m] = batch[m]]_vars

(* Calls that were accepted and pass validation are eventually completed   *)
(* and acknowledged: a resumed batch never gets stuck.                     *)
AcceptedIsAnswered ==
    \A m \in Message :
        batch[m].status = "accepted" /\ Valid(batch[m].calls)
            ~> batch[m].status = "completed" /\ acked[m]

(* The same of batches whose statements the server takes: what resumes     *)
(* for ever is a batch with an update call, and nothing else.              *)
AnsweredUnlessRefused ==
    \A m \in Message :
        LET calls == batch[m].calls IN
        /\ batch[m].status = "accepted" /\ Valid(calls)
        /\ UpdateAccepted \/ ~Has(calls, "update")
        ~> batch[m].status = "completed" /\ acked[m]

(* Every message somebody began to handle is eventually acknowledged.      *)
EveryDeliveryAnswered ==
    \A m \in Message : (\E w \in Worker : job[w] = m) ~> acked[m]
=============================================================================
