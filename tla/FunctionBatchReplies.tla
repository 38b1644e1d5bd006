------------------------- MODULE FunctionBatchReplies -------------------------
(***************************************************************************)
(* What a reply is worth, for every value of the constants: who may ask    *)
(* the model, what "failed", a question and a figure in a reply stand for, *)
(* that the protocol implements DeliveryContract, when both revisions can  *)
(* record one delivery, and what a delivery that comes too late can do.    *)
(***************************************************************************)
EXTENDS FunctionBatchRefinement, FunctionBatchHistory, FunctionBatchProofs

(* The request that inserted the batch row is the only one between the     *)
(* claim and the compare-and-set that gives it up.                         *)
Claiming == {"load", "expire", "select", "accept"}
Holds(w, m) == pc[w] \in Claiming /\ job[w] = m

HoldersSelect == \A w \in Worker : pc[w] \in Claiming => batch[job[w]].status = "selecting"
OneHolder ==
    \A v, w \in Worker :
        pc[v] \in Claiming /\ pc[w] \in Claiming /\ job[v] = job[w] => v = w
AskedByHolder ==
    /\ \A m \in Message : batch[m].status = "none" => modelCalls[m] = 0
    /\ \A w \in Worker : pc[w] \in Claiming \ {"accept"} => modelCalls[job[w]] = 0

Claimed == HoldersSelect /\ OneHolder /\ AskedByHolder /\ OneSelection

(* Why a message can never be written any more: its claim was given up, or *)
(* it is bound to a batch the executor refuses.                            *)
Abandoned(m) == batch[m].status = "selecting" /\ \A w \in Worker : ~Holds(w, m)
Refused(m) == batch[m].calls # <<>> /\ ~Valid(batch[m].calls)
Doomed(m) == Abandoned(m) \/ Refused(m)

(* The executor has validated what it executes.                            *)
Checked(w) ==
    /\ pc[w] \in Executing => Valid(plan[w])
    /\ pc[w] \in {"write", "blocked", "locked", "no_target", "read",
                 "clear"} => ~IsControl(plan[w])
    /\ pc[w] = "no_target" => UpdateAccepted /\ Has(plan[w], "update")

-----------------------------------------------------------------------------
(* The rows of a message are those its batch asks for. *)

Asks(calls, e) ==
    /\ e.call[2] \in WriteIndexes(calls)
    /\ e.kind = "created" <=> calls[e.call[2]] = "record"

BatchRows ==
    \A e \in ledger : e.call[2] > 0 =>
        Valid(batch[e.call[1]].calls) /\ Asks(batch[e.call[1]].calls, e)
LegacyRows == \A e \in ledger : e.call[2] = 0 => e.call[1] \in Legacy
Seen(w, r) == \E d \in Visible(w) : d.call = r
OpenRows(w) ==
    /\ \A e \in tx[w] : Asks(plan[w], e) /\ (e.kind = "updated" => Seen(w, e.on))
    /\ goal[w] # NoTransaction => Seen(w, goal[w])

Rows ==
    BatchRows /\ LegacyRows /\ UpdatesHitRows /\ \A w \in Worker : OpenRows(w)

-----------------------------------------------------------------------------
(* What stands behind a reply *)

Recorded(m) == \E e \in ledger : e.kind = "created" /\ e.call[1] = m
Asked(m) == m \in retired \/ \E p \in pending : p.by = m
RecordCalls(m) ==
    {<<m, i>> : i \in {j \in DOMAIN batch[m].calls : batch[m].calls[j] = "record"}}
Saw(m, r) == batch[m].calls # <<>> /\ RecordCalls(m) \subseteq r.rows

(* No update finds its row missing: the server refuses the statement, or   *)
(* the model selects none.                                                 *)
Plain == UpdateAccepted => \A calls \in Proposal : ~Has(calls, "update")

Outcome(m) ==
    IF Doomed(m) THEN "failed"
    ELSE IF Has(batch[m].calls, "clarify") THEN "clarify"
    ELSE IF Has(batch[m].calls, "reject") THEN "reject"
    ELSE "done"
Decided(m) == batch[m].calls # <<>> \/ Doomed(m)

Backed(m, r) ==
    /\ r.kind = "failed" => Doomed(m)
    /\ r.kind = "legacy" => Recorded(m)
    /\ r.kind \in {"clarify", "missing"} => Asked(m)
    /\ r.read = "ok" => Saw(m, r)
    /\ Plain /\ m \notin Legacy =>
           r.kind = "none" \/ (Decided(m) /\ r.kind = Outcome(m))

(* Replies an execution ends with; they are stored before they are sent.   *)
Spoken == {"done", "clarify", "reject", "missing"}
Delivered(m, r) ==
    /\ Backed(m, r) /\ r.kind # "none"
    /\ r.kind \in Spoken => batch[m].status = "completed"

InHand(w) ==
    /\ pc[w] \in {"clear", "complete"} =>
           Backed(job[w], answer[w]) /\ answer[w].kind \in Spoken
    /\ pc[w] \in {"send", "ack"} => Delivered(job[w], answer[w])

Stored(m) ==
    /\ Backed(m, batch[m].reply)
    /\ IF batch[m].status = "completed" THEN batch[m].reply.kind \in Spoken
       ELSE batch[m].reply = NoReply

Answered ==
    /\ \A m \in Message : Stored(m)
    /\ \A r \in replies : Delivered(r[1], r[2])
    /\ \A w \in Worker : InHand(w)

ReplyInv == IInv /\ Claimed /\ (\A w \in Worker : Checked(w)) /\ Rows /\ Answered
-----------------------------------------------------------------------------
(* The claim *)

(* A worker enters the claim by inserting the row, and keeps it in its own *)
(* hands until it leaves.                                                  *)
LEMMA ClaimMoves ==
    ASSUME Typed, NEW w \in Worker, Moves(w)
    PROVE  \/ pc'[w] \notin Claiming
           \/ /\ pc[w] \in Claiming /\ job'[w] = job[w] /\ batch' = batch
              /\ pc[w] = "accept" => pc'[w] = "accept"
              /\ modelCalls' # modelCalls => pc'[w] = "accept"
           \/ /\ pc[w] = "claim" /\ job'[w] = job[w] /\ job[w] \in Message
              /\ modelCalls' = modelCalls
              /\ batch[job[w]].status = "none" /\ batch'[job[w]].status = "selecting"
              /\ ~LegacyRow(job[w])
<1> USE DEF Typed, TypeOK, Claiming
<1>1. ASSUME EndRequest(w) PROVE pc'[w] \notin Claiming
    BY <1>1 DEF EndRequest, Goto
<1>2. CASE FindBatch(w) \/ BeginExecution(w) \/ \E m \in Message : Deliver(w, m)
    BY <1>2 DEF Deliver, FindBatch, BeginExecution, StartExecutor, Return, Goto
<1>3. CASE ClaimSelection(w)
    BY <1>3 DEF ClaimSelection, LegacyFound, StartExecutor, Return, Goto, MayClaim,
                BatchRow, BusyHasJob, outVars
<1>4. CASE LoadPending(w) \/ DropExpired(w) \/ SelectCalls(w)
    BY <1>4 DEF LoadPending, DropExpired, SelectCalls, Goto, localVars, dbVars, outVars
<1>5. CASE SelectionFails(w) \/ (AcceptCalls(w) /\ ClaimHeld(batch[job[w]]))
    BY <1>5 DEF SelectionFails, AcceptCalls, StartExecutor, Return, Goto
<1>6. CASE AcceptCalls(w) /\ ~ClaimHeld(batch[job[w]])
    BY <1>6, <1>1 DEF AcceptCalls, Raise
<1>7. CASE SaveClarification(w) \/ RejectRequest(w) \/ SaveMissingTarget(w)
           \/ ReadLedger(w)
    BY <1>7 DEF SaveClarification, RejectRequest, SaveMissingTarget, ReadLedger, Goto
<1>8. CASE StatementBlocks(w) \/ RowFreed(w) \/ ReuseRecord(w) \/ UpdateMisses(w)
           \/ Commit(w)
    BY <1>8 DEF StatementBlocks, RowFreed, ReuseRecord, UpdateMisses, Commit, Goto
<1>9. CASE InsertRecord(w) \/ ApplyUpdate(w)
  <2>1. PICK label \in {"write", "locked"} : \E i, e : Buffer(w, i, e, label)
      BY <1>9 DEF InsertRecord, ApplyUpdate
  <2> QED
      BY <2>1 DEF Buffer, Goto
<1>10. CASE ClearPending(w) \/ CompleteBatch(w) \/ SendReply(w)
    BY <1>10 DEF ClearPending, CompleteBatch, SendReply, Goto
<1>11. CASE ClaimTaken(w) \/ InsertLost(w) \/ UpdateRefused(w) \/ Acknowledge(w)
            \/ Fail(w)
    BY <1>11, <1>1 DEF ClaimTaken, InsertLost, UpdateRefused, Acknowledge, Fail, Raise
<1> QED
    BY <1>2, <1>3, <1>4, <1>5, <1>6, <1>7, <1>8, <1>9, <1>10, <1>11
    DEF Moves, WorkerStep

(* Nobody but its holder changes a row whose selection is claimed.         *)
LEMMA HeldRow ==
    ASSUME Typed, Claimed, [Next]_vars, NEW v \in Worker, pc[v] \in Claiming,
           pc'[v] \in Claiming
    PROVE  batch'[job[v]] = batch[job[v]]
<1>0. job[v] \in Message /\ batch[job[v]].status = "selecting"
    BY DEF Typed, BusyHasJob, Claimed, HoldersSelect, Claiming
<1>1. CASE BatchKept
    BY <1>1 DEF BatchKept
<1>2. ASSUME NEW w \in Worker, job[w] \in Message,
             ClaimSelection(w) \/ AcceptCalls(w) \/ Commit(w) \/ CompleteBatch(w)
      PROVE  batch'[job[v]] = batch[job[v]]
  <2>1. CASE v = w
    <3>1. Moves(w)
        BY <1>2 DEF Moves, WorkerStep
    <3>2. pc[w] # "claim"
        BY <2>1 DEF Claiming
    <3> QED
        BY <2>1, <3>1, <3>2, ClaimMoves
  <2>2. CASE v # w /\ job[w] = job[v]
    <3>1. pc[w] # "accept"
        BY <2>2 DEF Claimed, OneHolder, Claiming
    <3> QED
        BY <1>0, <1>2, <2>2, <3>1, BatchWrites
  <2>3. CASE job[w] # job[v]
      BY <1>0, <1>2, <2>3, BatchWrites
  <2> QED
      BY <2>1, <2>2, <2>3
<1> QED
    BY <1>1, <1>2, BatchSteps

(* Only the holder, about to leave the claim, asks the model.              *)
LEMMA ModelSteps ==
    ASSUME Typed, [Next]_vars
    PROVE  \/ modelCalls' = modelCalls
           \/ \E w \in Worker : /\ Moves(w) /\ pc[w] = "select" /\ batch' = batch
                               /\ modelCalls' = [modelCalls EXCEPT ![job[w]] = @ + 1]
<1>1. ASSUME NEW w \in Worker, WorkerStep(w) \/ Fail(w)
      PROVE  modelCalls' = modelCalls \/ SelectCalls(w) \/ SelectionFails(w)
    BY <1>1 DEF WorkerStep, FindBatch, ClaimSelection, ClaimTaken, LoadPending,
       DropExpired, AcceptCalls, BeginExecution,
       SaveClarification, RejectRequest, StatementBlocks, InsertRecord, ReuseRecord,
       InsertLost, ApplyUpdate, RowFreed, UpdateMisses, UpdateRefused, Commit,
       SaveMissingTarget, ReadLedger, ClearPending, CompleteBatch, SendReply,
       Acknowledge, Fail, Raise, Buffer, outVars
<1>2. ASSUME NEW w \in Worker, SelectCalls(w) \/ SelectionFails(w)
      PROVE  /\ Moves(w) /\ pc[w] = "select" /\ batch' = batch
             /\ modelCalls' = [modelCalls EXCEPT ![job[w]] = @ + 1]
    BY <1>2 DEF SelectCalls, SelectionFails, AskModel, dbVars, Moves, WorkerStep
<1>3. ASSUME NEW w \in Worker, NEW m \in Message, Deliver(w, m)
      PROVE  modelCalls' = modelCalls
    BY <1>3 DEF Deliver, outVars
<1>4. ASSUME NEW m \in Message, LegacyAppend(m) PROVE modelCalls' = modelCalls
    BY <1>4 DEF LegacyAppend
<1>5. CASE ExpirePending \/ UNCHANGED vars
    BY <1>5 DEF ExpirePending, outVars, vars
<1> QED
    BY <1>1, <1>2, <1>3, <1>4, <1>5, ConstantsAssumption DEF Next

(* Who holds the claim after a step held it before, untouched, or has just *)
(* inserted the row.                                                       *)
LEMMA HolderSteps ==
    ASSUME Typed, Claimed, [Next]_vars, NEW v \in Worker, pc'[v] \in Claiming
    PROVE  \/ /\ pc[v] \in Claiming /\ job'[v] = job[v]
              /\ batch'[job[v]] = batch[job[v]]
              /\ pc[v] = "accept" => pc'[v] = "accept"
           \/ /\ job'[v] = job[v] /\ job[v] \in Message
              /\ modelCalls' = modelCalls /\ Moves(v)
              /\ batch[job[v]].status = "none"
              /\ batch'[job[v]].status = "selecting"
<1>1. CASE Moves(v)
    BY <1>1, ClaimMoves
<1>2. ASSUME NEW w \in Worker \ {v}, Moves(w)
      PROVE  pc[v] = pc'[v] /\ job'[v] = job[v]
    BY <1>2, OneWorkerMoves DEF Others
<1>3. CASE UNCHANGED <<batch, pc, localVars>>
    BY <1>3 DEF localVars
<1> QED
    BY <1>1, <1>2, <1>3, StepKinds, HeldRow

LEMMA ClaimedInit == Init => Claimed
BY DEF Init, NoBatch, BatchRow, Claimed, HoldersSelect, OneHolder, AskedByHolder,
       OneSelection, Claiming

LEMMA ClaimedStep == Typed /\ Claimed /\ [Next]_vars => Claimed'
<1> SUFFICES ASSUME Typed, Claimed, [Next]_vars PROVE Claimed'
    OBVIOUS
<1>0. \A v \in Worker : pc[v] \in Claiming => job[v] \in Message
    BY DEF Typed, BusyHasJob, Claiming
<1> USE DEF Claimed, HoldersSelect, OneHolder
<1>1. ASSUME NEW v \in Worker, pc'[v] \in Claiming
      PROVE  \/ /\ pc[v] \in Claiming /\ job'[v] = job[v]
                /\ batch'[job[v]] = batch[job[v]]
                /\ pc[v] = "accept" => pc'[v] = "accept"
             \/ /\ job'[v] = job[v] /\ job[v] \in Message
                /\ modelCalls' = modelCalls /\ Moves(v)
                /\ batch[job[v]].status = "none"
                /\ batch'[job[v]].status = "selecting"
    BY <1>1, HolderSteps
<1>2. HoldersSelect'
    BY <1>1
<1>3. OneHolder'
  <2> SUFFICES ASSUME NEW u \in Worker, NEW v \in Worker, u # v,
                      pc'[u] \in Claiming, pc'[v] \in Claiming, job'[u] = job'[v]
               PROVE  FALSE
      OBVIOUS
  <2>1. pc[u] \in Claiming \/ Moves(u)
      BY <1>1
  <2>2. pc[v] \in Claiming \/ Moves(v)
      BY <1>1
  <2>3. job'[u] = job[u] /\ job'[v] = job[v]
      BY <1>1
  <2>4. CASE Moves(u)
    <3>1. pc'[v] = pc[v]
        BY <2>4, OneWorkerMoves DEF Others
    <3> QED
        BY <3>1, <2>3, <1>1
  <2>5. CASE Moves(v)
    <3>1. pc'[u] = pc[u]
        BY <2>5, OneWorkerMoves DEF Others
    <3> QED
        BY <3>1, <2>3, <1>1
  <2> QED
      BY <2>1, <2>2, <2>3, <2>4, <2>5
<1>4. ASSUME NEW m \in Message, batch'[m].status = "none"
      PROVE  batch[m].status = "none"
    BY <1>4, BatchSteps, BatchWrites DEF BatchKept
<1>5. \A m \in Message : modelCalls[m] \in Nat
    BY DEF Typed, TypeOK
<1>6. ASSUME NEW w \in Worker, Moves(w), pc[w] = "select", batch' = batch,
             modelCalls' = [modelCalls EXCEPT ![job[w]] = @ + 1]
      PROVE  AskedByHolder' /\ OneSelection'
  <2>1. /\ job[w] \in Message /\ modelCalls[job[w]] = 0
        /\ batch[job[w]].status = "selecting"
      BY <1>6, <1>0 DEF AskedByHolder, Claiming
  <2>2. /\ modelCalls'[job[w]] = 1
        /\ \A m \in Message \ {job[w]} : modelCalls'[m] = modelCalls[m]
      BY <1>6, <2>1 DEF Typed, TypeOK
  <2>3. OneSelection'
      BY <2>2 DEF OneSelection
  <2>4. \A m \in Message : batch'[m].status = "none" => modelCalls'[m] = 0
      BY <1>6, <2>1, <2>2 DEF AskedByHolder
  <2>5. ASSUME NEW v \in Worker, pc'[v] \in Claiming \ {"accept"}
        PROVE  modelCalls'[job'[v]] = 0
    <3>1. modelCalls' # modelCalls
        BY <2>1, <2>2
    <3>2. v # w
        BY <3>1, <1>6, <2>5, ClaimMoves
    <3>3. pc'[v] = pc[v] /\ job'[v] = job[v]
        BY <1>6, <3>2, OneWorkerMoves DEF Others
    <3>4. job[v] # job[w] /\ job[v] \in Message /\ modelCalls[job[v]] = 0
        BY <1>0, <1>6, <2>5, <3>2, <3>3 DEF AskedByHolder, Claiming
    <3> QED
        BY <2>2, <3>3, <3>4
  <2> QED
      BY <2>3, <2>4, <2>5 DEF AskedByHolder
<1>7. CASE modelCalls' = modelCalls
  <2>1. \A m \in Message : batch'[m].status = "none" => modelCalls'[m] = 0
      BY <1>4, <1>7 DEF AskedByHolder
  <2>2. ASSUME NEW v \in Worker, pc'[v] \in Claiming \ {"accept"}
        PROVE  modelCalls'[job'[v]] = 0
      BY <1>1, <1>7, <2>2 DEF AskedByHolder
  <2> QED
      BY <1>2, <1>3, <1>7, <2>1, <2>2 DEF AskedByHolder, OneSelection
<1> QED
    BY <1>2, <1>3, <1>6, <1>7, ModelSteps

(* The model is asked at most once per message, whatever the deliveries    *)
(* that race for the 'selecting' row, the crashes of its owner and the     *)
(* redeliveries after them: only begin_batch's INSERT gives the right.     *)
THEOREM SelectionHappensOnce == Spec => []OneSelection
<1>1. Claimed => OneSelection
    BY DEF Claimed
<1> QED
    BY TypedInit, TypedStep, ClaimedInit, ClaimedStep, <1>1, PTL DEF Spec

-----------------------------------------------------------------------------
(* What is executed has been validated *)

LEMMA CheckedMover ==
    ASSUME Typed, Bound, NEW w \in Worker, Checked(w), Moves(w)
    PROVE  Checked(w)'
<1> USE DEF Typed, TypeOK, Checked, Executing
<1>0. ASSUME pc'[w] \in {"idle", "find", "claim", "load", "expire", "select",
                         "accept", "send", "ack"}
      PROVE  Checked(w)'
    BY <1>0
<1>1. ASSUME EndRequest(w) PROVE Checked(w)'
    BY <1>0, <1>1 DEF EndRequest, Goto
<1>2. ASSUME NEW calls, pc[w] # "idle", StartExecutor(w, calls) PROVE Checked(w)'
    BY <1>2 DEF StartExecutor, Return, Goto
<1>3. CASE FindBatch(w) \/ \E m \in Message : Deliver(w, m)
    BY <1>3, <1>0, <1>2 DEF Deliver, FindBatch, Return, Goto
<1>4. CASE ClaimSelection(w)
    BY <1>4, <1>0, <1>2 DEF ClaimSelection, Return, Goto
<1>5. CASE LoadPending(w) \/ DropExpired(w) \/ SelectCalls(w) \/ SelectionFails(w)
           \/ SendReply(w) \/ CompleteBatch(w)
    BY <1>5, <1>0 DEF LoadPending, DropExpired, SelectCalls, SelectionFails,
                      SendReply, CompleteBatch, Return, Goto
<1>6. CASE AcceptCalls(w)
    BY <1>6, <1>1, <1>2 DEF AcceptCalls, Raise
<1>7. CASE BeginExecution(w)
  <2>1. pc[w] = "begin" /\ Persisted(w) /\ Valid(plan[w])
      BY <1>7 DEF BeginExecution, Bound, ExecutesPersisted
  <2>2. PersistedCalls(w) = plan[w]
      BY <2>1 DEF Persisted, PersistedCalls
  <2>3. \/ pc'[w] = "send"
        \/ pc'[w] = "control" /\ plan'[w] = plan[w]
        \/ pc'[w] = "write" /\ plan'[w] = plan[w] /\ ~IsControl(plan[w])
      BY <1>7, <2>1, <2>2 DEF BeginExecution, Return, Goto
  <2> QED
      BY <2>1, <2>3, <1>0
<1>8. CASE SaveClarification(w) \/ RejectRequest(w) \/ SaveMissingTarget(w)
           \/ ReadLedger(w) \/ ClearPending(w)
    BY <1>8 DEF SaveClarification, RejectRequest, SaveMissingTarget, ReadLedger,
                ClearPending, Goto, localVars
<1>9. CASE StatementBlocks(w) \/ RowFreed(w) \/ ReuseRecord(w) \/ Commit(w)
    BY <1>9 DEF StatementBlocks, RowFreed, ReuseRecord, Commit, Goto, localVars
<1>10. CASE InsertRecord(w) \/ ApplyUpdate(w)
  <2>1. PICK label \in {"write", "locked"} :
          InWriteTransaction(w) /\ \E i, e : Buffer(w, i, e, label)
      BY <1>10 DEF InsertRecord, ApplyUpdate
  <2> QED
      BY <2>1 DEF Buffer, Goto, InWriteTransaction
<1>11. CASE UpdateMisses(w)
    BY <1>11 DEF UpdateMisses, InWriteTransaction, Goto, WriteIndexes, Has
<1>12. CASE ClaimTaken(w) \/ InsertLost(w) \/ UpdateRefused(w) \/ Acknowledge(w)
            \/ Fail(w)
    BY <1>12, <1>1 DEF ClaimTaken, InsertLost, UpdateRefused, Acknowledge, Fail, Raise
<1> QED
    BY <1>3, <1>4, <1>5, <1>6, <1>7, <1>8, <1>9, <1>10, <1>11, <1>12
    DEF Moves, WorkerStep

LEMMA CheckedStep ==
    ASSUME Typed, Bound, \A w \in Worker : Checked(w), [Next]_vars
    PROVE  \A v \in Worker : Checked(v)'
<1> SUFFICES ASSUME NEW v \in Worker PROVE Checked(v)'
    OBVIOUS
<1>1. CASE Moves(v)
    BY <1>1, CheckedMover
<1>2. ASSUME NEW w \in Worker \ {v}, Moves(w) PROVE Checked(v)'
    BY <1>2, OneWorkerMoves DEF Others, Checked
<1>3. CASE UNCHANGED <<batch, pc, localVars>>
    BY <1>3 DEF Checked, localVars
<1> QED
    BY <1>1, <1>2, <1>3, StepKinds

-----------------------------------------------------------------------------
(* Rows, committed or not *)

(* What a worker's step does to its open transaction.                      *)
LEMMA OpenSteps ==
    ASSUME Typed, Keyed, NEW w \in Worker, Moves(w)
    PROVE  \/ tx'[w] = {}
           \/ tx'[w] = tx[w] /\ plan'[w] = plan[w]
           \/ InsertRecord(w) \/ ApplyUpdate(w)
<1> USE DEF Typed, TypeOK
<1>0. tx[w] = {} \/ InTransaction(w)
    BY DEF Keyed, OwnWrites
<1>1. ASSUME EndRequest(w) PROVE tx'[w] = {}
    BY <1>1 DEF EndRequest
<1>2. CASE FindBatch(w) \/ ClaimSelection(w) \/ SelectCalls(w) \/ BeginExecution(w)
           \/ \E m \in Message : Deliver(w, m)
    BY <1>2, <1>0 DEF Deliver, FindBatch, ClaimSelection, SelectCalls, BeginExecution,
                      InTransaction
<1>3. CASE AcceptCalls(w)
    BY <1>3, <1>0, <1>1 DEF AcceptCalls, Raise, InTransaction
<1>4. CASE LoadPending(w) \/ DropExpired(w) \/ SelectionFails(w) \/ StatementBlocks(w)
           \/ RowFreed(w) \/ ReuseRecord(w) \/ UpdateMisses(w) \/ Commit(w)
    BY <1>4 DEF LoadPending, DropExpired, SelectionFails, StatementBlocks, RowFreed,
                ReuseRecord, UpdateMisses, Commit, localVars
<1>5. CASE SaveClarification(w) \/ RejectRequest(w) \/ SaveMissingTarget(w)
           \/ ReadLedger(w) \/ ClearPending(w) \/ CompleteBatch(w) \/ SendReply(w)
    BY <1>5 DEF SaveClarification, RejectRequest, SaveMissingTarget, ReadLedger,
                ClearPending, CompleteBatch, SendReply, localVars
<1>6. CASE ClaimTaken(w) \/ InsertLost(w) \/ UpdateRefused(w) \/ Acknowledge(w)
           \/ Fail(w)
    BY <1>6, <1>1 DEF ClaimTaken, InsertLost, UpdateRefused, Acknowledge, Fail, Raise
<1> QED
    BY <1>2, <1>3, <1>4, <1>5, <1>6 DEF Moves, WorkerStep

(* A worker keeps the row its update statement has chosen while it waits,  *)
(* among the rows the statement sees, of which there are only ever more.   *)
LEMMA GoalSteps ==
    ASSUME Typed, [Next]_vars, NEW v \in Worker
    PROVE  \/ goal'[v] = NoTransaction
           \/ goal'[v] = goal[v] /\ Visible(v) \subseteq Visible(v)'
           \/ goal'[v] \in Choices(v) /\ Visible(v)' = Visible(v)
<1> USE DEF Typed, TypeOK
<1>0. ledger \subseteq ledger'
    BY LedgerSteps
<1>1. ASSUME goal'[v] = goal[v], tx'[v] = tx[v]
      PROVE  goal'[v] = goal[v] /\ Visible(v) \subseteq Visible(v)'
    BY <1>0, <1>1 DEF Visible
<1>2. ASSUME EndRequest(v) PROVE goal'[v] = NoTransaction
    BY <1>2 DEF EndRequest
<1>3. ASSUME NEW w \in Worker \ {v}, Moves(w) PROVE goal'[v] = goal[v]
  <2>1. CASE InsertRecord(w) \/ ApplyUpdate(w)
    <3>1. PICK i, e, label : Buffer(w, i, e, label)
        BY <2>1 DEF InsertRecord, ApplyUpdate
    <3> QED
        BY <3>1 DEF Buffer
  <2>2. ASSUME EndRequest(w) PROVE goal'[v] = goal[v]
      BY <2>2 DEF EndRequest
  <2>3. CASE StatementBlocks(w) \/ UpdateMisses(w)
      BY <2>3 DEF StatementBlocks, UpdateMisses
  <2>4. CASE ClaimTaken(w) \/ AcceptCalls(w) \/ InsertLost(w) \/ UpdateRefused(w)
             \/ Acknowledge(w) \/ Fail(w)
      BY <2>2, <2>4 DEF ClaimTaken, AcceptCalls, InsertLost, UpdateRefused, Acknowledge,
                        Fail, Raise
  <2> QED
      BY <1>3, <2>1, <2>3, <2>4 DEF Moves, WorkerStep, Deliver, FindBatch,
         ClaimSelection, LoadPending, DropExpired, SelectCalls, SelectionFails,
         BeginExecution, SaveClarification, RejectRequest, RowFreed, ReuseRecord, Commit,
         SaveMissingTarget, ReadLedger, ClearPending, CompleteBatch, SendReply, localVars
<1>4. ASSUME Moves(v)
      PROVE  \/ goal'[v] = NoTransaction
             \/ goal'[v] = goal[v] /\ tx'[v] = tx[v]
             \/ Commit(v) \/ StatementBlocks(v)
  <2>1. CASE InsertRecord(v) \/ ApplyUpdate(v)
    <3>1. PICK i, e, label : Buffer(v, i, e, label)
        BY <2>1 DEF InsertRecord, ApplyUpdate
    <3> QED
        BY <3>1 DEF Buffer
  <2>2. CASE UpdateMisses(v)
      BY <2>2 DEF UpdateMisses
  <2>3. CASE ClaimTaken(v) \/ AcceptCalls(v) \/ InsertLost(v) \/ UpdateRefused(v)
             \/ Acknowledge(v) \/ Fail(v)
      BY <1>2, <2>3 DEF ClaimTaken, AcceptCalls, InsertLost, UpdateRefused, Acknowledge,
                        Fail, Raise
  <2> QED
      BY <1>4, <2>1, <2>2, <2>3 DEF Moves, WorkerStep, Deliver, FindBatch,
         ClaimSelection, LoadPending, DropExpired, SelectCalls, SelectionFails,
         BeginExecution, SaveClarification, RejectRequest, RowFreed, ReuseRecord,
         SaveMissingTarget, ReadLedger, ClearPending, CompleteBatch, SendReply, localVars
<1>5. CASE Commit(v)
    BY <1>5 DEF Commit, Visible
<1>6. CASE StatementBlocks(v)
    BY <1>1, <1>6 DEF StatementBlocks, Visible, dbVars
<1>7. ASSUME NEW w \in Worker \ {v}, Moves(w) PROVE tx'[v] = tx[v]
    BY <1>7, OneWorkerMoves DEF Others
<1>8. CASE UNCHANGED <<batch, pc, localVars>>
    BY <1>1, <1>8 DEF localVars
<1> QED
    BY <1>1, <1>3, <1>4, <1>5, <1>6, <1>7, <1>8, StepKinds

LEMMA ChoiceSeen ==
    ASSUME NEW w \in Worker, NEW r \in Choices(w), r # NoTransaction
    PROVE  Seen(w, r)
BY DEF Choices, Latest, Seen

LEMMA GoalSeen ==
    ASSUME Typed, [Next]_vars, NEW v \in Worker, OpenRows(v), goal'[v] # NoTransaction
    PROVE  Seen(v, goal[v])'
<1>1. CASE goal'[v] = goal[v] /\ Visible(v) \subseteq Visible(v)'
    BY <1>1 DEF OpenRows, Seen
<1>2. CASE goal'[v] \in Choices(v) /\ Visible(v)' = Visible(v)
  <2>1. Seen(v, goal'[v])
      BY <1>2, ChoiceSeen
  <2> QED
      BY <1>2, <2>1 DEF Seen
<1> QED
    BY <1>1, <1>2, GoalSteps

(* A statement adds a row its call asks for; an update names a row it saw. *)
LEMMA OpenMover ==
    ASSUME Typed, Keyed, [Next]_vars, NEW w \in Worker, OpenRows(w), Moves(w)
    PROVE  OpenRows(w)'
<1> USE DEF Typed, TypeOK
<1>0. goal'[w] # NoTransaction => Seen(w, goal[w])'
    BY GoalSeen
<1>1. CASE tx'[w] = {}
    BY <1>0, <1>1 DEF OpenRows
<1>2. CASE tx'[w] = tx[w] /\ plan'[w] = plan[w]
  <2>1. Visible(w) \subseteq Visible(w)'
      BY <1>2, LedgerSteps DEF Visible
  <2> QED
      BY <1>0, <1>2, <2>1 DEF OpenRows, Seen
<1>3. ASSUME NEW i \in WriteIndexes(plan[w]), NEW e, NEW label, e.call[2] = i,
             e.kind = "created" <=> plan[w][i] = "record",
             e.kind = "updated" => Seen(w, e.on),
             Buffer(w, i, e, label)
      PROVE  OpenRows(w)'
  <2>1. tx'[w] = tx[w] \cup {e} /\ plan'[w] = plan[w] /\ ledger' = ledger
      BY <1>3 DEF Buffer, dbVars
  <2>2. Visible(w) \subseteq Visible(w)'
      BY <2>1 DEF Visible
  <2>3. Asks(plan[w], e)
      BY <1>3 DEF Asks
  <2> QED
      BY <1>0, <1>3, <2>1, <2>2, <2>3 DEF OpenRows, Seen
<1>4. CASE InsertRecord(w)
  <2>1. PICK i \in WriteIndexes(plan[w]) :
          plan[w][i] = "record"
          /\ Buffer(w, i, [kind |-> "created", call |-> <<job[w], i>>,
                           at |-> stamp[w], on |-> <<job[w], i>>], "write")
      BY <1>4 DEF InsertRecord
  <2> DEFINE row == [kind |-> "created", call |-> <<job[w], i>>,
                     at |-> stamp[w], on |-> <<job[w], i>>]
  <2>2. row.kind = "created" /\ row.call[2] = i /\ Buffer(w, i, row, "write")
      BY <2>1
  <2> HIDE DEF row
  <2> QED
      BY <2>1, <2>2, <1>3
<1>5. CASE ApplyUpdate(w)
  <2>1. PICK i \in WriteIndexes(plan[w]), r \in Chosen(w) \ {NoTransaction} :
          plan[w][i] = "update"
          /\ Buffer(w, i, [kind |-> "updated", call |-> <<job[w], i>>,
                           at |-> stamp[w], on |-> r],
                    IF RowLocked(w, r) THEN "locked" ELSE "write")
      BY <1>5 DEF ApplyUpdate
  <2> DEFINE row == [kind |-> "updated", call |-> <<job[w], i>>,
                     at |-> stamp[w], on |-> r]
             label == IF RowLocked(w, r) THEN "locked" ELSE "write"
  <2>2. /\ row.kind = "updated" /\ row.call[2] = i /\ row.on = r
        /\ Buffer(w, i, row, label)
      BY <2>1
  <2>3. Seen(w, r)
      BY ChoiceSeen DEF Chosen, OpenRows
  <2> HIDE DEF row, label
  <2> QED
      BY <2>1, <2>2, <2>3, <1>3
<1> QED
    BY <1>1, <1>2, <1>4, <1>5, OpenSteps

LEMMA RowsInit == Init => Rows /\ \A w \in Worker : Checked(w)
BY DEF Init, Rows, BatchRows, LegacyRows, UpdatesHitRows, OpenRows, Checked, Executing

LEMMA RowsStep ==
    ASSUME IInv, Rows, \A w \in Worker : Checked(w), [Next]_vars
    PROVE  Rows'
<1> USE DEF IInv
<1>0. ledger \subseteq ledger'
    BY LedgerSteps
<1>1. ASSUME NEW v \in Worker PROVE OpenRows(v)'
  <2>1. OpenRows(v)
      BY DEF Rows
  <2>2. CASE Moves(v)
      BY <1>0, <2>1, <2>2, OpenMover
  <2>3. CASE tx'[v] = tx[v] /\ plan'[v] = plan[v]
    <3>1. Visible(v) \subseteq Visible(v)'
        BY <1>0, <2>3 DEF Visible
    <3>2. goal'[v] # NoTransaction => Seen(v, goal[v])'
        BY <2>1, GoalSeen
    <3> QED
        BY <2>1, <2>3, <3>1, <3>2 DEF OpenRows, Seen
  <2>4. ASSUME NEW w \in Worker \ {v}, Moves(w) PROVE OpenRows(v)'
      BY <2>3, <2>4, OneWorkerMoves DEF Others
  <2>5. CASE UNCHANGED <<batch, pc, localVars>>
      BY <2>3, <2>5 DEF localVars
  <2> QED
      BY <2>2, <2>4, <2>5, StepKinds
<1>2. ASSUME NEW e \in ledger, e.call[2] > 0
      PROVE  Valid(batch'[e.call[1]].calls) /\ Asks(batch'[e.call[1]].calls, e)
  <2>1. e.call[1] \in Message /\ batch[e.call[1]].calls # <<>>
      BY <1>2 DEF Durable, Settled, Typed, TypeOK, Write, CallId
  <2>2. batch'[e.call[1]].calls = batch[e.call[1]].calls
      BY <2>1, CallsStep
  <2> QED
      BY <1>2, <2>2 DEF Rows, BatchRows
<1>3. ASSUME NEW w \in Worker, Commit(w), NEW e \in tx[w]
      PROVE  /\ e.call[2] > 0 /\ Valid(batch'[e.call[1]].calls)
             /\ Asks(batch'[e.call[1]].calls, e)
  <2>1. pc[w] = "write" /\ Persisted(w) /\ Valid(plan[w])
      BY <1>3 DEF Commit, Bound, ExecutesPersisted, Executing, Checked
  <2>2. job[w] \in Message /\ e.call[1] = job[w] /\ e.call[2] > 0
      BY <2>1 DEF Keyed, OwnWrites, Typed, BusyHasJob
  <2>3. batch'[job[w]].calls = plan[w]
      BY <2>1, <2>2, CallsStep DEF Persisted
  <2>4. Asks(plan[w], e)
      BY DEF Rows, OpenRows
  <2> QED
      BY <2>1, <2>2, <2>3, <2>4
<1>4. ASSUME NEW m \in Legacy, NEW e, e.call = <<m, 0>>
      PROVE  ~(e.call[2] > 0) /\ e.call[1] \in Legacy
    BY <1>4
<1>5. BatchRows'
    BY <1>2, <1>3, <1>4, LedgerSteps DEF BatchRows
<1>6. LegacyRows'
  <2>1. ASSUME NEW w \in Worker, Commit(w), NEW e \in tx[w] PROVE e.call[2] # 0
    <3>1. e.call[2] > 0 /\ e.call[2] \in Nat
        BY <1>3, <2>1 DEF Typed, TypeOK, Write, CallId
    <3> QED
        BY <3>1
  <2> QED
      BY <1>4, <2>1, LedgerSteps DEF Rows, LegacyRows
<1>7. UpdatesHitRows'
  <2>1. ASSUME NEW w \in Worker, NEW e \in tx[w], e.kind = "updated",
               ledger' = ledger \cup tx[w]
        PROVE  \E d \in ledger' : d.kind = "created" /\ d.call = e.on
      BY <2>1 DEF Rows, OpenRows, Seen, Visible
  <2>2. ASSUME NEW e \in ledger, e.kind = "updated"
        PROVE  \E d \in ledger' : d.kind = "created" /\ d.call = e.on
      BY <1>0, <2>2 DEF Rows, UpdatesHitRows
  <2>3. ASSUME NEW m \in Legacy, NEW e \in ledger', e.call = <<m, 0>>
        PROVE  e.kind # "updated"
    <3>1. LegacyCreates'
        BY KeyedStep DEF Keyed
    <3>2. e.call[2] = 0
        BY <2>3
    <3> QED
        BY <3>1, <3>2 DEF LegacyCreates
  <2> QED
      BY <2>1, <2>2, <2>3, LedgerSteps DEF UpdatesHitRows
<1> QED
    BY <1>1, <1>5, <1>6, <1>7 DEF Rows

-----------------------------------------------------------------------------
(* What stands behind a reply stays there *)

(* A pending request that goes away is recorded as retired.                *)
LEMMA AskedStep ==
    ASSUME Typed, [Next]_vars, NEW m \in Message, Asked(m)
    PROVE  Asked(m)'
<1>1. CASE UNCHANGED <<pending, retired>>
    BY <1>1 DEF Asked
<1>2. CASE RemovePending
    BY <1>2 DEF RemovePending, Asked
<1>3. ASSUME NEW k, SavePending(k) PROVE Asked(m)'
  <2>1. CASE k = m
    <3> DEFINE row == [by |-> k, fresh |-> TRUE]
    <3>1. row \in pending' /\ row.by = m
        BY <1>3, <2>1 DEF SavePending
    <3> QED
        BY <3>1 DEF Asked
  <2>2. CASE k # m
      BY <1>3, <2>2 DEF SavePending, Asked
  <2> QED
      BY <2>1, <2>2
<1>4. CASE ExpirePending
  <2>1. CASE m \in retired
      BY <1>4, <2>1 DEF ExpirePending, Asked
  <2>2. ASSUME NEW p \in pending, p.by = m PROVE Asked(m)'
    <3>1. p \in [by : Message, fresh : BOOLEAN]
        BY DEF Typed, TypeOK
    <3>2. [p EXCEPT !.fresh = FALSE] \in pending'
        BY <1>4 DEF ExpirePending
    <3>3. [p EXCEPT !.fresh = FALSE].by = m
        BY <2>2, <3>1
    <3> QED
        BY <3>2, <3>3 DEF Asked
  <2> QED
      BY <2>1, <2>2 DEF Asked
<1>5. ASSUME NEW w \in Worker, WorkerStep(w) \/ Fail(w)
      PROVE  \/ UNCHANGED <<pending, retired>> \/ RemovePending
             \/ SavePending(job[w])
    BY <1>5 DEF WorkerStep, FindBatch, ClaimSelection, ClaimTaken, LoadPending,
       DropExpired, SelectCalls, SelectionFails, AcceptCalls, BeginExecution,
       SaveClarification, RejectRequest, StatementBlocks, InsertRecord, ReuseRecord,
       InsertLost, ApplyUpdate, RowFreed, UpdateMisses, UpdateRefused, Commit,
       SaveMissingTarget, ReadLedger, ClearPending, CompleteBatch, SendReply,
       Acknowledge, Fail, Raise, Buffer, dbVars
<1>6. ASSUME NEW w \in Worker, NEW k \in Message, Deliver(w, k)
      PROVE  UNCHANGED <<pending, retired>>
    BY <1>6 DEF Deliver, dbVars
<1>7. ASSUME NEW k \in Message, LegacyAppend(k) PROVE UNCHANGED <<pending, retired>>
    BY <1>7 DEF LegacyAppend
<1>8. CASE UNCHANGED vars
    BY <1>8, <1>1 DEF vars
<1> QED
    BY <1>1, <1>2, <1>3, <1>4, <1>5, <1>6, <1>7, <1>8, ConstantsAssumption DEF Next

(* A message that can never be written stays so: its row is not claimed    *)
(* again, and its calls do not become legal.                               *)
LEMMA DoomedStep ==
    ASSUME Typed, Bound, Claimed, [Next]_vars, NEW m \in Message, Doomed(m)
    PROVE  Doomed(m)'
<1>1. CASE Refused(m)
    BY <1>1, CallsStep DEF Refused, Doomed
<1>2. CASE Abandoned(m)
  <2>1. ASSUME NEW w \in Worker, job[w] \in Message,
               ClaimSelection(w) \/ AcceptCalls(w) \/ Commit(w) \/ CompleteBatch(w)
        PROVE  batch'[m] = batch[m]
    <3>1. job[w] = m => pc[w] # "accept"
        BY <1>2 DEF Abandoned, Holds, Claiming
    <3> QED
        BY <1>2, <2>1, <3>1, BatchWrites DEF Abandoned
  <2>2. batch'[m] = batch[m]
      BY <2>1, BatchSteps DEF BatchKept
  <2>3. ASSUME NEW v \in Worker, pc'[v] \in Claiming PROVE job'[v] # m
      BY <1>2, <2>3, HolderSteps DEF Abandoned, Holds
  <2> QED
      BY <1>2, <2>2, <2>3 DEF Abandoned, Holds, Doomed
<1> QED
    BY <1>1, <1>2 DEF Doomed

(* Calls that pass validation are never written off.                       *)
LEMMA LegalNotDoomed ==
    ASSUME Bound, NEW m \in Message, batch[m].calls # <<>>, Valid(batch[m].calls)
    PROVE  ~Doomed(m)
BY DEF Bound, CallsOnceAccepted, Doomed, Abandoned, Refused

(* What is decided about a message is decided for good.                    *)
LEMMA OutcomeStep ==
    ASSUME Typed, Bound, Claimed, [Next]_vars, NEW m \in Message, Decided(m)
    PROVE  Decided(m)' /\ Outcome(m)' = Outcome(m)
<1>1. CASE Doomed(m)
    BY <1>1, DoomedStep DEF Decided, Outcome
<1>2. CASE ~Doomed(m)
  <2>1. batch[m].calls # <<>> /\ Valid(batch[m].calls)
      BY <1>2 DEF Decided, Doomed, Refused
  <2>2. batch'[m].calls = batch[m].calls
      BY <2>1, CallsStep
  <2>3. Bound'
      BY BoundStep
  <2>4. ~Doomed(m)'
      BY <2>1, <2>2, <2>3 DEF Bound, CallsOnceAccepted, Doomed, Abandoned, Refused
  <2> QED
      BY <1>2, <2>1, <2>2, <2>4 DEF Decided, Outcome
<1> QED
    BY <1>1, <1>2

LEMMA BackedStep ==
    ASSUME Typed, Bound, Claimed, [Next]_vars, NEW m \in Message, NEW r, Backed(m, r)
    PROVE  Backed(m, r)'
<1>1. r.kind = "failed" => Doomed(m)'
    BY DoomedStep DEF Backed
<1>2. r.kind = "legacy" => Recorded(m)'
  <2>1. ledger \subseteq ledger'
      BY LedgerSteps
  <2> QED
      BY <2>1 DEF Backed, Recorded
<1>3. r.kind \in {"clarify", "missing"} => Asked(m)'
    BY AskedStep DEF Backed
<1>4. r.read = "ok" => Saw(m, r)'
    BY CallsStep DEF Backed, Saw, RecordCalls
<1>5. Plain /\ m \notin Legacy =>
          r.kind = "none" \/ (Decided(m)' /\ r.kind = Outcome(m)')
    BY OutcomeStep DEF Backed
<1> QED
    BY <1>1, <1>2, <1>3, <1>4, <1>5 DEF Backed

LEMMA DeliveredStep ==
    ASSUME Typed, Bound, Claimed, [Next]_vars, NEW m \in Message, NEW r, Delivered(m, r)
    PROVE  Delivered(m, r)'
BY BackedStep, ReplyStep DEF Delivered

-----------------------------------------------------------------------------
(* The replies the code makes *)

LEMMA FailureBacked ==
    ASSUME NEW m, Doomed(m)
    PROVE  Delivered(m, Says("failed"))
BY DEF Delivered, Backed, Says, Reply, Decided, Outcome, Spoken

LEMMA LegacyBacked ==
    ASSUME NEW m, LegacyCreates, LegacyRows, LegacyRow(m)
    PROVE  Delivered(m, Says("legacy"))
<1>1. PICK e \in ledger : e.call = <<m, 0>>
    BY DEF LegacyRow
<1>2. e.kind = "created" /\ e.call[1] = m /\ m \in Legacy
    BY <1>1 DEF LegacyCreates, LegacyRows
<1> QED
    BY <1>2 DEF Delivered, Backed, Says, Reply, Recorded, Spoken

(* A batch with a control call that passed validation is that call.        *)
LEMMA ControlAlone ==
    ASSUME NEW calls \in Calls, Valid(calls), Has(calls, "reject")
    PROVE  ~Has(calls, "clarify")
<1>1. calls \in Seq(Call) /\ Len(calls) = 1
    BY CallIndexes DEF Valid, IsControl
<1>2. DOMAIN calls = 1 .. 1
    BY <1>1
<1> QED
    BY <1>2 DEF Has

(* From "begin" on a worker speaks of calls that are persisted and legal,  *)
(* before and after any step.                                              *)
LEMMA ExecutedCalls ==
    ASSUME Typed, Bound, [Next]_vars, NEW w \in Worker, Checked(w), pc[w] \in Executing
    PROVE  /\ job[w] \in Message /\ plan[w] \in Calls
           /\ batch[job[w]].calls = plan[w] /\ batch'[job[w]].calls = plan[w]
           /\ plan[w] # <<>> /\ Valid(plan[w])
           /\ Has(plan[w], "reject") => ~Has(plan[w], "clarify")
<1>1. job[w] \in Message /\ plan[w] \in Calls
    BY DEF Typed, TypeOK, BusyHasJob, Executing
<1>2. Persisted(w) /\ Valid(plan[w])
    BY DEF Bound, ExecutesPersisted, Checked
<1>3. batch'[job[w]].calls = batch[job[w]].calls
    BY <1>1, <1>2, CallsStep DEF Persisted
<1> QED
    BY <1>1, <1>2, <1>3, ControlAlone DEF Persisted

LEMMA PlainPlans ==
    ASSUME Plain, NEW calls \in Calls, UpdateAccepted
    PROVE  ~Has(calls, "update")
BY DEF Plain, Calls, Has

(* The rows a read finds after the commit hold the records of the batch.   *)
LEMMA ReadSees ==
    ASSUME IInv, Rows, NEW m \in Message, Settled(m), NEW i \in DOMAIN batch[m].calls,
           batch[m].calls[i] = "record"
    PROVE  \E e \in ledger : e.kind = "created" /\ e.call = <<m, i>>
<1>1. i \in WriteIndexes(batch[m].calls)
    BY DEF WriteIndexes
<1>2. batch[m].calls \in Calls
    BY DEF IInv, Typed, TypeOK
<1>3. i \in Nat \ {0}
    BY <1>1, <1>2, CallIndexes
<1>4. PICK e \in ledger : e.call = <<m, i>>
    BY <1>1 DEF Settled, AllWritten
<1>5. e.call[1] = m /\ e.call[2] = i /\ e.call[2] > 0
    BY <1>3, <1>4
<1>6. Asks(batch[m].calls, e)
    BY <1>5 DEF Rows, BatchRows
<1> QED
    BY <1>4, <1>5, <1>6 DEF Asks

(* The mover: every reply it takes up is backed.                           *)
LEMMA InHandMover ==
    ASSUME ReplyInv, [Next]_vars, NEW w \in Worker, Moves(w)
    PROVE  InHand(w)'
<1> USE DEF ReplyInv, IInv
<1>0. Typed' /\ Bound' /\ Keyed' /\ Rows' /\ Claimed'
    BY TypedStep, BoundStep, KeyedStep, RowsStep, ClaimedStep
<1>1. InHand(w) /\ (pc[w] # "idle" => job[w] \in Message /\ Stored(job[w]))
    BY DEF Answered, Typed, BusyHasJob
<1>2. ASSUME pc'[w] \notin {"clear", "complete", "send", "ack"} PROVE InHand(w)'
    BY <1>2 DEF InHand
<1>3. ASSUME pc'[w] \in {"send", "ack"}, job'[w] = job[w], pc[w] # "idle",
             Delivered(job[w], answer'[w])
      PROVE  InHand(w)'
  <2>1. \A m \in Message : \A r :
            m = job[w] /\ r = answer'[w] => Delivered(m, r)'
      BY <1>3, DeliveredStep
  <2> QED
      BY <1>1, <1>3, <2>1 DEF InHand
<1>4. ASSUME pc'[w] = "send", job'[w] = job[w], pc[w] # "idle",
             \/ batch[job[w]].status = "completed" /\ answer'[w] = batch[job[w]].reply
             \/ LegacyRow(job[w]) /\ answer'[w] = Says("legacy")
             \/ Refused(job[w]) /\ answer'[w] = Says("failed")
      PROVE  InHand(w)'
  <2>1. Delivered(job[w], answer'[w])
      BY <1>1, <1>4, LegacyBacked, FailureBacked
      DEF Stored, Delivered, Keyed, Rows, Doomed, Spoken
  <2> QED
      BY <1>3, <1>4, <2>1
<1>5. ASSUME pc'[w] = "send", job'[w] = job[w], Doomed(job[w])',
             answer'[w] = Says("failed")
      PROVE  InHand(w)'
  <2>1. Delivered(job[w], Says("failed"))'
      <3>1. \A m : Doomed(m)' => Delivered(m, Says("failed"))'
          BY FailureBacked DEF Delivered, Backed, Says, Reply, Decided, Outcome, Spoken
      <3> QED
          BY <1>5, <3>1
  <2> QED
      BY <1>5, <2>1 DEF InHand
<1>6. ASSUME EndRequest(w) PROVE InHand(w)'
    BY <1>2, <1>6 DEF EndRequest, Goto, Typed, TypeOK
<1>7. ASSUME NEW r, pc[w] \in Executing, pc'[w] \in {"clear", "complete"},
             job'[w] = job[w], answer'[w] = r, r.kind \in Spoken,
             r.kind \in {"clarify", "missing"} => Asked(job[w])',
             r.read = "ok" =>
                 {<<job[w], i>> : i \in {j \in DOMAIN plan[w] : plan[w][j] = "record"}}
                     \subseteq r.rows,
             Plain => /\ r.kind = "clarify" <=> Has(plan[w], "clarify")
                      /\ r.kind = "reject" <=> Has(plan[w], "reject")
                      /\ r.kind # "missing"
      PROVE  InHand(w)'
  <2> DEFINE m == job[w]
  <2>1. /\ m \in Message /\ batch'[m].calls = plan[w] /\ plan[w] # <<>>
        /\ Valid(plan[w])
        /\ Has(plan[w], "reject") => ~Has(plan[w], "clarify")
      BY <1>7, ExecutedCalls
  <2> HIDE DEF m
  <2>2. \A k \in Message : batch'[k].calls # <<>> /\ Valid(batch'[k].calls) => ~Doomed(k)'
      BY <1>0 DEF Bound, CallsOnceAccepted, Doomed, Abandoned, Refused
  <2>3. ASSUME NEW k \in Message, k = m PROVE Backed(k, r)'
    <3>1. ~Doomed(k)'
        BY <2>1, <2>2, <2>3
    <3>2. Plain => r.kind = Outcome(k)'
        BY <1>7, <2>1, <2>3, <3>1 DEF Outcome, Spoken
    <3>3. r.kind \in {"clarify", "missing"} => Asked(k)'
        BY <1>7, <2>3 DEF m
    <3>4. r.read = "ok" => Saw(k, r)'
        BY <1>7, <2>1, <2>3 DEF Saw, RecordCalls, m
    <3> QED
        BY <1>7, <2>1, <2>3, <3>2, <3>3, <3>4 DEF Backed, Decided, Spoken
  <2>4. \A k \in Message : \A q : k = job'[w] /\ q = r => Backed(k, q)'
      BY <1>7, <2>3 DEF m
  <2> QED
      BY <1>7, <2>1, <2>4 DEF InHand, m
<1>8. \A i \in WriteIndexes(plan[w]) : i \in DOMAIN plan[w]
    BY DEF WriteIndexes
<1> USE DEF Typed, TypeOK
<1>9. CASE FindBatch(w)
  <2>1. pc[w] = "find" /\ job' = job
      BY <1>9 DEF FindBatch
  <2>2. \/ /\ pc'[w] = "send" /\ batch[job[w]].status = "completed"
           /\ answer'[w] = batch[job[w]].reply
        \/ pc'[w] = "send" /\ LegacyRow(job[w]) /\ answer'[w] = Says("legacy")
        \/ pc'[w] = "send" /\ Refused(job[w]) /\ answer'[w] = Says("failed")
        \/ pc'[w] \in {"begin", "claim"}
      BY <1>9, <1>1 DEF FindBatch, StartExecutor, Return, Goto, Refused
  <2> QED
      BY <2>1, <2>2, <1>2, <1>4
<1>10. CASE ClaimSelection(w)
  <2>1. pc[w] = "claim" /\ job' = job
      BY <1>10 DEF ClaimSelection
  <2>2. \/ /\ pc'[w] = "send" /\ batch[job[w]].status = "completed"
           /\ answer'[w] = batch[job[w]].reply
        \/ pc'[w] = "send" /\ LegacyRow(job[w]) /\ answer'[w] = Says("legacy")
        \/ pc'[w] = "send" /\ Refused(job[w]) /\ answer'[w] = Says("failed")
        \/ pc'[w] \in {"begin", "load"}
      BY <1>10, <1>1 DEF ClaimSelection, LegacyFound, StartExecutor, Return, Goto,
                         Refused, Bound, CallsOnceAccepted
  <2> QED
      BY <2>1, <2>2, <1>2, <1>4
<1>11. CASE LoadPending(w) \/ DropExpired(w) \/ SelectCalls(w) \/ StatementBlocks(w)
            \/ RowFreed(w) \/ ReuseRecord(w) \/ UpdateMisses(w)
            \/ \E m \in Message : Deliver(w, m)
    BY <1>11, <1>2 DEF Deliver, LoadPending, DropExpired, SelectCalls, StatementBlocks,
                       RowFreed, ReuseRecord, UpdateMisses, Goto
<1>12. CASE InsertRecord(w) \/ ApplyUpdate(w)
  <2>1. PICK label \in {"write", "locked"} : \E i, e : Buffer(w, i, e, label)
      BY <1>12 DEF InsertRecord, ApplyUpdate
  <2> QED
      BY <2>1, <1>2 DEF Buffer, Goto
<1>13. CASE SelectionFails(w)
  <2>1. /\ pc[w] = "select" /\ pc'[w] = "send" /\ job' = job /\ batch' = batch
        /\ answer'[w] = Says("failed") /\ job[w] \in Message
      BY <1>13, <1>1 DEF SelectionFails, Return, Goto, dbVars
  <2>2. batch[job[w]].status = "selecting"
      BY <2>1 DEF Claimed, HoldersSelect, Claiming
  <2>3. ASSUME NEW v \in Worker, pc'[v] \in Claiming PROVE job'[v] # job[w]
    <3>1. v # w
        BY <2>1, <2>3 DEF Claiming
    <3>2. pc'[v] = pc[v] /\ job'[v] = job[v]
        BY <3>1, OneWorkerMoves DEF Others
    <3> QED
        BY <2>1, <2>3, <3>1, <3>2 DEF Claimed, OneHolder, Claiming
  <2>4. Doomed(job[w])'
      BY <2>1, <2>2, <2>3 DEF Doomed, Abandoned, Holds
  <2> QED
      BY <2>1, <2>4, <1>5
<1>14. CASE AcceptCalls(w)
  <2>1. CASE ~ClaimHeld(batch[job[w]])
      BY <2>1, <1>14, <1>6 DEF AcceptCalls, Raise
  <2>2. CASE ClaimHeld(batch[job[w]])
    <3>1. /\ pc[w] = "accept" /\ job' = job /\ job[w] \in Message /\ plan[w] # <<>>
          /\ \/ pc'[w] = "begin"
             \/ pc'[w] = "send" /\ answer'[w] = Says("failed") /\ ~Valid(plan[w])
        BY <2>2, <1>14, <1>1 DEF AcceptCalls, StartExecutor, Return, Goto, Bound,
                                 SelectedIsBatch
    <3>2. batch'[job[w]].calls = plan[w]
        BY <2>2, <3>1, <1>14 DEF AcceptCalls, BatchRow
    <3> QED
        BY <3>1, <3>2, <1>2, <1>5 DEF Doomed, Refused
  <2> QED
      BY <2>1, <2>2
<1>15. CASE BeginExecution(w)
  <2>1. pc[w] = "begin" /\ job' = job
      BY <1>15 DEF BeginExecution
  <2>2. \/ /\ pc'[w] = "send" /\ batch[job[w]].status = "completed"
           /\ answer'[w] = batch[job[w]].reply
        \/ pc'[w] = "send" /\ LegacyRow(job[w]) /\ answer'[w] = Says("legacy")
        \/ pc'[w] \in {"control", "write"}
      BY <1>15 DEF BeginExecution, LegacyFound, Return, Goto
  <2> QED
      BY <2>1, <2>2, <1>2, <1>4
<1>17. CASE SaveClarification(w)
  <2>1. /\ pc[w] = "control" /\ pc'[w] = "complete" /\ job' = job
        /\ answer'[w] = Says("clarify") /\ Has(plan[w], "clarify")
        /\ SavePending(job[w])
      BY <1>17 DEF SaveClarification, Goto
  <2>2. [by |-> job[w], fresh |-> TRUE] \in pending'
      BY <2>1 DEF SavePending
  <2>3. Asked(job[w])'
      BY <2>1, <2>2 DEF Asked
  <2>4. Has(plan[w], "reject") => ~Has(plan[w], "clarify")
      BY <2>1, ExecutedCalls DEF Executing
  <2> QED
      BY <2>1, <2>3, <2>4, <1>7 DEF Executing, Spoken, Says, Reply
<1>18. CASE RejectRequest(w)
  <2>1. /\ pc[w] = "control" /\ pc'[w] = "complete" /\ job' = job
        /\ answer'[w] = Says("reject") /\ Has(plan[w], "reject")
      BY <1>18 DEF RejectRequest, Goto
  <2>2. Has(plan[w], "reject") => ~Has(plan[w], "clarify")
      BY <2>1, ExecutedCalls DEF Executing
  <2> QED
      BY <2>1, <2>2, <1>7 DEF Executing, Spoken, Says, Reply
<1>19. CASE SaveMissingTarget(w)
  <2>1. /\ pc[w] = "no_target" /\ pc'[w] = "complete" /\ job' = job
        /\ answer'[w] = Says("missing") /\ SavePending(job[w])
      BY <1>19 DEF SaveMissingTarget, Goto
  <2>2. [by |-> job[w], fresh |-> TRUE] \in pending'
      BY <2>1 DEF SavePending
  <2>3. Asked(job[w])'
      BY <2>1, <2>2 DEF Asked
  <2>4. ~Plain
      BY <2>1, PlainPlans DEF Checked
  <2> QED
      BY <2>1, <2>3, <2>4, <1>7 DEF Executing, Spoken, Says, Reply
<1>20. CASE Commit(w)
  <2>1. pc[w] = "write" /\ job' = job /\ ~IsControl(plan[w])
      BY <1>20 DEF Commit, Checked
  <2>2. \/ pc'[w] = "read"
        \/ pc'[w] = "clear" /\ answer'[w] = Says("done")
      BY <1>20 DEF Commit, Goto
  <2> QED
      BY <2>1, <2>2, <1>2, <1>7 DEF Executing, Spoken, Says, Reply, IsControl
<1>21. CASE ReadLedger(w)
  <2> DEFINE rows == {e.call : e \in {d \in ledger : d.kind = "created"}}
  <2>1. /\ pc[w] = "read" /\ pc'[w] = "clear" /\ job' = job /\ ~IsControl(plan[w])
        /\ \/ answer'[w] = Reply("done", "ok", rows)
           \/ answer'[w] = Reply("done", "failed", {})
      BY <1>21 DEF ReadLedger, Goto, Checked
  <2>2. job[w] \in Message /\ batch[job[w]].calls = plan[w] /\ Settled(job[w])
      BY <2>1, ExecutedCalls DEF Executing, Durable, Assured
  <2>3. ASSUME NEW i \in DOMAIN plan[w], plan[w][i] = "record"
        PROVE  <<job[w], i>> \in rows
    <3>1. \A m \in Message : m = job[w] =>
              \E e \in ledger : e.kind = "created" /\ e.call = <<m, i>>
      <4> SUFFICES ASSUME NEW m \in Message, m = job[w]
                   PROVE  \E e \in ledger : e.kind = "created" /\ e.call = <<m, i>>
          OBVIOUS
      <4>1. /\ Settled(m) /\ i \in DOMAIN batch[m].calls /\ batch[m].calls[i] = "record"
            /\ IInv /\ Rows
          BY <2>2, <2>3
      <4> HIDE DEF IInv, ReplyInv, Typed, TypeOK
      <4> QED
          BY <4>1, ReadSees
    <3> QED
        BY <2>2, <3>1
  <2>4. answer'[w].read = "ok" => answer'[w].rows = rows
      BY <2>1 DEF Reply
  <2>5. answer'[w].kind = "done"
      BY <2>1 DEF Reply
  <2> HIDE DEF rows
  <2>6. answer'[w].read = "ok" =>
            {<<job[w], i>> : i \in {j \in DOMAIN plan[w] : plan[w][j] = "record"}}
                \subseteq answer'[w].rows
      BY <2>3, <2>4
  <2>7. pc[w] \in Executing /\ ~Has(plan[w], "clarify") /\ ~Has(plan[w], "reject")
      BY <2>1 DEF Executing, IsControl
  <2>8. PICK r : r = answer'[w]
      OBVIOUS
  <2> QED
      BY <2>1, <2>5, <2>6, <2>7, <2>8, <1>7 DEF Spoken
<1>22. CASE ClearPending(w)
  <2>1. /\ pc[w] = "clear" /\ pc'[w] = "complete" /\ job' = job /\ answer' = answer
      BY <1>22 DEF ClearPending, Goto, localVars
  <2>2. \A m \in Message : \A r :
            m = job[w] /\ r = answer[w] => Backed(m, r)'
      BY <1>1, <2>1, BackedStep DEF InHand
  <2> QED
      BY <1>1, <2>1, <2>2 DEF InHand
<1>23. CASE CompleteBatch(w)
  <2>1. /\ pc[w] = "complete" /\ pc'[w] = "send" /\ job' = job /\ answer' = answer
        /\ batch' = [batch EXCEPT ![job[w]] = Completed(@, answer[w])]
      BY <1>23 DEF CompleteBatch, Goto, localVars
  <2>2. \A m \in Message : \A r :
            m = job[w] /\ r = answer[w] => Backed(m, r)'
      BY <1>1, <2>1, BackedStep DEF InHand
  <2>3. job[w] \in Message /\ batch[job[w]].status \notin {"none", "selecting"}
      BY <1>1, <2>1, ExecutedCalls DEF Executing, Bound, CallsOnceAccepted
  <2>4. batch'[job[w]].status = "completed"
    <3>1. batch[job[w]].status \in Status
        BY <2>3
    <3>2. CASE batch[job[w]].status \in {"accepted", "writes_committed"}
        BY <2>1, <2>3, <3>2 DEF Completed
    <3>3. CASE batch[job[w]].status = "completed"
        BY <2>1, <2>3, <3>3 DEF Completed
    <3> QED
        BY <2>3, <3>1, <3>2, <3>3 DEF Status
  <2> QED
      BY <1>1, <2>1, <2>2, <2>3, <2>4 DEF InHand, Delivered, Spoken
<1>24. CASE SendReply(w)
  <2>1. /\ pc[w] = "send" /\ pc'[w] = "ack" /\ job' = job /\ answer' = answer
      BY <1>24 DEF SendReply, Goto, localVars
  <2> QED
      BY <1>1, <1>3, <2>1 DEF InHand
<1>25. CASE ClaimTaken(w) \/ InsertLost(w) \/ UpdateRefused(w) \/ Acknowledge(w)
            \/ Fail(w)
    BY <1>25, <1>6 DEF ClaimTaken, InsertLost, UpdateRefused, Acknowledge, Fail, Raise
<1> QED
    BY <1>9, <1>10, <1>11, <1>12, <1>13, <1>14, <1>15, <1>17, <1>18, <1>19, <1>20,
       <1>21, <1>22, <1>23, <1>24, <1>25 DEF Moves, WorkerStep

(* The others: what is in their hands stays backed.                        *)
LEMMA InHandOthers ==
    ASSUME ReplyInv, [Next]_vars, NEW v \in Worker,
           pc'[v] = pc[v], job'[v] = job[v], answer'[v] = answer[v]
    PROVE  InHand(v)'
<1> USE DEF ReplyInv, IInv
<1>1. InHand(v) /\ (pc[v] # "idle" => job[v] \in Message)
    BY DEF Answered, Typed, BusyHasJob
<1>2. \A m \in Message : \A r :
          m = job[v] /\ r = answer[v] =>
              (Backed(m, r) => Backed(m, r)') /\ (Delivered(m, r) => Delivered(m, r)')
    BY BackedStep, DeliveredStep
<1> QED
    BY <1>1, <1>2 DEF InHand

(* A stored reply is the one an execution ended with.                      *)
LEMMA StoredBacked ==
    ASSUME ReplyInv, [Next]_vars, NEW m \in Message
    PROVE  Stored(m)'
<1> USE DEF ReplyInv, IInv
<1>1. Stored(m)
    BY DEF Answered
<1>2. \A r : Backed(m, r) => Backed(m, r)'
    BY BackedStep
<1>3. CASE batch'[m].reply = batch[m].reply
           /\ (batch'[m].status = "completed" <=> batch[m].status = "completed")
    BY <1>1, <1>2, <1>3 DEF Stored
<1>4. ASSUME NEW w \in Worker, job[w] \in Message,
             ClaimSelection(w) \/ AcceptCalls(w) \/ Commit(w) \/ CompleteBatch(w)
      PROVE  Stored(m)'
  <2>1. \/ batch'[m] = batch[m]
        \/ /\ batch'[m].status # "completed" /\ batch[m].status # "completed"
           /\ batch'[m].reply \in {NoReply, batch[m].reply}
        \/ /\ m = job[w] /\ pc[w] = "complete" /\ batch'[m].status = "completed"
           /\ batch'[m].reply = answer[w]
    <3>1. CASE m # job[w]
        BY <1>4, <3>1, BatchWrites
    <3>2. CASE m = job[w]
        BY <1>4, <3>2, BatchWrites DEF ClaimHeld
    <3> QED
        BY <3>1, <3>2
  <2>2. CASE m = job[w] /\ pc[w] = "complete" /\ batch'[m].status = "completed"
             /\ batch'[m].reply = answer[w]
    <3>1. Backed(m, answer[w]) /\ answer[w].kind \in Spoken
        BY <2>2 DEF Answered, InHand
    <3> QED
        BY <2>2, <3>1, <1>2 DEF Stored
  <2>3. CASE batch'[m].status # "completed" /\ batch[m].status # "completed"
             /\ batch'[m].reply \in {NoReply, batch[m].reply}
      BY <2>3, <1>1, <1>3 DEF Stored
  <2> QED
      BY <2>1, <2>2, <2>3, <1>3
<1> QED
    BY <1>3, <1>4, BatchSteps DEF BatchKept

(* A sent reply is what a worker had in hand, or comes from the previous   *)
(* revision, whose row is there.                                           *)
LEMMA SentBacked ==
    ASSUME ReplyInv, [Next]_vars, NEW r \in replies'
    PROVE  Delivered(r[1], r[2])'
<1> USE DEF ReplyInv, IInv
<1>1. ASSUME NEW q \in replies PROVE Delivered(q[1], q[2])'
  <2>1. q[1] \in Message /\ Delivered(q[1], q[2])
      BY DEF Answered, Typed, TypeOK
  <2> QED
      BY <2>1, DeliveredStep
<1>2. ASSUME NEW w \in Worker, pc[w] = "send", r = <<job[w], answer[w]>>
      PROVE  Delivered(r[1], r[2])'
  <2>1. job[w] \in Message /\ Delivered(job[w], answer[w])
      BY <1>2 DEF Answered, InHand, Typed, BusyHasJob
  <2>2. \A m \in Message : \A a :
            m = job[w] /\ a = answer[w] => Delivered(m, a)'
      BY <2>1, DeliveredStep
  <2>3. r[1] = job[w] /\ r[2] = answer[w]
      BY <1>2
  <2> QED
      BY <2>1, <2>2, <2>3
<1>3. ASSUME NEW w \in Worker, r \notin replies, WorkerStep(w) \/ Fail(w)
      PROVE  pc[w] = "send" /\ r = <<job[w], answer[w]>>
    BY <1>3 DEF WorkerStep, FindBatch, ClaimSelection, ClaimTaken, LoadPending,
       DropExpired, SelectCalls, SelectionFails, AcceptCalls, BeginExecution,
       SaveClarification, RejectRequest, StatementBlocks, InsertRecord, ReuseRecord,
       InsertLost, ApplyUpdate, RowFreed, UpdateMisses, UpdateRefused, Commit,
       SaveMissingTarget, ReadLedger, ClearPending, CompleteBatch, SendReply,
       Acknowledge, Fail, Raise, Buffer, outVars
<1>4. ASSUME NEW m \in Legacy, LegacyAppend(m), r = <<m, Says("legacy")>>
      PROVE  Delivered(r[1], r[2])'
  <2> DEFINE row == [kind |-> "created", call |-> <<m, 0>>, at |-> clock + 1,
                     on |-> <<m, 0>>]
  <2>1. row.kind = "created" /\ row.call[1] = m
      OBVIOUS
  <2>2. ledger' = ledger \cup {row} \/ \E e \in ledger' : e.kind = "created" /\ e.call[1] = m
      BY <1>4 DEF LegacyAppend
  <2> HIDE DEF row
  <2>3. Recorded(m)'
      BY <2>1, <2>2 DEF Recorded
  <2>4. r[1] = m /\ r[2].kind = "legacy" /\ r[2].read = "none"
      BY <1>4 DEF Says, Reply
  <2> QED
      BY <2>3, <2>4 DEF Delivered, Backed, Spoken
<1>5. ASSUME NEW m \in Legacy, LegacyAppend(m), r \notin replies
      PROVE  r = <<m, Says("legacy")>>
    BY <1>5 DEF LegacyAppend
<1>6. ASSUME NEW w \in Worker, NEW m \in Message, Deliver(w, m) PROVE r \in replies
    BY <1>6 DEF Deliver, outVars
<1>7. CASE ExpirePending \/ UNCHANGED vars
    BY <1>1, <1>7 DEF ExpirePending, outVars, vars
<1>8. CASE r \in replies
    BY <1>1, <1>8
<1>9. CASE r \notin replies
  <2> HIDE DEF ReplyInv, IInv
  <2> QED
      BY <1>2, <1>3, <1>4, <1>5, <1>6, <1>7, <1>9, ConstantsAssumption DEF Next
<1> QED
    BY <1>8, <1>9

LEMMA ReplyInvInit == Init => ReplyInv
<1> SUFFICES ASSUME Init PROVE ReplyInv
    OBVIOUS
<1>1. Answered
    BY DEF Init, Answered, Stored, InHand, Backed, NoBatch, BatchRow, NoReply, Reply
<1> QED
    BY <1>1, IInvInit, ClaimedInit, RowsInit DEF ReplyInv

LEMMA ReplyInvStep == ReplyInv /\ [Next]_vars => ReplyInv'
<1> SUFFICES ASSUME ReplyInv, [Next]_vars PROVE ReplyInv'
    OBVIOUS
<1>1. IInv' /\ Claimed' /\ (\A w \in Worker : Checked(w)') /\ Rows'
    BY IInvStep, ClaimedStep, CheckedStep, RowsStep DEF ReplyInv, IInv
<1>2. ASSUME NEW v \in Worker PROVE InHand(v)'
  <2>1. CASE Moves(v)
      BY <2>1, InHandMover
  <2>2. ASSUME NEW w \in Worker \ {v}, Moves(w) PROVE InHand(v)'
    <3>1. Others(w)
        BY <2>2, OneWorkerMoves DEF ReplyInv, IInv
    <3> QED
        BY <3>1, InHandOthers DEF Others
  <2>3. CASE UNCHANGED <<batch, pc, localVars>>
      BY <2>3, InHandOthers DEF localVars
  <2> QED
      BY <2>1, <2>2, <2>3, StepKinds
<1>3. Answered'
    BY <1>2, StoredBacked, SentBacked DEF Answered
<1> QED
    BY <1>1, <1>3 DEF ReplyInv

LEMMA AlwaysReplyInv == Spec => []ReplyInv
BY ReplyInvInit, ReplyInvStep, PTL DEF Spec

-----------------------------------------------------------------------------
(* A user who was told that processing failed has nothing in the ledger    *)
(* from the batch path, and no concurrent or later delivery puts it there: *)
(* the claim was given up with the message still 'selecting', or the       *)
(* accepted calls are ones the executor refuses every time.                *)
THEOREM FailureIsFinal == Spec => []FailureMeansNoWrites
<1>1. ReplyInv => FailureMeansNoWrites
  <2> SUFFICES ASSUME ReplyInv, NEW m \in Message, Told(m, "failed"),
                      NEW e \in WritesOf(m)
               PROVE  FALSE
      BY DEF FailureMeansNoWrites
  <2>1. Doomed(m)
      BY DEF Told, ReplyInv, Answered, Delivered, Backed
  <2>2. batch[m].calls # <<>> /\ Valid(batch[m].calls)
      BY DEF WritesOf, ReplyInv, IInv, Durable, Settled, Rows, BatchRows
  <2> QED
      BY <2>1, <2>2, LegalNotDoomed DEF ReplyInv, IInv
<1> QED
    BY <1>1, AlwaysReplyInv, PTL

(* A user asked for a detail or a target has an open pending request,      *)
(* unless a later step of any message removed or replaced it.              *)
THEOREM QuestionIsPending == Spec => []AskedMeansPending
<1>1. ReplyInv => AskedMeansPending
    BY DEF ReplyInv, Answered, Delivered, Backed, Asked, Told, AskedMeansPending
<1> QED
    BY <1>1, AlwaysReplyInv, PTL

(* An update changes a transaction that is in the ledger: its target was   *)
(* committed, or commits with it.                                          *)
THEOREM UpdatesHaveRows == Spec => []UpdatesHitRows
<1>1. ReplyInv => UpdatesHitRows
    BY DEF ReplyInv, Rows
<1> QED
    BY <1>1, AlwaysReplyInv, PTL

(* Statistics in a reply include what the same message recorded, on a      *)
(* resumed batch too, wherever the read call stands in it.                 *)
THEOREM ReadsAreComplete == Spec => []ReadsSeeOwnWrites
<1>1. ReplyInv => ReadsSeeOwnWrites
    BY DEF ReplyInv, Answered, Delivered, Backed, Saw, RecordCalls, ReadsSeeOwnWrites
<1> QED
    BY <1>1, AlwaysReplyInv, PTL

(* Whatever deliveries race and whoever resumes the batch, the replies to  *)
(* one message tell one outcome; their figures and texts may differ.  The  *)
(* premises name the two cases in which even the outcome may: the previous *)
(* revision also answers the message, or an update that found no row finds *)
(* one on its next execution.  With the statement of the repository, which *)
(* the server refuses, Plain holds.                                        *)
THEOREM RepliesAgree ==
    ASSUME Legacy = {}, Plain
    PROVE  Spec => []OneOutcome
<1>1. ReplyInv => OneOutcome
  <2> SUFFICES ASSUME ReplyInv, NEW q \in replies, NEW r \in replies, q[1] = r[1]
               PROVE  q[2].kind = r[2].kind
      BY DEF OneOutcome
  <2>1. q[2].kind = Outcome(q[1]) /\ r[2].kind = Outcome(r[1])
      BY DEF ReplyInv, Answered, Delivered, Backed
  <2> QED
      BY <2>1
<1> QED
    BY <1>1, AlwaysReplyInv, PTL

-----------------------------------------------------------------------------
(* The protocol implements DeliveryContract, one abstract step at a time *)

LEMMA WrittenWhenSettled ==
    ASSUME ReplyInv, NEW m \in Message
    PROVE  /\ WrittenCalls(m) \subseteq WriteIndexes(batch[m].calls)
           /\ WrittenCalls(m) # {} => Settled(m)
           /\ Settled(m) => WrittenCalls(m) = WriteIndexes(batch[m].calls)
<1>1. WrittenCalls(m) \subseteq WriteIndexes(batch[m].calls)
    BY DEF WrittenCalls, WritesOf, ReplyInv, Rows, BatchRows, Asks
<1>2. WrittenCalls(m) # {} => Settled(m)
    BY DEF WrittenCalls, WritesOf, ReplyInv, IInv, Durable
<1>3. ASSUME Settled(m), NEW i \in WriteIndexes(batch[m].calls)
      PROVE  i \in WrittenCalls(m)
  <2>1. batch[m].calls \in Calls
      BY DEF ReplyInv, IInv, Typed, TypeOK
  <2>2. i \in Nat \ {0}
      BY <2>1, CallIndexes
  <2>3. PICK e \in ledger : e.call = <<m, i>>
      BY <1>3 DEF Settled, AllWritten
  <2>4. e.call[1] = m /\ e.call[2] = i /\ e.call[2] > 0
      BY <2>2, <2>3
  <2> QED
      BY <2>4 DEF WrittenCalls, WritesOf
<1> QED
    BY <1>1, <1>2, <1>3

LEMMA WrittenWhenSettledAll ==
    ReplyInv => \A m \in Message : Settled(m) =>
                  WrittenCalls(m) = WriteIndexes(batch[m].calls)
BY WrittenWhenSettled

(* An execution that reached its reply went through a legal batch and left *)
(* all of its writes in the ledger.                                        *)
LEMMA EndedExecution ==
    ASSUME Legacy = {}, Plain, ReplyInv, NEW m \in Message, NEW r,
           Backed(m, r), r.kind \in Spoken, Vouched(m, r), batch[m].calls # <<>>
    PROVE  /\ r.kind = Outcome(m) /\ r.kind \in {"done", "clarify", "reject"}
           /\ Valid(batch[m].calls)
           /\ WrittenCalls(m) = WriteIndexes(batch[m].calls)
<1>1. r.kind = Outcome(m) /\ r.kind \in {"done", "clarify", "reject"}
    BY DEF Backed, Outcome, Spoken
<1>2. Valid(batch[m].calls)
    BY <1>1 DEF Outcome, Doomed, Refused
<1>3. CASE r.kind = "done"
    BY <1>1, <1>2, <1>3, WrittenWhenSettled DEF Vouched
<1>4. CASE r.kind # "done"
  <2>1. IsControl(batch[m].calls) /\ Len(batch[m].calls) = 1
      BY <1>1, <1>2, <1>4 DEF Outcome, IsControl, Valid
  <2>2. batch[m].calls \in Calls
      BY DEF ReplyInv, IInv, Typed, TypeOK
  <2>3. DOMAIN batch[m].calls = 1 .. 1
      BY <2>1, <2>2, CallIndexes
  <2>4. WriteIndexes(batch[m].calls) = {}
      BY <2>1, <2>3 DEF IsControl, Has, WriteIndexes
  <2> QED
      BY <1>1, <1>2, <2>4, WrittenWhenSettled
<1> QED
    BY <1>3, <1>4

(* The contract sees the batch rows, the ledger and the replies.           *)
LEMMA AbstractStutter ==
    ASSUME NEW m, UNCHANGED <<ledger, replies>>
    PROVE  WrittenCalls(m)' = WrittenCalls(m) /\ KindsTold(m)' = KindsTold(m)
BY DEF WrittenCalls, WritesOf, KindsTold

LEMMA AbstractSame ==
    ASSUME UNCHANGED <<batch, ledger, replies>>
    PROVE  UNCHANGED Contract!contractVars
BY AbstractStutter DEF Contract!contractVars

LEMMA AbstractInit == Init => Contract!Init
BY DEF Init, Contract!Init, NoBatch, BatchRow, NoReply, Reply, Phase, WrittenCalls,
       WritesOf, KindsTold, Contract!NoBatchYet

(* The five parts of the abstract state of message k after a step, and the *)
(* same parts of every other message left alone.                           *)
ViewStep(k, phase, bound, written, stored, told) ==
    \A m \in Message :
        IF m = k
        THEN /\ Phase[batch[m].status]' = phase /\ batch'[m].calls = bound
             /\ WrittenCalls(m)' = written /\ batch'[m].reply.kind = stored
             /\ KindsTold(m)' = told
        ELSE /\ Phase[batch[m].status]' = Phase[batch[m].status]
             /\ batch'[m].calls = batch[m].calls /\ WrittenCalls(m)' = WrittenCalls(m)
             /\ batch'[m].reply.kind = batch[m].reply.kind
             /\ KindsTold(m)' = KindsTold(m)

LEMMA ClaimView ==
    ASSUME NEW k \in Message, Phase[batch[k].status] = "new",
           ViewStep(k, "claimed", batch[k].calls, WrittenCalls(k), batch[k].reply.kind,
                    KindsTold(k))
    PROVE  Contract!Next
<1>1. Contract!Claim(k)
    BY DEF Contract!Claim, ViewStep
<1> QED
    BY <1>1 DEF Contract!Next

LEMMA BindView ==
    ASSUME NEW k \in Message, NEW b \in Proposal,
           Phase[batch[k].status] = "claimed", KindsTold(k) = {},
           ViewStep(k, "bound", b, WrittenCalls(k), batch[k].reply.kind, KindsTold(k))
    PROVE  Contract!Next
<1>1. Contract!Bind(k, b)
    BY DEF Contract!Bind, ViewStep
<1> QED
    BY <1>1 DEF Contract!Next

LEMMA WriteView ==
    ASSUME NEW k \in Message, Phase[batch[k].status] = "bound",
           batch[k].calls \in Proposal, Valid(batch[k].calls), WrittenCalls(k) = {},
           ViewStep(k, "bound", batch[k].calls, WriteIndexes(batch[k].calls),
                    batch[k].reply.kind, KindsTold(k))
    PROVE  Contract!Next
<1>1. Contract!WriteAll(k)
    BY DEF Contract!WriteAll, ViewStep
<1> QED
    BY <1>1 DEF Contract!Next

LEMMA AnswerView ==
    ASSUME NEW k \in Message, NEW kind \in {"done", "clarify", "reject"},
           Phase[batch[k].status] = "bound",
           batch[k].calls \in Proposal, Valid(batch[k].calls),
           WrittenCalls(k) = WriteIndexes(batch[k].calls),
           ViewStep(k, "answered", batch[k].calls, WrittenCalls(k), kind, KindsTold(k))
    PROVE  Contract!Next
<1>1. Contract!Answer(k, kind)
    BY DEF Contract!Answer, ViewStep
<1> QED
    BY <1>1 DEF Contract!Next, Contract!Kind

LEMMA FailureView ==
    ASSUME NEW k \in Message,
           \/ Phase[batch[k].status] = "claimed"
           \/ Phase[batch[k].status] = "bound" /\ ~Valid(batch[k].calls),
           ViewStep(k, Phase[batch[k].status], batch[k].calls, WrittenCalls(k),
                    batch[k].reply.kind, KindsTold(k) \cup {"failed"})
    PROVE  Contract!Next
<1>1. Contract!TellFailure(k)
    BY DEF Contract!TellFailure, ViewStep
<1> QED
    BY <1>1 DEF Contract!Next

LEMMA TellView ==
    ASSUME NEW k \in Message, Phase[batch[k].status] = "answered",
           ViewStep(k, "answered", batch[k].calls, WrittenCalls(k),
                    batch[k].reply.kind, KindsTold(k) \cup {batch[k].reply.kind})
    PROVE  Contract!Next
<1>1. Contract!Tell(k)
    BY DEF Contract!Tell, ViewStep
<1> QED
    BY <1>1 DEF Contract!Next

(* The INSERT that gives the right to ask the model.                       *)
LEMMA AbstractClaim ==
    ASSUME ReplyInv, NEW w \in Worker, ClaimSelection(w), NEW k, k = job[w]
    PROVE  [Contract!Next]_Contract!contractVars
<1>1. UNCHANGED <<ledger, replies>> /\ k \in Message
    BY DEF ClaimSelection, outVars, ReplyInv, IInv, Typed, BusyHasJob
<1>2. CASE batch' = batch
    BY <1>1, <1>2, AbstractSame
<1>3. CASE batch' # batch
  <2>1. /\ batch[k].status = "none"
        /\ batch' = [batch EXCEPT ![k] = BatchRow("selecting", <<>>, NoReply)]
      BY <1>3 DEF ClaimSelection, MayClaim
  <2>2. batch[k].calls = <<>> /\ batch[k].reply = NoReply
      BY <1>1, <2>1 DEF ReplyInv, IInv, Bound, CallsOnceAccepted, Answered, Stored
  <2>3. \A m \in Message :
            /\ batch'[m].calls = batch[m].calls /\ batch'[m].reply = batch[m].reply
            /\ batch'[m].status = IF m = k THEN "selecting" ELSE batch[m].status
      BY <1>1, <2>1, <2>2 DEF BatchRow, ReplyInv, IInv, Typed, TypeOK
  <2>4. \A m : WrittenCalls(m)' = WrittenCalls(m) /\ KindsTold(m)' = KindsTold(m)
      BY <1>1, AbstractStutter
  <2>5. Phase[batch[k].status] = "new"
        /\ ViewStep(k, "claimed", batch[k].calls, WrittenCalls(k), batch[k].reply.kind,
                    KindsTold(k))
      BY <2>1, <2>3, <2>4 DEF ViewStep, Phase
  <2> QED
      BY <1>1, <2>5, ClaimView
<1> QED
    BY <1>2, <1>3

(* The compare-and-set that binds the selection: nothing was said yet.     *)
LEMMA AbstractBind ==
    ASSUME Legacy = {}, Plain, ReplyInv, NEW w \in Worker, AcceptCalls(w),
           NEW k, k = job[w]
    PROVE  [Contract!Next]_Contract!contractVars
<1>0. /\ pc[w] = "accept" /\ k \in Message
      /\ plan[w] \in Proposal
    BY DEF AcceptCalls, ReplyInv, IInv, Typed, TypeOK, BusyHasJob, Bound,
           SelectedIsBatch, Calls
<1>1. UNCHANGED <<ledger, replies>>
    BY DEF AcceptCalls, Raise, dbVars, outVars
<1>2. CASE ~ClaimHeld(batch[k])
    BY <1>1, <1>2, AbstractSame DEF AcceptCalls, Raise, dbVars
<1>3. CASE ClaimHeld(batch[k])
  <2>1. batch' = [batch EXCEPT ![k] = BatchRow("accepted", plan[w], NoReply)]
      BY <1>3 DEF AcceptCalls
  <2>2. /\ batch[k].status = "selecting" /\ batch[k].calls = <<>>
        /\ batch[k].reply = NoReply
      BY <1>0, <1>3 DEF ClaimHeld, ReplyInv, Answered, Stored
  <2>3. \A m \in Message :
            /\ batch'[m].calls = IF m = k THEN plan[w] ELSE batch[m].calls
            /\ batch'[m].reply = batch[m].reply
            /\ batch'[m].status = IF m = k THEN "accepted" ELSE batch[m].status
      BY <1>0, <2>1, <2>2 DEF BatchRow, ReplyInv, IInv, Typed, TypeOK
  <2>4. \A m : WrittenCalls(m)' = WrittenCalls(m) /\ KindsTold(m)' = KindsTold(m)
      BY <1>1, AbstractStutter
  <2>5. KindsTold(k) = {}
    <3> SUFFICES ASSUME NEW r \in replies, r[1] = k PROVE FALSE
        BY DEF KindsTold
    <3>1. Decided(k)
        BY DEF ReplyInv, Answered, Delivered, Backed
    <3>2. ~Abandoned(k) /\ ~Refused(k)
        BY <1>0, <2>2 DEF Abandoned, Refused, Holds, Claiming
    <3> QED
        BY <2>2, <3>1, <3>2 DEF Decided, Doomed
  <2>6. /\ Phase[batch[k].status] = "claimed"
        /\ ViewStep(k, "bound", plan[w], WrittenCalls(k), batch[k].reply.kind,
                    KindsTold(k))
      BY <2>2, <2>3, <2>4 DEF ViewStep, Phase
  <2> QED
      BY <1>0, <2>5, <2>6, BindView
<1> QED
    BY <1>2, <1>3

(* The commit that makes the writes of the batch visible, if none was.     *)
LEMMA AbstractWrite ==
    ASSUME Legacy = {}, Plain, ReplyInv, [Next]_vars, NEW w \in Worker, Commit(w),
           NEW k, k = job[w]
    PROVE  [Contract!Next]_Contract!contractVars
<1>0. /\ pc[w] = "write" /\ k \in Message /\ Persisted(w) /\ Valid(plan[w])
      /\ plan[w] \in Proposal /\ batch[k].calls = plan[w]
    <2>1. pc[w] = "write"
        BY DEF Commit
    <2>2. Persisted(w) /\ Valid(plan[w])
        BY <2>1 DEF ReplyInv, IInv, Bound, ExecutesPersisted, Executing, Checked
    <2>3. k \in Message /\ plan[w] \in Calls /\ plan[w] # <<>>
        BY <2>1, <2>2 DEF ReplyInv, IInv, Typed, TypeOK, BusyHasJob, Persisted
    <2> QED
        BY <2>1, <2>2, <2>3 DEF Calls, Persisted
<1>1. /\ replies' = replies /\ ledger' = ledger \cup tx[w] /\ job' = job
      /\ batch' = [batch EXCEPT ![k] = MarkCommitted(@)]
    BY DEF Commit, outVars
<1>2. ReplyInv'
    BY ReplyInvStep
<1>3. \A m \in Message :
          /\ batch'[m].calls = batch[m].calls /\ batch'[m].reply = batch[m].reply
          /\ Phase[batch'[m].status] = Phase[batch[m].status]
    BY <1>0, <1>1 DEF MarkCommitted, Phase, ReplyInv, IInv, Typed, TypeOK
<1>4. \A m : KindsTold(m)' = KindsTold(m)
    BY <1>1 DEF KindsTold
<1>5. \A m \in Message : m # k => WrittenCalls(m)' = WrittenCalls(m)
    BY <1>1 DEF ReplyInv, IInv, Keyed, OwnWrites, WrittenCalls, WritesOf
<1>6. CASE tx[w] = {}
  <2>1. \A m : WrittenCalls(m)' = WrittenCalls(m)
      BY <1>1, <1>6 DEF WrittenCalls, WritesOf
  <2> QED
      BY <1>3, <1>4, <2>1 DEF Contract!contractVars
<1>7. CASE tx[w] # {}
  <2>1. PICK e \in tx[w] : TRUE
      BY <1>7
  <2>2. e.call[1] = k /\ e.call[2] \in WriteIndexes(plan[w]) /\ ~KeyCommitted(e.call)
      BY DEF ReplyInv, IInv, Keyed, OwnWrites, KeysFree, Rows, OpenRows, Asks
  <2>3. e.call = <<k, e.call[2]>>
      BY <2>2 DEF ReplyInv, IInv, Typed, TypeOK, Write, CallId
  <2>4. ~Settled(k)
      BY <1>0, <2>2, <2>3 DEF Settled, AllWritten, KeyCommitted
  <2>5. WrittenCalls(k) = {}
      BY <1>0, <2>4, WrittenWhenSettled
  <2>6. batch[k].status \in {"accepted", "writes_committed"}
    <3>1. batch[k].status \notin {"none", "selecting"}
        BY <1>0 DEF ReplyInv, IInv, Bound, CallsOnceAccepted, Persisted
    <3>2. ASSUME batch[k].status = "completed" PROVE FALSE
      <4>1. /\ Backed(k, batch[k].reply) /\ batch[k].reply.kind \in Spoken
            /\ Vouched(k, batch[k].reply)
          BY <1>0, <3>2 DEF ReplyInv, IInv, Answered, Stored, Durable
      <4>2. WrittenCalls(k) = WriteIndexes(plan[w])
          BY <1>0, <4>1, EndedExecution DEF Persisted
      <4> QED
          BY <2>2, <2>5, <4>2
    <3>3. batch[k].status \in Status
        BY <1>0 DEF ReplyInv, IInv, Typed, TypeOK
    <3> QED
        BY <3>1, <3>2, <3>3 DEF Status
  <2>7. WrittenCalls(k)' = WriteIndexes(plan[w])
    <3>1. Settled(job[w])'
        BY CommitSettles DEF ReplyInv, IInv
    <3>2. \A m \in Message : Settled(m)' =>
              WrittenCalls(m)' = WriteIndexes(batch'[m].calls)
      <4>1. (ReplyInv => \A m \in Message : Settled(m) =>
                  WrittenCalls(m) = WriteIndexes(batch[m].calls))'
          BY WrittenWhenSettledAll, PTL
      <4> QED
          BY <1>2, <4>1
    <3> QED
        BY <1>0, <1>1, <1>3, <3>1, <3>2
  <2>8. Phase[batch[k].status] = "bound"
      BY <2>6 DEF Phase
  <2>9. ViewStep(k, "bound", batch[k].calls, WriteIndexes(batch[k].calls),
                 batch[k].reply.kind, KindsTold(k))
      BY <1>0, <1>3, <1>4, <1>5, <2>7, <2>8 DEF ViewStep
  <2> QED
      BY <1>0, <2>5, <2>8, <2>9, WriteView
<1> QED
    BY <1>6, <1>7

(* The first completion stores the reply of a finished execution.          *)
LEMMA AbstractAnswer ==
    ASSUME Legacy = {}, Plain, ReplyInv, NEW w \in Worker, CompleteBatch(w),
           NEW k, k = job[w]
    PROVE  [Contract!Next]_Contract!contractVars
<1> DEFINE a == answer[w]
<1>0. /\ pc[w] = "complete" /\ k \in Message /\ Persisted(w)
      /\ UNCHANGED <<ledger, replies>>
      /\ batch' = [batch EXCEPT ![k] = Completed(@, answer[w])]
    BY DEF CompleteBatch, outVars, ReplyInv, IInv, Typed, BusyHasJob, Bound,
           ExecutesPersisted, Executing
<1>1. CASE batch[k].status \notin {"accepted", "writes_committed"}
  <2>1. batch' = batch
      BY <1>0, <1>1 DEF Completed, ReplyInv, IInv, Typed, TypeOK
  <2> QED
      BY <1>0, <2>1, AbstractSame
<1>2. CASE batch[k].status \in {"accepted", "writes_committed"}
  <2>1. Backed(k, a) /\ a.kind \in Spoken /\ Vouched(k, a) /\ batch[k].calls # <<>>
      BY <1>0 DEF ReplyInv, IInv, Answered, InHand, Durable, Assured, Persisted
  <2>2. /\ a.kind \in {"done", "clarify", "reject"} /\ Valid(batch[k].calls)
        /\ WrittenCalls(k) = WriteIndexes(batch[k].calls)
      BY <1>0, <2>1, EndedExecution
  <2>3. batch[k].calls \in Proposal
      BY <1>0, <2>1 DEF ReplyInv, IInv, Typed, TypeOK, Calls
  <2>4. \A m \in Message :
            /\ batch'[m].calls = batch[m].calls
            /\ batch'[m].reply = IF m = k THEN a ELSE batch[m].reply
            /\ batch'[m].status = IF m = k THEN "completed" ELSE batch[m].status
      BY <1>0, <1>2 DEF Completed, ReplyInv, IInv, Typed, TypeOK
  <2>5. \A m : WrittenCalls(m)' = WrittenCalls(m) /\ KindsTold(m)' = KindsTold(m)
      BY <1>0, AbstractStutter
  <2> HIDE DEF a
  <2>6. /\ Phase[batch[k].status] = "bound"
        /\ ViewStep(k, "answered", batch[k].calls, WrittenCalls(k), a.kind,
                    KindsTold(k))
      BY <1>2, <2>4, <2>5 DEF ViewStep, Phase
  <2> QED
      BY <1>0, <2>2, <2>3, <2>6, AnswerView
<1> QED
    BY <1>1, <1>2

(* A reply sent adds its kind to what the user of its message was told.    *)
LEMMA ToldStep ==
    ASSUME NEW k, NEW a, replies' = replies \cup {<<k, a>>}
    PROVE  \A m : KindsTold(m)' = IF m = k THEN KindsTold(m) \cup {a.kind}
                                  ELSE KindsTold(m)
<1> DEFINE r == <<k, a>>
<1>1. r[1] = k /\ r[2] = a /\ replies' = replies \cup {r}
    OBVIOUS
<1> HIDE DEF r
<1>2. \A m : {x \in replies' : x[1] = m} =
              IF m = k THEN {x \in replies : x[1] = m} \cup {r}
              ELSE {x \in replies : x[1] = m}
    BY <1>1
<1>3. ASSUME NEW m, m = k PROVE KindsTold(m)' = KindsTold(m) \cup {a.kind}
  <2>1. KindsTold(m)' = {x[2].kind : x \in {y \in replies : y[1] = m} \cup {r}}
      BY <1>2, <1>3 DEF KindsTold
  <2> QED
      BY <1>1, <2>1 DEF KindsTold
<1>4. ASSUME NEW m, m # k PROVE KindsTold(m)' = KindsTold(m)
    BY <1>2, <1>4 DEF KindsTold
<1> QED
    BY <1>3, <1>4

(* A reply sent is a failure that is final, or the stored reply.           *)
LEMMA AbstractSend ==
    ASSUME Legacy = {}, Plain, ReplyInv, NEW w \in Worker, SendReply(w),
           NEW k, k = job[w], NEW a, a = answer[w]
    PROVE  [Contract!Next]_Contract!contractVars
<1>0. /\ pc[w] = "send" /\ k \in Message /\ UNCHANGED <<ledger, batch>>
      /\ replies' = replies \cup {<<k, a>>}
      /\ Delivered(k, a) /\ Stored(k) /\ Vouched(k, batch[k].reply)
    BY DEF SendReply, dbVars, ReplyInv, IInv, Typed, BusyHasJob, Answered, InHand, Durable
<1>1. \A m : WrittenCalls(m)' = WrittenCalls(m)
    BY <1>0 DEF WrittenCalls, WritesOf
<1>2. \A m : KindsTold(m)' = IF m = k THEN KindsTold(m) \cup {a.kind} ELSE KindsTold(m)
    BY <1>0, ToldStep
<1>3. Decided(k) /\ a.kind = Outcome(k)
    BY <1>0 DEF Delivered, Backed
<1>4. batch[k].status = "completed" => Outcome(k) = batch[k].reply.kind
                                       /\ Outcome(k) # "failed"
    BY <1>0 DEF Stored, Backed, Spoken
<1>5. CASE Doomed(k)
  <2>1. a.kind = "failed"
      BY <1>3, <1>5 DEF Outcome
  <2>2. ViewStep(k, Phase[batch[k].status], batch[k].calls, WrittenCalls(k),
                 batch[k].reply.kind, KindsTold(k) \cup {"failed"})
      BY <1>0, <1>1, <1>2, <2>1 DEF ViewStep
  <2>3. CASE Abandoned(k)
    <3>1. Phase[batch[k].status] = "claimed"
        BY <2>3 DEF Abandoned, Phase
    <3> QED
        BY <1>0, <2>2, <3>1, FailureView
  <2>4. CASE Refused(k)
    <3>1. batch[k].status \in {"accepted", "writes_committed"}
      <4>1. batch[k].status \in Status /\ batch[k].status # "completed"
          BY <1>0, <1>3, <1>4, <2>1 DEF ReplyInv, IInv, Typed, TypeOK
      <4>2. batch[k].status \notin {"none", "selecting"}
          BY <1>0, <2>4 DEF Refused, ReplyInv, IInv, Bound, CallsOnceAccepted
      <4> QED
          BY <4>1, <4>2 DEF Status
    <3>2. Phase[batch[k].status] = "bound" /\ ~Valid(batch[k].calls)
        BY <2>4, <3>1 DEF Refused, Phase
    <3> QED
        BY <1>0, <2>2, <3>2, FailureView
  <2> QED
      BY <1>5, <2>3, <2>4 DEF Doomed
<1>6. CASE ~Doomed(k)
  <2>1. a.kind \in Spoken
      BY <1>3, <1>6 DEF Outcome, Spoken
  <2>2. batch[k].status = "completed" /\ a.kind = batch[k].reply.kind
      BY <1>0, <1>3, <1>4, <2>1 DEF Delivered
  <2>3. /\ Phase[batch[k].status] = "answered"
        /\ ViewStep(k, "answered", batch[k].calls, WrittenCalls(k),
                    batch[k].reply.kind, KindsTold(k) \cup {batch[k].reply.kind})
      BY <1>0, <1>1, <1>2, <2>2 DEF ViewStep, Phase
  <2> QED
      BY <1>0, <2>3, TellView
<1> QED
    BY <1>5, <1>6

(* The steps of the protocol the contract does not see.                    *)
LEMMA HiddenSteps ==
    ASSUME Legacy = {}, [Next]_vars
    PROVE  \/ UNCHANGED <<batch, ledger, replies>>
           \/ \E w \in Worker : \/ ClaimSelection(w) \/ AcceptCalls(w) \/ Commit(w)
                                \/ CompleteBatch(w) \/ SendReply(w)
<1>1. ASSUME NEW w \in Worker, WorkerStep(w) \/ Fail(w)
      PROVE  \/ UNCHANGED <<batch, ledger, replies>>
             \/ ClaimSelection(w) \/ AcceptCalls(w) \/ Commit(w)
             \/ CompleteBatch(w) \/ SendReply(w)
    BY <1>1 DEF WorkerStep, FindBatch, ClaimTaken, LoadPending, DropExpired,
       SelectCalls, SelectionFails, BeginExecution, SaveClarification, RejectRequest,
       StatementBlocks, InsertRecord, ReuseRecord, InsertLost, ApplyUpdate, RowFreed,
       UpdateMisses, UpdateRefused, SaveMissingTarget, ReadLedger, ClearPending,
       Acknowledge, Fail, Raise, Buffer, dbVars, outVars
<1>2. ASSUME NEW w \in Worker, NEW m \in Message, Deliver(w, m)
      PROVE  UNCHANGED <<batch, ledger, replies>>
    BY <1>2 DEF Deliver, dbVars, outVars
<1>3. CASE ExpirePending \/ UNCHANGED vars
    BY <1>3 DEF ExpirePending, outVars, vars
<1> QED
    BY <1>1, <1>2, <1>3 DEF Next

LEMMA AbstractStep ==
    ASSUME Legacy = {}, Plain, ReplyInv, [Next]_vars
    PROVE  [Contract!Next]_Contract!contractVars
<1>1. CASE UNCHANGED <<batch, ledger, replies>>
    BY <1>1, AbstractSame
<1>2. ASSUME NEW w \in Worker,
             \/ ClaimSelection(w) \/ AcceptCalls(w) \/ Commit(w)
             \/ CompleteBatch(w) \/ SendReply(w)
      PROVE  [Contract!Next]_Contract!contractVars
  <2>1. \E k, a : k = job[w] /\ a = answer[w]
      OBVIOUS
  <2> QED
      BY <1>2, <2>1, AbstractClaim, AbstractBind, AbstractWrite, AbstractAnswer,
         AbstractSend
<1> QED
    BY <1>1, <1>2, HiddenSteps

(* Request threads, SQL transactions, crashes and redeliveries together do *)
(* nothing to a message but what DeliveryContract allows.  The premises    *)
(* are those of RepliesAgree: the rollout is over, and no update can find  *)
(* its row missing (the server refuses the statement the code sends).      *)
THEOREM ProtocolImplementsContract ==
    ASSUME Legacy = {}, Plain
    PROVE  Spec => ImplementsContract
<1>1. ReplyInv /\ [Next]_vars => [Contract!Next]_Contract!contractVars
    BY AbstractStep
<1> QED
    BY <1>1, AbstractInit, AlwaysReplyInv, PTL
    DEF Spec, ImplementsContract, Contract!Spec

-----------------------------------------------------------------------------
(* Both revisions record one delivery only in a race *)

LEMMA HistoryStep == [HNext]_hvars => [Next]_vars
BY DEF HNext, hvars

(* What puts a row of the previous revision into the ledger.               *)
LEMMA LegacyRowSteps ==
    ASSUME Typed, Keyed, [Next]_vars, NEW m, LegacyRow(m)', ~LegacyRow(m)
    PROVE  /\ m \in Legacy /\ LegacyAppend(m) /\ ledger' # ledger
           /\ UNCHANGED <<pc, job, batch>>
           /\ \A e \in ledger : e.kind = "created" => e.call[1] # m
           /\ \A e \in ledger' : e \in ledger \/ e.call = <<m, 0>>
<1>1. PICK e \in ledger' : e.call = <<m, 0>> /\ e \notin ledger
    BY DEF LegacyRow
<1>2. ASSUME NEW w \in Worker, ledger' = ledger \cup tx[w] PROVE FALSE
  <2>1. e.call[2] > 0
      BY <1>1, <1>2 DEF Keyed, OwnWrites
  <2> QED
      BY <1>1, <2>1
<1>3. ledger' # ledger /\ ~\E w \in Worker : Commit(w)
    BY <1>1, <1>2 DEF Commit
<1>4. PICK k \in Legacy : LegacyAppend(k)
    BY <1>3, LedgerSteps
<1> DEFINE row == [kind |-> "created", call |-> <<k, 0>>, at |-> clock + 1,
                   on |-> <<k, 0>>]
<1>5. /\ ledger' = ledger \cup {row}
      /\ ~\E d \in ledger : d.kind = "created" /\ d.call[1] = k
    BY <1>3, <1>4 DEF LegacyAppend
<1>6. row.call = <<k, 0>>
    OBVIOUS
<1> HIDE DEF row
<1>7. k = m
    BY <1>1, <1>5, <1>6
<1> QED
    BY <1>3, <1>4, <1>5, <1>6, <1>7 DEF LegacyAppend, localVars

(* A message that is being executed, or has been, met no row of the        *)
(* previous revision when its execution began.                             *)
Raced ==
    /\ \A e \in ledger :
          e.kind = "created" /\ e.call[2] > 0 /\ LegacyRow(e.call[1])
              => e.call[1] \in raced
    /\ \A w \in Worker :
          InTransaction(w) /\ LegacyRow(job[w]) => job[w] \in raced

(* A worker enters execute_writes from begin_batch, which found no row.    *)
LEMMA TransactionSteps ==
    ASSUME Typed, [Next]_vars, NEW w \in Worker, InTransaction(w)'
    PROVE  /\ job'[w] = job[w]
           /\ \/ InTransaction(w)
              \/ /\ pc[w] = "begin" /\ ~LegacyRow(job[w]) /\ ledger' = ledger
                 /\ batch[job[w]].status # "completed"
<1> USE DEF Typed, TypeOK, InTransaction
<1>1. ASSUME EndRequest(w) PROVE FALSE
    BY <1>1 DEF EndRequest, Goto
<1>2. CASE Moves(w)
  <2>1. CASE FindBatch(w) \/ ClaimSelection(w) \/ AcceptCalls(w)
      BY <2>1, <1>1 DEF FindBatch, ClaimSelection, AcceptCalls, StartExecutor, Return,
                        Goto, Raise
  <2>2. CASE BeginExecution(w)
      BY <2>2 DEF BeginExecution, LegacyFound, Return, Goto, dbVars
  <2>3. CASE StatementBlocks(w) \/ RowFreed(w) \/ ReuseRecord(w)
      BY <2>3 DEF StatementBlocks, RowFreed, ReuseRecord, Goto, localVars
  <2>4. CASE InsertRecord(w) \/ ApplyUpdate(w)
    <3>1. PICK i, e, label : InWriteTransaction(w) /\ Buffer(w, i, e, label)
        BY <2>4 DEF InsertRecord, ApplyUpdate
    <3> QED
        BY <3>1 DEF Buffer, InWriteTransaction
  <2>5. CASE \/ ClaimTaken(w) \/ InsertLost(w) \/ UpdateRefused(w) \/ Acknowledge(w)
             \/ Fail(w)
      BY <2>5, <1>1 DEF ClaimTaken, InsertLost, UpdateRefused, Acknowledge, Fail, Raise
  <2> QED
      BY <1>2, <2>1, <2>2, <2>3, <2>4, <2>5 DEF Moves, WorkerStep, Deliver,
         LoadPending, DropExpired, SelectCalls, SelectionFails, SaveClarification,
         RejectRequest, UpdateMisses, Commit, SaveMissingTarget, ReadLedger,
         ClearPending, CompleteBatch, SendReply, Return, Goto
<1>3. ASSUME NEW v \in Worker \ {w}, Moves(v)
      PROVE  pc'[w] = pc[w] /\ job'[w] = job[w]
    BY <1>3, OneWorkerMoves DEF Others
<1>4. CASE UNCHANGED <<batch, pc, localVars>>
    BY <1>4 DEF localVars
<1> QED
    BY <1>2, <1>3, <1>4, StepKinds

LEMMA RacedStep ==
    ASSUME Typed, Keyed, Raced, [HNext]_hvars
    PROVE  Raced'
<1>0. [Next]_vars /\ raced \subseteq raced'
    BY HistoryStep DEF HNext, NoteRace, hvars
<1>1. ASSUME NEW m, LegacyRow(m)', ~LegacyRow(m), NEW w \in Worker, InTransaction(w),
             job[w] = m
      PROVE  m \in raced'
  <2>1. /\ m \in Legacy /\ LegacyAppend(m) /\ ledger' # ledger
      BY <1>0, <1>1, LegacyRowSteps
  <2>2. NoteRace
      BY <2>1 DEF HNext, hvars, vars
  <2>3. InExecution(m)
      BY <1>1 DEF InExecution, InTransaction
  <2> QED
      BY <2>1, <2>2, <2>3 DEF NoteRace
<1>2. ASSUME NEW w \in Worker, InTransaction(w)', LegacyRow(job[w])'
      PROVE  job'[w] \in raced'
  <2>1. /\ job'[w] = job[w]
        /\ InTransaction(w) \/ (~LegacyRow(job[w]) /\ ledger' = ledger)
      BY <1>0, <1>2, TransactionSteps
  <2>2. ledger' = ledger => (LegacyRow(job[w])' <=> LegacyRow(job[w]))
      BY <2>1 DEF LegacyRow
  <2>3. InTransaction(w)
      BY <1>2, <2>1, <2>2
  <2>4. CASE LegacyRow(job[w])
      BY <1>0, <2>1, <2>3, <2>4 DEF Raced
  <2>5. CASE ~LegacyRow(job[w])
    <3>1. \A m : m = job[w] => LegacyRow(m)'
        BY <1>2, <2>1 DEF LegacyRow
    <3> QED
        BY <1>1, <2>1, <2>3, <2>5, <3>1
  <2> QED
      BY <2>4, <2>5
<1>3. ASSUME NEW e \in ledger', e.kind = "created", e.call[2] > 0,
             NEW m, m = e.call[1], LegacyRow(m)'
      PROVE  m \in raced'
  <2>1. CASE ~LegacyRow(m)
    <3>1. /\ \A d \in ledger : d.kind = "created" => d.call[1] # m
          /\ \A d \in ledger' : d \in ledger \/ d.call = <<m, 0>>
        BY <1>0, <1>3, <2>1, LegacyRowSteps
    <3> QED
        BY <1>3, <3>1
  <2>2. CASE LegacyRow(m) /\ e \in ledger
      BY <1>0, <1>3, <2>2 DEF Raced
  <2>3. ASSUME LegacyRow(m), NEW w \in Worker, Commit(w), e \in tx[w]
        PROVE  m \in raced'
    <3>1. InTransaction(w) /\ e.call[1] = job[w]
        BY <2>3 DEF Keyed, OwnWrites
    <3> QED
        BY <1>0, <1>3, <2>3, <3>1 DEF Raced
  <2>4. ASSUME NEW k, e.call = <<k, 0>> PROVE FALSE
      BY <1>3, <2>4
  <2> QED
      BY <1>0, <2>1, <2>2, <2>3, <2>4, LedgerSteps
<1>4. \A e \in ledger' :
          e.kind = "created" /\ e.call[2] > 0 /\ LegacyRow(e.call[1])'
              => e.call[1] \in raced'
  <2> SUFFICES ASSUME NEW e \in ledger', e.kind = "created", e.call[2] > 0,
                      LegacyRow(e.call[1])'
               PROVE  e.call[1] \in raced'
      OBVIOUS
  <2>1. \A m : m = e.call[1] => LegacyRow(m)'
      BY DEF LegacyRow
  <2> QED
      BY <1>3, <2>1
<1> QED
    BY <1>2, <1>4 DEF Raced

(* One delivery is in the ledger twice, from the batch and from the        *)
(* previous revision, only if the latter inserted its row while an         *)
(* execution was between begin_batch, which had looked for it, and its     *)
(* commit: outside that window the two revisions exclude each other, for   *)
(* any number of workers, deliveries, crashes and resumed batches.         *)
THEOREM BothRecordOnlyInRace == HSpec => []RecordedTwiceOnlyInRace
<1>1. HInit => Typed /\ Keyed /\ Raced
  <2>1. Init => Raced
      BY DEF Init, Raced, InTransaction
  <2> QED
      BY <2>1, TypedInit, KeyedInit DEF HInit
<1>2. Typed /\ Keyed /\ Raced /\ [HNext]_hvars => (Typed /\ Keyed /\ Raced)'
    BY TypedStep, KeyedStep, RacedStep, HistoryStep
<1>3. Typed /\ Raced => RecordedTwiceOnlyInRace
  <2> SUFFICES ASSUME Typed, Raced, NEW d \in ledger, NEW e \in ledger,
                      d.call[1] = e.call[1], d.call[2] = 0, e.call[2] > 0,
                      e.kind = "created"
               PROVE  d.call[1] \in raced
      BY DEF RecordedTwiceOnlyInRace
  <2>1. d.call = <<d.call[1], 0>>
      BY DEF Typed, TypeOK, Write, CallId
  <2>2. LegacyRow(e.call[1])
      BY <2>1 DEF LegacyRow
  <2> QED
      BY <2>2 DEF Raced
<1> QED
    BY <1>1, <1>2, <1>3, PTL DEF HSpec

-----------------------------------------------------------------------------
(* A delivery after the 2xx *)

(* Nothing of the message is left to be written.                           *)
Closed(m) ==
    LegacyRow(m) \/ Settled(m) \/ batch[m].status = "completed" \/ Doomed(m)

LateWorker(w) ==
    /\ pc[w] # "idle" /\ pc[w] \notin Claiming
    /\ tx[w] = {} /\ Closed(job[w])
    /\ InTransaction(w) => Settled(job[w])

LateInv ==
    /\ \A m \in Message : acked[m] => Closed(m)
    /\ \A w \in late : w \in Worker /\ LateWorker(w)

LEMMA ClosedStep ==
    ASSUME Typed, Bound, Claimed, [Next]_vars, NEW m \in Message, Closed(m)
    PROVE  Closed(m)'
<1>1. LegacyRow(m) => LegacyRow(m)'
    BY LedgerSteps DEF LegacyRow
<1> QED
    BY <1>1, SettledStep, ReplyStep, DoomedStep DEF Closed

LEMMA RowCloses ==
    ASSUME IInv, NEW m \in Message, Recorded(m)
    PROVE  Closed(m)
<1>1. PICK e \in ledger : e.call[1] = m
    BY DEF Recorded
<1>2. e.call = <<m, e.call[2]>> /\ e.call[2] \in Nat
    BY <1>1 DEF IInv, Typed, TypeOK, Write, CallId
<1>3. CASE e.call[2] = 0
    BY <1>1, <1>2, <1>3 DEF LegacyRow, Closed
<1>4. CASE e.call[2] > 0
    BY <1>1, <1>4 DEF IInv, Durable, Closed
<1> QED
    BY <1>2, <1>3, <1>4

(* What a reply that was sent stands for.                                  *)
LEMMA AnsweredClosed ==
    ASSUME ReplyInv, NEW m \in Message, NEW r \in ReplySet, Delivered(m, r)
    PROVE  Closed(m)
<1>1. CASE r.kind \in Spoken
    BY <1>1 DEF Delivered, Closed
<1>2. CASE r.kind = "failed"
    BY <1>2 DEF Delivered, Backed, Closed
<1>3. CASE r.kind = "legacy"
    BY <1>3, RowCloses DEF Delivered, Backed, ReplyInv
<1> QED
    BY <1>1, <1>2, <1>3 DEF Spoken, ReplySet, Delivered

(* The 2xx is given by the request that sent the reply, or by an instance  *)
(* of the previous revision.                                               *)
LEMMA AckSteps ==
    ASSUME [Next]_vars, NEW m \in Message, acked'[m], ~acked[m]
    PROVE  \/ \E w \in Worker : pc[w] = "ack" /\ job[w] = m
           \/ LegacyAppend(m)
<1>1. acked' # acked
    OBVIOUS
<1>2. ASSUME NEW w \in Worker, WorkerStep(w) \/ Fail(w) PROVE Acknowledge(w)
    BY <1>1, <1>2 DEF WorkerStep, FindBatch, ClaimSelection, ClaimTaken, LoadPending,
       DropExpired, SelectCalls, SelectionFails, AcceptCalls, BeginExecution,
       SaveClarification, RejectRequest, StatementBlocks, InsertRecord, ReuseRecord,
       InsertLost, ApplyUpdate, RowFreed, UpdateMisses, UpdateRefused, Commit,
       SaveMissingTarget, ReadLedger, ClearPending, CompleteBatch, SendReply, Fail,
       Raise, Buffer, outVars
<1>3. ASSUME NEW w \in Worker, Acknowledge(w) PROVE pc[w] = "ack" /\ job[w] = m
    BY <1>3 DEF Acknowledge
<1>4. ASSUME NEW w \in Worker, NEW k \in Message, Deliver(w, k) PROVE FALSE
    BY <1>1, <1>4 DEF Deliver, outVars
<1>5. ASSUME NEW k \in Legacy, LegacyAppend(k) PROVE k = m
    BY <1>5 DEF LegacyAppend
<1>6. ~ExpirePending /\ ~UNCHANGED vars
    BY <1>1 DEF ExpirePending, outVars, vars
<1> QED
    BY <1>2, <1>3, <1>4, <1>5, <1>6 DEF Next

LEMMA AckCloses ==
    ASSUME ReplyInv, [Next]_vars, NEW m \in Message,
           acked[m] => Closed(m), acked'[m]
    PROVE  Closed(m)'
<1>1. Closed(m) => Closed(m)'
    BY ClosedStep DEF ReplyInv, IInv
<1>2. ASSUME NEW w \in Worker, pc[w] = "ack", job[w] = m PROVE Closed(m)
  <2>1. Delivered(m, answer[w]) /\ answer[w] \in ReplySet
      BY <1>2 DEF ReplyInv, IInv, Answered, InHand, Typed, TypeOK
  <2> QED
      BY <2>1, AnsweredClosed
<1>3. CASE LegacyAppend(m)
  <2> DEFINE row == [kind |-> "created", call |-> <<m, 0>>, at |-> clock + 1,
                     on |-> <<m, 0>>]
  <2>1. CASE Recorded(m)
      BY <1>1, <2>1, RowCloses DEF ReplyInv
  <2>2. CASE ledger' = ledger \cup {row}
    <3>1. row.call = <<m, 0>>
        OBVIOUS
    <3> HIDE DEF row
    <3> QED
        BY <2>2, <3>1 DEF Closed, LegacyRow
  <2> QED
      BY <1>3, <2>1, <2>2 DEF LegacyAppend, Recorded
<1> QED
    BY <1>1, <1>2, <1>3, AckSteps

(* A request keeps its message as long as it lasts.                        *)
LEMMA JobKept ==
    ASSUME Typed, [Next]_vars, NEW w \in Worker, pc[w] # "idle", pc'[w] # "idle"
    PROVE  job'[w] = job[w]
<1> USE DEF Typed, TypeOK
<1>1. ASSUME EndRequest(w) PROVE FALSE
    BY <1>1 DEF EndRequest, Goto
<1>2. CASE Moves(w)
  <2>1. CASE \/ ClaimTaken(w) \/ AcceptCalls(w) \/ InsertLost(w) \/ UpdateRefused(w)
             \/ Acknowledge(w) \/ Fail(w)
      BY <2>1, <1>1 DEF ClaimTaken, AcceptCalls, InsertLost, UpdateRefused, Acknowledge,
                        Fail, Raise
  <2> QED
      BY <1>2, <2>1 DEF Moves, WorkerStep, Deliver, FindBatch, ClaimSelection,
         LoadPending, DropExpired, SelectCalls, SelectionFails, BeginExecution,
         SaveClarification, RejectRequest, StatementBlocks, InsertRecord, ReuseRecord,
         ApplyUpdate, RowFreed, UpdateMisses, Commit, SaveMissingTarget, ReadLedger,
         ClearPending, CompleteBatch, SendReply, Buffer, localVars
<1>3. ASSUME NEW v \in Worker \ {w}, Moves(v) PROVE job'[w] = job[w]
    BY <1>3, OneWorkerMoves DEF Others
<1>4. CASE UNCHANGED <<batch, pc, localVars>>
    BY <1>4 DEF localVars
<1> QED
    BY <1>2, <1>3, <1>4, StepKinds

(* Every statement of a batch whose writes are there finds them.           *)
LEMMA NothingToWrite ==
    ASSUME ReplyInv, NEW w \in Worker, InTransaction(w), Settled(job[w])
    PROVE  ~InsertRecord(w) /\ ~ApplyUpdate(w)
<1>1. plan[w] = batch[job[w]].calls
    BY DEF ReplyInv, IInv, Bound, ExecutesPersisted, Executing, InTransaction, Persisted
<1>2. \A i \in WriteIndexes(plan[w]) : KeyCommitted(<<job[w], i>>)
    BY <1>1 DEF Settled, AllWritten, KeyCommitted
<1> QED
    BY <1>2 DEF InsertRecord, ApplyUpdate

LEMMA LateStays ==
    ASSUME ReplyInv, [Next]_vars, NEW w \in Worker, LateWorker(w), pc'[w] # "idle"
    PROVE  LateWorker(w)'
<1> USE DEF ReplyInv, IInv
<1>0. job[w] \in Message /\ job'[w] = job[w] /\ pc[w] # "idle"
    BY JobKept DEF LateWorker, Typed, BusyHasJob
<1>1. Closed(job[w])'
  <2>1. \A m \in Message : m = job[w] => Closed(m)'
      BY ClosedStep DEF LateWorker
  <2> QED
      BY <1>0, <2>1
<1>2. Settled(job[w]) => Settled(job[w])'
  <2>1. \A m \in Message : m = job[w] /\ Settled(m) => Settled(m)'
      BY SettledStep
  <2> QED
      BY <1>0, <2>1
<1>3. ASSUME InTransaction(w)' PROVE Settled(job[w])
  <2>1. CASE InTransaction(w)
      BY <2>1 DEF LateWorker
  <2>2. CASE /\ pc[w] = "begin" /\ ~LegacyRow(job[w])
             /\ batch[job[w]].status # "completed"
    <3>1. batch[job[w]].calls # <<>> /\ Valid(batch[job[w]].calls)
        BY <2>2 DEF Bound, ExecutesPersisted, Executing, Persisted, Checked
    <3>2. ~Doomed(job[w])
        BY <1>0, <3>1, LegalNotDoomed
    <3> QED
        BY <2>2, <3>2 DEF LateWorker, Closed
  <2> QED
      BY <1>3, <2>1, <2>2, TransactionSteps
<1>4. pc'[w] \notin Claiming
  <2>1. CASE Moves(w)
    <3>1. CASE batch[job[w]].status = "none" /\ ~LegacyRow(job[w])
      <4>1. batch[job[w]].calls = <<>>
          BY <1>0, <3>1 DEF Bound, CallsOnceAccepted
      <4> QED
          BY <3>1, <4>1 DEF LateWorker, Closed, Settled, Doomed, Abandoned, Refused
    <3> QED
        BY <2>1, <3>1, ClaimMoves DEF LateWorker
  <2>2. CASE pc'[w] = pc[w]
      BY <2>2 DEF LateWorker
  <2>3. ASSUME NEW v \in Worker \ {w}, Moves(v) PROVE pc'[w] = pc[w]
      BY <2>3, OneWorkerMoves DEF Others
  <2> QED
      BY <2>1, <2>2, <2>3, StepKinds
<1>5. tx'[w] = {}
  <2>1. CASE Moves(w)
    <3>1. InsertRecord(w) \/ ApplyUpdate(w) => InTransaction(w)
        BY DEF InsertRecord, ApplyUpdate, InWriteTransaction, InTransaction
    <3>2. ~InsertRecord(w) /\ ~ApplyUpdate(w)
      <4> HIDE DEF ReplyInv, IInv
      <4> QED
          BY <3>1, NothingToWrite DEF LateWorker
    <3> QED
        BY <2>1, <3>2, OpenSteps DEF LateWorker
  <2>2. CASE tx'[w] = tx[w]
      BY <2>2 DEF LateWorker
  <2>3. ASSUME NEW v \in Worker \ {w}, Moves(v) PROVE tx'[w] = tx[w]
      BY <2>3, OneWorkerMoves DEF Others
  <2>4. CASE UNCHANGED <<batch, pc, localVars>>
      BY <2>2, <2>4 DEF localVars
  <2> QED
      BY <2>1, <2>2, <2>3, <2>4, StepKinds
<1> QED
    BY <1>1, <1>2, <1>3, <1>4, <1>5 DEF LateWorker

LEMMA LateStep ==
    ASSUME ReplyInv, LateInv, [HNext]_hvars
    PROVE  LateInv'
<1>0. [Next]_vars
    BY HistoryStep
<1>1. ASSUME NEW m \in Message, acked'[m] PROVE Closed(m)'
    BY <1>0, <1>1, AckCloses DEF LateInv
<1>2. ASSUME NEW w \in late, pc'[w] # "idle" PROVE w \in Worker /\ LateWorker(w)'
    BY <1>0, <1>2, LateStays DEF LateInv
<1>3. ASSUME NEW w \in Worker, NEW m \in Message, acked[m], Deliver(w, m)
      PROVE  LateWorker(w)'
  <2>1. /\ pc[w] = "idle" /\ pc'[w] = "find" /\ job'[w] = m /\ tx' = tx
      BY <1>3 DEF Deliver, Goto, ReplyInv, IInv, Typed, TypeOK
  <2>2. tx[w] = {}
      BY <2>1 DEF ReplyInv, IInv, Keyed, OwnWrites, InTransaction
  <2>3. Closed(m)'
      BY <1>0, <1>3, ClosedStep DEF LateInv, ReplyInv, IInv
  <2>4. \A k : k = m => Closed(k)'
      BY <2>3
  <2> QED
      BY <2>1, <2>2, <2>4 DEF LateWorker, Claiming, InTransaction
<1>4. CASE UNCHANGED hvars
    BY <1>1, <1>2, <1>4 DEF hvars, vars, LateInv, LateWorker
<1>5. CASE NoteLate
    BY <1>1, <1>2, <1>3, <1>5 DEF NoteLate, LateInv
<1> QED
    BY <1>4, <1>5 DEF HNext

(* A delivery that reaches the service when the provider has its 2xx, by a *)
(* timeout of an answer that was on its way, adds nothing to the ledger:   *)
(* whatever the batch row says by then, its statements find every row they *)
(* would insert, for any number of such deliveries and of crashes.         *)
THEOREM LateDeliveryIsHarmless == HSpec => []LateDeliveryWritesNothing
<1>1. HInit => ReplyInv /\ LateInv
    BY ReplyInvInit DEF HInit, Init, LateInv
<1>2. ReplyInv /\ LateInv /\ [HNext]_hvars => (ReplyInv /\ LateInv)'
    BY ReplyInvStep, LateStep, HistoryStep
<1>3. LateInv => LateDeliveryWritesNothing
    BY DEF LateInv, LateWorker, LateDeliveryWritesNothing
<1> QED
    BY <1>1, <1>2, <1>3, PTL DEF HSpec

=============================================================================
