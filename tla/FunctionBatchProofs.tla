------------------------ MODULE FunctionBatchProofs ------------------------
(***************************************************************************)
(* Theorems about FunctionBatch, for every value of its constants: types;  *)
(* each call of a batch is written at most once; the batch a message is    *)
(* bound to and its stored reply never change; and the writes of a batch   *)
(* become visible together, before anybody says "done".                    *)
(***************************************************************************)
EXTENDS FunctionBatch, TLAPS

(* A request in progress has a message: what an action writes about job[w] *)
(* is then about a message.                                                *)
BusyHasJob == \A w \in Worker : pc[w] # "idle" => job[w] \in Message

Typed == TypeOK /\ BusyHasJob

(* Replies built by the executor are replies.                              *)
LEMMA SaysType ==
    /\ Says("done") \in ReplySet /\ Says("clarify") \in ReplySet
    /\ Says("reject") \in ReplySet /\ Says("missing") \in ReplySet
    /\ Says("failed") \in ReplySet /\ Says("legacy") \in ReplySet
    /\ NoReply \in ReplySet
BY DEF Says, Reply, ReplySet, NoReply

(* Calls are sequences, and their write calls have positive positions.     *)
LEMMA CallIndexes ==
    ASSUME NEW calls \in Calls
    PROVE  /\ calls \in Seq(Call)
           /\ WriteIndexes(calls) \subseteq Nat \ {0}
<1>1. calls \in Seq(Call)
  <2>1. Proposal \subseteq Seq(Call)
      BY ConstantsAssumption
  <2>2. <<>> \in Seq(Call)
      OBVIOUS
  <2> QED
      BY <2>1, <2>2 DEF Calls
<1>2. DOMAIN calls = 1 .. Len(calls) /\ Len(calls) \in Nat
    BY <1>1
<1> QED
    BY <1>1, <1>2 DEF WriteIndexes

(* The rows an update may choose are calls.                                *)
LEMMA ChoicesType ==
    ASSUME TypeOK, NEW w \in Worker
    PROVE  Choices(w) \subseteq CallId \cup {NoTransaction}
<1>1. \A e \in Visible(w) : e \in Write
    BY DEF Visible, TypeOK
<1>2. \A e \in Latest(w) : e.call \in CallId
    BY <1>1 DEF Latest, Write
<1> QED
    BY <1>2 DEF Choices

LEMMA TypedInit == Init => Typed
<1> SUFFICES ASSUME Init PROVE Typed
    OBVIOUS
<1>1. NoReply \in ReplySet
    BY DEF NoReply, Reply, ReplySet
<1>2. batch \in [Message -> [status : Status, calls : Calls, reply : ReplySet]]
    BY <1>1 DEF Init, NoBatch, BatchRow, Status, Calls
<1> QED
    BY <1>1, <1>2 DEF Init, Typed, TypeOK, BusyHasJob, Label, Calls

-----------------------------------------------------------------------------
(* Type correctness, one action at a time *)

LEMMA TypedStep == Typed /\ [Next]_vars => Typed'
<1> SUFFICES ASSUME Typed, [Next]_vars PROVE Typed'
    OBVIOUS
<1> USE DEF Typed, TypeOK, BusyHasJob
<1> DEFINE EndType(w) ==
      /\ pc' \in [Worker -> Label] /\ job' \in [Worker -> Message \cup {NoMessage}]
      /\ plan' \in [Worker -> Calls] /\ next' \in [Worker -> Nat]
      /\ stamp' \in [Worker -> Nat] /\ goal' \in [Worker -> CallId \cup {NoTransaction}]
      /\ tx' \in [Worker -> SUBSET Write]
      /\ answer' \in [Worker -> ReplySet]
      /\ BusyHasJob'
<1>0. NoReply \in ReplySet
    BY DEF NoReply, Reply, ReplySet
<1>E. ASSUME NEW w \in Worker, EndRequest(w) PROVE EndType(w)
    BY <1>E, <1>0 DEF EndRequest, Goto, Label, Calls
<1>R. ASSUME NEW w \in Worker, Raise(w) PROVE Typed'
    BY <1>R, <1>E DEF Raise, dbVars, outVars
<1>1. ASSUME NEW w \in Worker, NEW m \in Message, Deliver(w, m) PROVE Typed'
    BY <1>1 DEF Deliver, Goto, Label, dbVars, outVars
<1>2. ASSUME NEW w \in Worker, FindBatch(w) PROVE Typed'
  <2>1. job[w] \in Message /\ batch[job[w]].calls \in Calls
        /\ batch[job[w]].reply \in ReplySet
      BY <1>2 DEF FindBatch
  <2>2. pc[w] # "idle" /\ \E label \in Label : Goto(w, label)
      BY <1>2 DEF FindBatch, StartExecutor, Return, Label
  <2>3. /\ pc' \in [Worker -> Label]
        /\ \A v \in Worker : pc'[v] # "idle" => pc[v] # "idle"
      BY <2>2 DEF Goto
  <2>4. answer' \in [Worker -> ReplySet]
      BY <1>2, <2>1, SaysType DEF FindBatch, StartExecutor, Return
  <2>5. plan' \in [Worker -> Calls]
      BY <1>2, <2>1 DEF FindBatch, StartExecutor
  <2> QED
      BY <1>2, <2>3, <2>4, <2>5 DEF FindBatch, dbVars, outVars
<1>3. ASSUME NEW w \in Worker, ClaimSelection(w) PROVE Typed'
  <2>1. job[w] \in Message /\ batch[job[w]].calls \in Calls
        /\ batch[job[w]].reply \in ReplySet
      BY <1>3 DEF ClaimSelection
  <2>2. BatchRow("selecting", <<>>, NoReply) \in
            [status : Status, calls : Calls, reply : ReplySet]
      BY SaysType DEF BatchRow, Status, Calls
  <2>3. batch' \in [Message -> [status : Status, calls : Calls, reply : ReplySet]]
      BY <1>3, <2>1, <2>2 DEF ClaimSelection
  <2>4. pc[w] # "idle" /\ \E label \in Label : Goto(w, label)
      BY <1>3 DEF ClaimSelection, StartExecutor, Return, Label
  <2>5. /\ pc' \in [Worker -> Label]
        /\ \A v \in Worker : pc'[v] # "idle" => pc[v] # "idle"
      BY <2>4 DEF Goto
  <2>6. answer' \in [Worker -> ReplySet]
      BY <1>3, <2>1, SaysType DEF ClaimSelection, StartExecutor, Return
  <2>7. plan' \in [Worker -> Calls]
      BY <1>3, <2>1 DEF ClaimSelection, StartExecutor
  <2> QED
      BY <1>3, <2>3, <2>5, <2>6, <2>7 DEF ClaimSelection, outVars
<1>4. ASSUME NEW w \in Worker, ClaimTaken(w) PROVE Typed'
    BY <1>4, <1>R DEF ClaimTaken
<1>5. ASSUME NEW w \in Worker, LoadPending(w) PROVE Typed'
    BY <1>5 DEF LoadPending, Goto, Label, localVars, dbVars, outVars
<1>6. ASSUME NEW w \in Worker, DropExpired(w) PROVE Typed'
    BY <1>6 DEF DropExpired, RemovePending, Goto, Label, localVars, outVars
<1>7. ASSUME NEW w \in Worker, SelectCalls(w) PROVE Typed'
    BY <1>7 DEF SelectCalls, AskModel, Goto, Label, Calls, dbVars
<1>8. ASSUME NEW w \in Worker, SelectionFails(w) PROVE Typed'
    BY <1>8, SaysType DEF SelectionFails, AskModel, Return, Goto, Label, dbVars
<1>9. ASSUME NEW w \in Worker, AcceptCalls(w) PROVE Typed'
  <2>1. CASE ~ClaimHeld(batch[job[w]])
      BY <1>9, <2>1, <1>R DEF AcceptCalls
  <2>2. CASE ClaimHeld(batch[job[w]])
    <3>1. BatchRow("accepted", plan[w], NoReply) \in
              [status : Status, calls : Calls, reply : ReplySet]
        BY SaysType DEF BatchRow, Status
    <3>2. batch' \in [Message -> [status : Status, calls : Calls, reply : ReplySet]]
        BY <1>9, <2>2, <3>1 DEF AcceptCalls
    <3>3. answer' \in [Worker -> ReplySet] /\ plan' \in [Worker -> Calls]
        BY <1>9, <2>2, SaysType DEF AcceptCalls, StartExecutor, Return
    <3>4. pc[w] # "idle" /\ \E label \in Label : Goto(w, label)
        BY <1>9, <2>2 DEF AcceptCalls, StartExecutor, Return, Label
    <3>5. /\ pc' \in [Worker -> Label]
          /\ \A v \in Worker : pc'[v] # "idle" => pc[v] # "idle"
        BY <3>4 DEF Goto
    <3> QED
        BY <1>9, <2>2, <3>2, <3>3, <3>5 DEF AcceptCalls, outVars
  <2> QED
      BY <2>1, <2>2
<1>10. ASSUME NEW w \in Worker, BeginExecution(w) PROVE Typed'
  <2>1. job[w] \in Message /\ batch[job[w]].reply \in ReplySet
        /\ PersistedCalls(w) \in Calls
      BY <1>10 DEF BeginExecution, PersistedCalls
  <2>2. answer' \in [Worker -> ReplySet]
      BY <1>10, <2>1, SaysType DEF BeginExecution, Return
  <2>4. pc[w] # "idle" /\ \E label \in Label : Goto(w, label)
      BY <1>10 DEF BeginExecution, Return, Label
  <2>5. /\ pc' \in [Worker -> Label]
        /\ \A v \in Worker : pc'[v] # "idle" => pc[v] # "idle"
      BY <2>4 DEF Goto
  <2>3. plan' \in [Worker -> Calls]
      BY <1>10, <2>1 DEF BeginExecution
  <2>6. stamp' \in [Worker -> Nat] /\ clock' \in Nat
    <3>1. \/ UNCHANGED <<clock, stamp>>
          \/ clock' = clock + 1 /\ stamp' = [stamp EXCEPT ![w] = clock + 1]
        BY <1>10 DEF BeginExecution
    <3> QED
        BY <3>1
  <2> QED
      BY <1>10, <2>2, <2>3, <2>5, <2>6 DEF BeginExecution, dbVars
<1>11. ASSUME NEW w \in Worker, SaveClarification(w) PROVE Typed'
    BY <1>11, SaysType DEF SaveClarification, SavePending, Goto, Label, outVars
<1>12. ASSUME NEW w \in Worker, RejectRequest(w) PROVE Typed'
    BY <1>12, SaysType DEF RejectRequest, RemovePending, Goto, Label, outVars
<1>13. ASSUME NEW w \in Worker, StatementBlocks(w) PROVE Typed'
  <2>1. goal' \in [Worker -> CallId \cup {NoTransaction}]
      BY <1>13, ChoicesType DEF StatementBlocks
  <2> QED
      BY <1>13, <2>1 DEF StatementBlocks, Goto, Label, dbVars, outVars
<1>14. ASSUME NEW w \in Worker, InsertRecord(w) PROVE Typed'
  <2>1. PICK i \in WriteIndexes(plan[w]) :
          Buffer(w, i, [kind |-> "created", call |-> <<job[w], i>>,
                        at |-> stamp[w], on |-> <<job[w], i>>], "write")
      BY <1>14 DEF InsertRecord
  <2>2. i \in Nat /\ job[w] \in Message
      BY <1>14, CallIndexes DEF InsertRecord, InWriteTransaction
  <2> QED
      BY <2>1, <2>2 DEF Buffer, Write, CallId, Goto, Label, dbVars, outVars
<1>15. ASSUME NEW w \in Worker, ReuseRecord(w) PROVE Typed'
    BY <1>15, CallIndexes DEF ReuseRecord, dbVars, outVars
<1>16. ASSUME NEW w \in Worker, InsertLost(w) PROVE Typed'
    BY <1>16, <1>R DEF InsertLost
<1>17. ASSUME NEW w \in Worker, ApplyUpdate(w) PROVE Typed'
  <2>1. PICK i \in WriteIndexes(plan[w]), r \in Chosen(w) \ {NoTransaction} :
          Buffer(w, i, [kind |-> "updated", call |-> <<job[w], i>>,
                        at |-> stamp[w], on |-> r],
                 IF RowLocked(w, r) THEN "locked" ELSE "write")
      BY <1>17 DEF ApplyUpdate
  <2>2. i \in Nat /\ job[w] \in Message
      BY <1>17, CallIndexes DEF ApplyUpdate, InWriteTransaction
  <2>3. r \in CallId
      BY ChoicesType DEF Chosen
  <2>4. \E label \in {"write", "locked"} :
          Buffer(w, i, [kind |-> "updated", call |-> <<job[w], i>>,
                        at |-> stamp[w], on |-> r], label)
      BY <2>1
  <2> QED
      BY <2>2, <2>3, <2>4 DEF Buffer, Write, CallId, Goto, Label, dbVars, outVars
<1>17a. ASSUME NEW w \in Worker, RowFreed(w) PROVE Typed'
    BY <1>17a DEF RowFreed, Goto, Label, localVars, dbVars, outVars
<1>18. ASSUME NEW w \in Worker, UpdateMisses(w) PROVE Typed'
    BY <1>18 DEF UpdateMisses, InWriteTransaction, Goto, Label, dbVars, outVars
<1>19. ASSUME NEW w \in Worker, UpdateRefused(w) PROVE Typed'
    BY <1>19, <1>R DEF UpdateRefused
<1>20. ASSUME NEW w \in Worker, Commit(w) PROVE Typed'
  <2>1. job[w] \in Message
      BY <1>20 DEF Commit
  <2>2. MarkCommitted(batch[job[w]]) \in
            [status : Status, calls : Calls, reply : ReplySet]
      BY <2>1 DEF MarkCommitted, Status
  <2>3. batch' \in [Message -> [status : Status, calls : Calls, reply : ReplySet]]
      BY <1>20, <2>1, <2>2 DEF Commit
  <2>4. ledger' \subseteq Write /\ tx' \in [Worker -> SUBSET Write]
      BY <1>20 DEF Commit
  <2>5. /\ pc' \in [Worker -> Label] /\ answer' \in [Worker -> ReplySet]
        /\ \A v \in Worker : pc'[v] # "idle" => pc[v] # "idle"
      BY <1>20, SaysType DEF Commit, Goto, Label
  <2> QED
      BY <1>20, <2>3, <2>4, <2>5 DEF Commit, outVars
<1>21. ASSUME NEW w \in Worker, SaveMissingTarget(w) PROVE Typed'
    BY <1>21, SaysType DEF SaveMissingTarget, SavePending, Goto, Label, outVars
<1>22. ASSUME NEW w \in Worker, ReadLedger(w) PROVE Typed'
  <2>1. {e.call : e \in {d \in ledger : d.kind = "created"}} \in SUBSET CallId
      BY DEF Write
  <2>2. Reply("done", "ok", {e.call : e \in {d \in ledger : d.kind = "created"}})
            \in ReplySet
      BY <2>1 DEF Reply, ReplySet
  <2>3. Reply("done", "failed", {}) \in ReplySet
      BY DEF Reply, ReplySet
  <2>4. answer' \in [Worker -> ReplySet]
      BY <1>22, <2>2, <2>3 DEF ReadLedger
  <2>5. /\ pc' \in [Worker -> Label]
        /\ \A v \in Worker : pc'[v] # "idle" => pc[v] # "idle"
      BY <1>22 DEF ReadLedger, Goto, Label
  <2> QED
      BY <1>22, <2>4, <2>5 DEF ReadLedger, dbVars, outVars
<1>23. ASSUME NEW w \in Worker, ClearPending(w) PROVE Typed'
    BY <1>23 DEF ClearPending, RemovePending, Goto, Label, localVars, outVars
<1>24. ASSUME NEW w \in Worker, CompleteBatch(w) PROVE Typed'
  <2>1. job[w] \in Message /\ answer[w] \in ReplySet
      BY <1>24 DEF CompleteBatch
  <2>2. Completed(batch[job[w]], answer[w]) \in
            [status : Status, calls : Calls, reply : ReplySet]
    <3> HIDE DEF Typed, TypeOK, BusyHasJob
    <3>1. batch[job[w]] \in [status : Status, calls : Calls, reply : ReplySet]
        BY <2>1 DEF Typed, TypeOK
    <3>2. "completed" \in Status
        BY DEF Status
    <3> QED
        BY <2>1, <3>1, <3>2 DEF Completed
  <2>3. batch' \in [Message -> [status : Status, calls : Calls, reply : ReplySet]]
      BY <1>24, <2>1, <2>2 DEF CompleteBatch
  <2>4. /\ pc' \in [Worker -> Label]
        /\ \A v \in Worker : pc'[v] # "idle" => pc[v] # "idle"
      BY <1>24 DEF CompleteBatch, Goto, Label
  <2> QED
      BY <1>24, <2>3, <2>4 DEF CompleteBatch, localVars, outVars
<1>25. ASSUME NEW w \in Worker, SendReply(w) PROVE Typed'
    BY <1>25 DEF SendReply, Goto, Label, localVars, dbVars
<1>26. ASSUME NEW w \in Worker, Acknowledge(w) PROVE Typed'
    BY <1>26, <1>E DEF Acknowledge, dbVars
<1>27. ASSUME NEW w \in Worker, Fail(w) PROVE Typed'
    BY <1>27, <1>E, ConstantsAssumption DEF Fail, dbVars
<1>28. ASSUME ExpirePending PROVE Typed'
  <2>1. \A p \in pending : [p EXCEPT !.fresh = FALSE] \in [by : Message, fresh : BOOLEAN]
      OBVIOUS
  <2>2. pending' = {[p EXCEPT !.fresh = FALSE] : p \in pending}
      BY <1>28 DEF ExpirePending
  <2>3. pending' \subseteq [by : Message, fresh : BOOLEAN]
      BY <2>1, <2>2
  <2> QED
      BY <1>28, <2>3 DEF ExpirePending, localVars, outVars
<1>29. ASSUME NEW m \in Message, LegacyAppend(m) PROVE Typed'
    BY <1>29, SaysType DEF LegacyAppend, localVars, Write, CallId
<1>30. CASE UNCHANGED vars
    BY <1>30 DEF vars
<1> QED
    BY <1>1, <1>2, <1>3, <1>4, <1>5, <1>6, <1>7, <1>8, <1>9, <1>10, <1>11,
       <1>12, <1>13, <1>14, <1>15, <1>16, <1>17, <1>17a, <1>18, <1>19, <1>20, <1>21,
       <1>22, <1>23, <1>24, <1>25, <1>26, <1>27, <1>28, <1>29, <1>30,
       ConstantsAssumption
    DEF Next, WorkerStep

(* Every variable has its type, whatever the workers, messages, proposals  *)
(* and bounds are.                                                         *)
THEOREM TypeCorrect == Spec => []TypeOK
<1>1. Typed => TypeOK
    BY DEF Typed
<1> QED
    BY TypedInit, TypedStep, <1>1, PTL DEF Spec
-----------------------------------------------------------------------------
(* Each call is written once *)

(* execute_writes is on its way, or waits for a row.                       *)
InTransaction(w) == pc[w] \in {"write", "blocked", "locked"}

(* The open transactions hold writes of their worker's message, each of a  *)
(* call it is past, with a key nobody else holds and nobody has committed. *)
OwnWrites ==
    \A w \in Worker : \A e \in tx[w] :
        /\ InTransaction(w)
        /\ e.call[1] = job[w] /\ e.call[2] > 0 /\ e.call[2] < next[w]
        /\ \A d \in tx[w] : d.call = e.call => d = e

KeysFree ==
    \A w \in Worker : \A e \in tx[w] :
        /\ ~KeyCommitted(e.call)
        /\ \A v \in Worker \ {w} : \A d \in tx[v] : d.call # e.call

(* A row of the previous revision is a created transaction.                *)
LegacyCreates == \A e \in ledger : e.call[2] = 0 => e.kind = "created"

Keyed == OneWritePerCall /\ OwnWrites /\ KeysFree /\ LegacyCreates

(* The variables Keyed is about, for the steps that leave them alone.      *)
QuietStep ==
    /\ UNCHANGED <<ledger, tx, next>>
    /\ \A v \in Worker : InTransaction(v) =>
           InTransaction(v)' /\ job'[v] = job[v]

LEMMA KeyedQuiet == Keyed /\ QuietStep => Keyed'
BY DEF Keyed, QuietStep, OneWritePerCall, OwnWrites, KeysFree, LegacyCreates,
       KeyCommitted, InWriteTransaction, InTransaction

(* The steps that touch neither the ledger nor an open transaction.        *)
Quiet(w) ==
    \/ FindBatch(w) \/ ClaimSelection(w) \/ LoadPending(w) \/ DropExpired(w)
    \/ SelectCalls(w) \/ SelectionFails(w)
    \/ (AcceptCalls(w) /\ ClaimHeld(batch[job[w]]))
    \/ BeginExecution(w) \/ SaveClarification(w) \/ RejectRequest(w)
    \/ StatementBlocks(w) \/ RowFreed(w) \/ SaveMissingTarget(w) \/ ReadLedger(w)
    \/ ClearPending(w) \/ CompleteBatch(w) \/ SendReply(w)

LEMMA QuietDelivery ==
    ASSUME Typed, NEW w \in Worker, NEW m \in Message, Deliver(w, m)
    PROVE  QuietStep
BY DEF Typed, TypeOK, Deliver, Goto, QuietStep, InWriteTransaction, InTransaction, dbVars

LEMMA QuietActions ==
    ASSUME Typed, NEW w \in Worker, Quiet(w)
    PROVE  QuietStep
<1> USE DEF Typed, TypeOK
<1>2. CASE FindBatch(w)
    BY <1>2 DEF FindBatch, StartExecutor, Return, Goto, QuietStep,
                InWriteTransaction, InTransaction, dbVars
<1>3. CASE ClaimSelection(w)
  <2>1. pc[w] = "claim" /\ \E label \in Label : Goto(w, label)
      BY <1>3 DEF ClaimSelection, StartExecutor, Return, Label
  <2>2. UNCHANGED <<ledger, tx, next, job>>
      BY <1>3 DEF ClaimSelection
  <2> QED
      BY <2>1, <2>2 DEF Goto, QuietStep, InWriteTransaction, InTransaction
<1>4. CASE LoadPending(w) \/ DropExpired(w) \/ SelectCalls(w) \/ SelectionFails(w)
    BY <1>4 DEF LoadPending, DropExpired, SelectCalls, SelectionFails, Return, Goto,
                QuietStep, InWriteTransaction, InTransaction, dbVars, localVars
<1>5. CASE AcceptCalls(w) /\ ClaimHeld(batch[job[w]])
    BY <1>5 DEF AcceptCalls, StartExecutor, Return, Goto, QuietStep,
                InWriteTransaction, InTransaction
<1>6. CASE BeginExecution(w)
    BY <1>6 DEF BeginExecution, Return, Goto, QuietStep, InWriteTransaction, InTransaction, dbVars
<1>7. CASE SaveClarification(w) \/ RejectRequest(w) \/ SaveMissingTarget(w)
    BY <1>7 DEF SaveClarification, RejectRequest, SaveMissingTarget, Goto,
                QuietStep, InWriteTransaction, InTransaction
<1>8. CASE StatementBlocks(w) \/ RowFreed(w)
    BY <1>8 DEF StatementBlocks, RowFreed, Goto, QuietStep, InWriteTransaction, InTransaction, dbVars, localVars
<1>9. CASE ReadLedger(w) \/ ClearPending(w) \/ CompleteBatch(w) \/ SendReply(w)
    BY <1>9 DEF ReadLedger, ClearPending, CompleteBatch, SendReply, Goto,
                QuietStep, InWriteTransaction, InTransaction, dbVars, localVars
<1> QED
    BY <1>2, <1>3, <1>4, <1>5, <1>6, <1>7, <1>8, <1>9 DEF Quiet

(* A request that ends takes its open transaction with it.                 *)
LEMMA KeyedEnd ==
    ASSUME Typed, Keyed, NEW w \in Worker, EndRequest(w), UNCHANGED ledger
    PROVE  Keyed'
<1>1. /\ tx'[w] = {}
      /\ \A v \in Worker \ {w} : /\ tx'[v] = tx[v] /\ pc'[v] = pc[v]
                                 /\ job'[v] = job[v] /\ next'[v] = next[v]
    BY DEF EndRequest, Goto, Typed, TypeOK
<1>2. OwnWrites'
    BY <1>1 DEF Keyed, OwnWrites, InWriteTransaction, InTransaction
<1>3. KeysFree'
    BY <1>1 DEF Keyed, KeysFree, KeyCommitted
<1> QED
    BY <1>2, <1>3 DEF Keyed, OneWritePerCall, LegacyCreates

(* A statement adds a write whose key is free.                             *)
LEMMA KeyedBuffer ==
    ASSUME Typed, Keyed, NEW w \in Worker, NEW i \in WriteIndexes(plan[w]),
           NEW e \in Write, e.call = <<job[w], i>>,
           NEW label \in {"write", "locked"},
           InWriteTransaction(w), IsNextWrite(w, i),
           ~HeldByOther(w, e.call), ~KeyCommitted(e.call), Buffer(w, i, e, label)
    PROVE  Keyed'
<1>1. i \in Nat \ {0} /\ next[w] \in Nat /\ i >= next[w]
    BY CallIndexes DEF Typed, TypeOK, IsNextWrite, Remaining
<1>2. e.call[1] = job[w] /\ e.call[2] = i
    OBVIOUS
<1>3. /\ tx'[w] = tx[w] \cup {e} /\ next'[w] = i + 1
      /\ pc'[w] = label /\ job' = job /\ ledger' = ledger
      /\ \A v \in Worker \ {w} : /\ tx'[v] = tx[v] /\ pc'[v] = pc[v]
                                 /\ next'[v] = next[v]
    BY DEF Buffer, Goto, dbVars, Typed, TypeOK
<1>4. \A d \in tx[w] : d.call[2] \in Nat /\ d.call[2] < next[w]
    BY DEF Keyed, OwnWrites, Typed, TypeOK, Write, CallId
<1>5. \A d \in tx[w] : d.call # e.call
    BY <1>1, <1>2, <1>4
<1>6. OwnWrites'
  <2> SUFFICES ASSUME NEW v \in Worker, NEW d \in tx'[v]
               PROVE  /\ InTransaction(v)'
                      /\ d.call[1] = job'[v] /\ d.call[2] > 0 /\ d.call[2] < next'[v]
                      /\ \A c \in tx'[v] : c.call = d.call => c = d
      BY DEF OwnWrites
  <2>1. CASE v # w
      BY <2>1, <1>3 DEF Keyed, OwnWrites, InWriteTransaction, InTransaction
  <2>2. CASE v = w /\ d = e
      BY <2>2, <1>1, <1>2, <1>3, <1>5 DEF InWriteTransaction, InTransaction
  <2>3. CASE v = w /\ d \in tx[w]
    <3>1. d.call[2] < next'[w]
        BY <2>3, <1>1, <1>3, <1>4
    <3>2. d.call[1] = job[w] /\ d.call[2] > 0
          /\ \A c \in tx[w] : c.call = d.call => c = d
        BY <2>3 DEF Keyed, OwnWrites
    <3> QED
        BY <2>3, <3>1, <3>2, <1>3, <1>5 DEF InWriteTransaction, InTransaction
  <2> QED
      BY <2>1, <2>2, <2>3, <1>3
<1>7. KeysFree'
    BY <1>3 DEF Keyed, KeysFree, KeyCommitted, HeldByOther
<1> QED
    BY <1>3, <1>6, <1>7 DEF Keyed, OneWritePerCall, LegacyCreates

LEMMA KeyedInit == Init => Keyed
BY DEF Init, Keyed, OneWritePerCall, OwnWrites, KeysFree, LegacyCreates

LEMMA KeyedStep == Typed /\ Keyed /\ [Next]_vars => Keyed'
<1> SUFFICES ASSUME Typed, Keyed, [Next]_vars PROVE Keyed'
    OBVIOUS
<1>0. ASSUME NEW w \in Worker, NEW m \in Message, Deliver(w, m) PROVE Keyed'
    BY <1>0, QuietDelivery, KeyedQuiet
<1>1. ASSUME NEW w \in Worker, Quiet(w) PROVE Keyed'
    BY <1>1, QuietActions, KeyedQuiet
<1>2. ASSUME NEW w \in Worker,
             \/ ClaimTaken(w) \/ (AcceptCalls(w) /\ ~ClaimHeld(batch[job[w]]))
             \/ InsertLost(w) \/ UpdateRefused(w) \/ Acknowledge(w) \/ Fail(w)
      PROVE  Keyed'
  <2>1. EndRequest(w) /\ UNCHANGED ledger
      BY <1>2 DEF ClaimTaken, AcceptCalls, InsertLost, UpdateRefused,
                  Acknowledge, Fail, Raise, dbVars
  <2> QED
      BY <2>1, KeyedEnd
<1>3. ASSUME NEW w \in Worker, InsertRecord(w) PROVE Keyed'
  <2>1. PICK i \in WriteIndexes(plan[w]) :
          LET c == <<job[w], i>> IN
          /\ IsNextWrite(w, i) /\ ~HeldByOther(w, c) /\ ~KeyCommitted(c)
          /\ Buffer(w, i, [kind |-> "created", call |-> c, at |-> stamp[w], on |-> c],
                    "write")
      BY <1>3 DEF InsertRecord
  <2>2. InWriteTransaction(w) /\ <<job[w], i>> \in CallId /\ stamp[w] \in Nat
      BY <1>3, CallIndexes
      DEF InsertRecord, InWriteTransaction, InTransaction, Typed, TypeOK, BusyHasJob, CallId
  <2>3. [kind |-> "created", call |-> <<job[w], i>>, at |-> stamp[w],
         on |-> <<job[w], i>>] \in Write
      BY <2>2 DEF Write
  <2> QED
      BY <2>1, <2>2, <2>3, KeyedBuffer
<1>4. ASSUME NEW w \in Worker, ReuseRecord(w) PROVE Keyed'
  <2>1. PICK i \in WriteIndexes(plan[w]) :
          IsNextWrite(w, i) /\ next' = [next EXCEPT ![w] = i + 1]
      BY <1>4 DEF ReuseRecord
  <2>2. i \in Nat /\ next[w] \in Nat /\ i >= next[w]
      BY <2>1, CallIndexes DEF Typed, TypeOK, IsNextWrite, Remaining
  <2>3. UNCHANGED <<ledger, tx, pc, job>>
      BY <1>4 DEF ReuseRecord, dbVars
  <2>4. \A v \in Worker : next[v] \in Nat /\ next'[v] \in Nat /\ next[v] <= next'[v]
      BY <2>1, <2>2 DEF Typed, TypeOK
  <2>5. \A v \in Worker : \A e \in tx[v] : e.call[2] \in Nat
      BY DEF Typed, TypeOK, Write, CallId
  <2>6. OwnWrites'
    <3> SUFFICES ASSUME NEW v \in Worker, NEW e \in tx[v] PROVE e.call[2] < next'[v]
        BY <2>3 DEF Keyed, OwnWrites, InWriteTransaction, InTransaction
    <3>1. e.call[2] < next[v]
        BY DEF Keyed, OwnWrites
    <3> QED
        BY <3>1, <2>4, <2>5
  <2> QED
      BY <2>3, <2>6 DEF Keyed, OneWritePerCall, KeysFree, KeyCommitted, LegacyCreates
<1>5. ASSUME NEW w \in Worker, ApplyUpdate(w) PROVE Keyed'
  <2>1. PICK i \in WriteIndexes(plan[w]), r \in Chosen(w) \ {NoTransaction} :
          LET c == <<job[w], i>> IN
          /\ IsNextWrite(w, i) /\ ~HeldByOther(w, c) /\ ~KeyCommitted(c)
          /\ Buffer(w, i, [kind |-> "updated", call |-> c, at |-> stamp[w],
                           on |-> r],
                    IF RowLocked(w, r) THEN "locked" ELSE "write")
      BY <1>5 DEF ApplyUpdate
  <2>2. InWriteTransaction(w) /\ <<job[w], i>> \in CallId /\ stamp[w] \in Nat
      BY <1>5, CallIndexes
      DEF ApplyUpdate, InWriteTransaction, InTransaction, Typed, TypeOK, BusyHasJob, CallId
  <2>3. r \in CallId
      BY ChoicesType DEF Chosen, Typed, TypeOK
  <2>4. [kind |-> "updated", call |-> <<job[w], i>>, at |-> stamp[w],
         on |-> r] \in Write
      BY <2>2, <2>3 DEF Write
  <2> QED
      BY <2>1, <2>2, <2>4, KeyedBuffer
<1>6. ASSUME NEW w \in Worker, UpdateMisses(w) PROVE Keyed'
  <2>1. /\ tx'[w] = {} /\ UNCHANGED <<ledger, job, next>>
        /\ \A v \in Worker \ {w} : tx'[v] = tx[v] /\ pc'[v] = pc[v]
      BY <1>6 DEF UpdateMisses, Goto, dbVars, Typed, TypeOK
  <2>2. OwnWrites'
      BY <2>1 DEF Keyed, OwnWrites, InWriteTransaction, InTransaction
  <2>3. KeysFree'
      BY <2>1 DEF Keyed, KeysFree, KeyCommitted
  <2> QED
      BY <2>1, <2>2, <2>3 DEF Keyed, OneWritePerCall, LegacyCreates
<1>7. ASSUME NEW w \in Worker, Commit(w) PROVE Keyed'
  <2>1. /\ ledger' = ledger \cup tx[w] /\ tx'[w] = {} /\ UNCHANGED <<job, next>>
        /\ \A v \in Worker \ {w} : tx'[v] = tx[v] /\ pc'[v] = pc[v]
      BY <1>7 DEF Commit, Goto, Typed, TypeOK
  <2>2. OneWritePerCall'
      BY <2>1 DEF Keyed, OneWritePerCall, OwnWrites, KeysFree, KeyCommitted
  <2>3. OwnWrites'
      BY <2>1 DEF Keyed, OwnWrites, InWriteTransaction, InTransaction
  <2>4. KeysFree'
      BY <2>1 DEF Keyed, KeysFree, KeyCommitted
  <2>5. LegacyCreates'
      BY <2>1 DEF Keyed, LegacyCreates, OwnWrites
  <2> QED
      BY <2>2, <2>3, <2>4, <2>5 DEF Keyed
<1>8. ASSUME NEW m \in Message, LegacyAppend(m) PROVE Keyed'
  <2>1. UNCHANGED <<tx, pc, job, next>>
      BY <1>8 DEF LegacyAppend, localVars
  <2>2. CASE UNCHANGED ledger
      BY <2>1, <2>2 DEF Keyed, OneWritePerCall, OwnWrites, KeysFree, LegacyCreates,
                        KeyCommitted, InWriteTransaction, InTransaction
  <2>3. CASE ledger' # ledger
    <3> DEFINE row == [kind |-> "created", call |-> <<m, 0>>, at |-> clock + 1,
                       on |-> <<m, 0>>]
    <3>0. ledger' = ledger \cup {row}
        BY <1>8, <2>3 DEF LegacyAppend
    <3>1. row.kind = "created" /\ row.call = <<m, 0>> /\ row.call[2] = 0
        OBVIOUS
    <3> HIDE DEF row
    <3>2. \A e \in ledger : e.call # <<m, 0>>
      <4>1. ~\E e \in ledger : e.kind = "created" /\ e.call[1] = m
          BY <1>8, <2>3 DEF LegacyAppend
      <4> QED
          BY <4>1 DEF Keyed, LegacyCreates
    <3>3. OneWritePerCall' /\ LegacyCreates'
        BY <3>0, <3>1, <3>2 DEF Keyed, OneWritePerCall, LegacyCreates
    <3>4. OwnWrites'
        BY <2>1 DEF Keyed, OwnWrites, InWriteTransaction, InTransaction
    <3>5. \A w \in Worker : \A e \in tx[w] : e.call # <<m, 0>>
      <4> SUFFICES ASSUME NEW w \in Worker, NEW e \in tx[w], e.call = <<m, 0>>
                   PROVE  FALSE
          OBVIOUS
      <4>1. e.call[2] > 0
          BY DEF Keyed, OwnWrites
      <4> QED
          BY <4>1
    <3>6. KeysFree'
        BY <2>1, <3>0, <3>1, <3>5 DEF Keyed, KeysFree, KeyCommitted
    <3> QED
        BY <3>3, <3>4, <3>6 DEF Keyed
  <2> QED
      BY <2>2, <2>3
<1>9. CASE ExpirePending
    BY <1>9, KeyedQuiet DEF ExpirePending, QuietStep, localVars, InWriteTransaction, InTransaction
<1>10. CASE UNCHANGED vars
    BY <1>10, KeyedQuiet DEF vars, QuietStep, InWriteTransaction, InTransaction
<1>11. ASSUME NEW w \in Worker, WorkerStep(w) PROVE Keyed'
    BY <1>1, <1>2, <1>3, <1>4, <1>5, <1>6, <1>7, <1>11 DEF WorkerStep, Quiet
<1> QED
    BY <1>0, <1>2, <1>8, <1>9, <1>10, <1>11, ConstantsAssumption DEF Next

(* However often a message is delivered and its batch resumed, each of its *)
(* calls is written at most once.                                          *)
THEOREM WritesAreUnique == Spec => []OneWritePerCall
<1>1. Keyed => OneWritePerCall
    BY DEF Keyed
<1> QED
    BY TypedInit, TypedStep, KeyedInit, KeyedStep, <1>1, PTL DEF Spec

-----------------------------------------------------------------------------
(* The batch a message is bound to *)

(* A batch has calls from its acceptance on.                               *)
CallsOnceAccepted ==
    \A m \in Message :
        batch[m].calls = <<>> <=> batch[m].status \in {"none", "selecting"}

(* A selection that is about to be accepted is a batch.                    *)
SelectedIsBatch == \A w \in Worker : pc[w] = "accept" => plan[w] # <<>>

(* From the first statement of the executor on, a worker executes the      *)
(* persisted calls.                                                        *)
Executing == {"begin", "control", "write", "blocked", "locked", "no_target",
              "read", "clear", "complete"}

Persisted(w) ==
    batch[job[w]].calls # <<>> /\ plan[w] = batch[job[w]].calls

ExecutesPersisted == \A w \in Worker : pc[w] \in Executing => Persisted(w)

(* The loop of execute_writes has not started.                             *)
NotYetWriting == {"idle", "find", "claim", "load", "expire", "select", "accept",
                  "begin", "control"}

StartsAtFirst == \A w \in Worker : pc[w] \in NotYetWriting => next[w] = 1

Bound ==
    CallsOnceAccepted /\ SelectedIsBatch /\ ExecutesPersisted /\ StartsAtFirst

-----------------------------------------------------------------------------
(* What a step of w leaves alone, and what no step changes. *)

Moves(w) == WorkerStep(w) \/ Fail(w) \/ \E m \in Message : Deliver(w, m)

Others(w) ==
    \A v \in Worker \ {w} :
        /\ pc'[v] = pc[v] /\ job'[v] = job[v] /\ plan'[v] = plan[v]
        /\ next'[v] = next[v] /\ tx'[v] = tx[v] /\ answer'[v] = answer[v]

LEMMA OneWorkerMoves ==
    ASSUME Typed, NEW w \in Worker, Moves(w)
    PROVE  Others(w)
<1> USE DEF Typed, TypeOK
<1>1. ASSUME EndRequest(w) PROVE Others(w)
    BY <1>1 DEF EndRequest, Goto, Others
<1>2. CASE FindBatch(w) \/ \E m \in Message : Deliver(w, m)
    BY <1>2 DEF Deliver, FindBatch, StartExecutor, Return, Goto, Others
<1>3. CASE ClaimSelection(w) \/ BeginExecution(w)
    BY <1>3 DEF ClaimSelection, BeginExecution, StartExecutor, Return, Goto, Others
<1>4. CASE LoadPending(w) \/ DropExpired(w) \/ SelectCalls(w) \/ SelectionFails(w)
    BY <1>4 DEF LoadPending, DropExpired, SelectCalls, SelectionFails, Return, Goto,
                Others, localVars
<1>5. CASE AcceptCalls(w)
    BY <1>5, <1>1 DEF AcceptCalls, StartExecutor, Return, Goto, Others, Raise
<1>6. CASE SaveClarification(w) \/ RejectRequest(w) \/ SaveMissingTarget(w)
           \/ ReadLedger(w)
    BY <1>6 DEF SaveClarification, RejectRequest, SaveMissingTarget, ReadLedger,
                Goto, Others
<1>7. CASE StatementBlocks(w) \/ RowFreed(w) \/ ReuseRecord(w) \/ UpdateMisses(w)
           \/ Commit(w)
    BY <1>7 DEF StatementBlocks, RowFreed, ReuseRecord, UpdateMisses, Commit, Goto, Others,
                localVars
<1>8. CASE InsertRecord(w) \/ ApplyUpdate(w)
  <2>1. PICK i, e, label : Buffer(w, i, e, label)
      BY <1>8 DEF InsertRecord, ApplyUpdate
  <2> QED
      BY <2>1 DEF Buffer, Goto, Others
<1>9. CASE ClearPending(w) \/ CompleteBatch(w) \/ SendReply(w)
    BY <1>9 DEF ClearPending, CompleteBatch, SendReply, Goto, Others, localVars
<1>10. CASE ClaimTaken(w) \/ InsertLost(w) \/ UpdateRefused(w) \/ Acknowledge(w)
            \/ Fail(w)
    BY <1>10, <1>1 DEF ClaimTaken, InsertLost, UpdateRefused, Acknowledge, Fail, Raise
<1> QED
    BY <1>2, <1>3, <1>4, <1>5, <1>6, <1>7, <1>8, <1>9, <1>10
    DEF Moves, WorkerStep

(* Most steps leave the batch rows alone; five statements write one.       *)
BatchKept == batch' = batch

LEMMA BatchWriters ==
    ASSUME NEW w \in Worker, WorkerStep(w)
    PROVE  \/ BatchKept
           \/ ClaimSelection(w) \/ AcceptCalls(w) \/ Commit(w) \/ CompleteBatch(w)
BY DEF WorkerStep, BatchKept, FindBatch, ClaimTaken, LoadPending, DropExpired,
       SelectCalls, SelectionFails, BeginExecution, SaveClarification,
       RejectRequest, StatementBlocks, InsertRecord, ReuseRecord, InsertLost,
       ApplyUpdate, RowFreed, UpdateMisses, UpdateRefused, SaveMissingTarget,
       ReadLedger, ClearPending, SendReply, Acknowledge, Raise, Buffer, dbVars

LEMMA BatchSteps ==
    ASSUME Typed, [Next]_vars
    PROVE  \/ BatchKept
           \/ \E w \in Worker : /\ job[w] \in Message
                                /\ \/ ClaimSelection(w) \/ AcceptCalls(w)
                                   \/ Commit(w) \/ CompleteBatch(w)
<1>1. CASE UNCHANGED vars
    BY <1>1 DEF vars, BatchKept
<1>2. CASE ExpirePending
    BY <1>2 DEF ExpirePending, BatchKept
<1>3. ASSUME NEW m \in Message, LegacyAppend(m) PROVE BatchKept
    BY <1>3 DEF LegacyAppend, BatchKept
<1>4. ASSUME NEW w \in Worker, NEW m \in Message, Deliver(w, m) \/ Fail(w)
      PROVE  BatchKept
    BY <1>4 DEF Deliver, Fail, dbVars, BatchKept
<1>5. ASSUME NEW w \in Worker, Fail(w) PROVE BatchKept
    BY <1>5 DEF Fail, dbVars, BatchKept
<1>6. ASSUME NEW w \in Worker,
             ClaimSelection(w) \/ AcceptCalls(w) \/ Commit(w) \/ CompleteBatch(w)
      PROVE  job[w] \in Message
    BY <1>6 DEF ClaimSelection, AcceptCalls, Commit, CompleteBatch, Typed, BusyHasJob
<1> QED
    BY <1>1, <1>2, <1>3, <1>4, <1>5, <1>6, BatchWriters, ConstantsAssumption DEF Next

-----------------------------------------------------------------------------
(* What a statement does to the row of its message. *)

LEMMA BatchWrites ==
    ASSUME Typed, NEW w \in Worker, job[w] \in Message,
           ClaimSelection(w) \/ AcceptCalls(w) \/ Commit(w) \/ CompleteBatch(w)
    PROVE  /\ \A m \in Message \ {job[w]} : batch'[m] = batch[m]
           /\ LET b == batch[job[w]] c == batch'[job[w]] IN
              \/ c = b
              \/ /\ b.status = "none"
                 /\ c.status = "selecting" /\ c.calls = <<>> /\ c.reply = NoReply
              \/ /\ ClaimHeld(b) /\ pc[w] = "accept"
                 /\ c.status = "accepted" /\ c.calls = plan[w] /\ c.reply = NoReply
              \/ /\ b.status = "accepted"
                 /\ c.status = "writes_committed" /\ c.calls = b.calls
                 /\ c.reply = b.reply
              \/ /\ b.status \in {"accepted", "writes_committed"}
                 /\ pc[w] = "complete"
                 /\ c.status = "completed" /\ c.calls = b.calls
                 /\ c.reply = answer[w]
<1> USE DEF Typed, TypeOK
<1>1. CASE ClaimSelection(w)
    BY <1>1 DEF ClaimSelection, MayClaim, BatchRow
<1>2. CASE AcceptCalls(w)
    BY <1>2 DEF AcceptCalls, Raise, dbVars, BatchRow
<1>3. CASE Commit(w)
    BY <1>3 DEF Commit, MarkCommitted
<1>4. CASE CompleteBatch(w)
    BY <1>4 DEF CompleteBatch, Completed
<1> QED
    BY <1>1, <1>2, <1>3, <1>4

(* Once a reply is stored, no later execution of the batch changes it.     *)
LEMMA ReplyStep ==
    ASSUME Typed, [Next]_vars, NEW m \in Message, batch[m].status = "completed"
    PROVE  batch'[m] = batch[m]
<1>1. CASE BatchKept
    BY <1>1 DEF BatchKept
<1>2. ASSUME NEW w \in Worker, job[w] \in Message,
             ClaimSelection(w) \/ AcceptCalls(w) \/ Commit(w) \/ CompleteBatch(w)
      PROVE  batch'[m] = batch[m]
    BY <1>2, BatchWrites DEF ClaimHeld
<1> QED
    BY <1>1, <1>2, BatchSteps

(* Accepted calls stay the calls of the message.                           *)
LEMMA CallsStep ==
    ASSUME Typed, Bound, [Next]_vars, NEW m \in Message, batch[m].calls # <<>>
    PROVE  batch'[m].calls = batch[m].calls
<1>1. CASE BatchKept
    BY <1>1 DEF BatchKept
<1>2. ASSUME NEW w \in Worker, job[w] \in Message,
             ClaimSelection(w) \/ AcceptCalls(w) \/ Commit(w) \/ CompleteBatch(w)
      PROVE  batch'[m].calls = batch[m].calls
  <2>1. batch[m].status \notin {"none", "selecting"}
      BY DEF Bound, CallsOnceAccepted
  <2>2. CASE m # job[w]
      BY <1>2, <2>2, BatchWrites
  <2>3. CASE m = job[w]
      BY <1>2, <2>1, <2>3, BatchWrites DEF ClaimHeld
  <2> QED
      BY <2>2, <2>3
<1> QED
    BY <1>1, <1>2, BatchSteps

LEMMA CallsOnceAcceptedStep ==
    ASSUME Typed, Bound, [Next]_vars PROVE CallsOnceAccepted'
<1>1. CASE BatchKept
    BY <1>1 DEF BatchKept, Bound, CallsOnceAccepted
<1>2. ASSUME NEW w \in Worker, job[w] \in Message,
             ClaimSelection(w) \/ AcceptCalls(w) \/ Commit(w) \/ CompleteBatch(w)
      PROVE  CallsOnceAccepted'
  <2> SUFFICES ASSUME NEW m \in Message
               PROVE  batch'[m].calls = <<>> <=> batch'[m].status \in {"none", "selecting"}
      BY DEF CallsOnceAccepted
  <2>1. batch[m].calls = <<>> <=> batch[m].status \in {"none", "selecting"}
      BY DEF Bound, CallsOnceAccepted
  <2>2. CASE m # job[w]
      BY <1>2, <2>1, <2>2, BatchWrites
  <2>3. CASE m = job[w]
    <3>1. pc[w] = "accept" => plan[w] # <<>>
        BY DEF Bound, SelectedIsBatch
    <3> QED
        BY <1>2, <2>1, <2>3, <3>1, BatchWrites
        DEF ClaimHeld
  <2> QED
      BY <2>2, <2>3
<1> QED
    BY <1>1, <1>2, BatchSteps

-----------------------------------------------------------------------------
LEMMA BoundInit == Init => Bound
BY DEF Init, NoBatch, BatchRow, Bound, CallsOnceAccepted, SelectedIsBatch,
       ExecutesPersisted, Executing, StartsAtFirst, NotYetWriting

(* What a worker's own step makes true of it.                              *)
Ready(w) ==
    /\ pc[w] = "accept" => plan[w] # <<>>
    /\ pc[w] \in Executing => Persisted(w)
    /\ pc[w] \in NotYetWriting => next[w] = 1

LEMMA ReadyStep ==
    ASSUME Typed, Bound, NEW w \in Worker, [Next]_vars, Moves(w)
    PROVE  Ready(w)'
<1> USE DEF Ready, Executing, NotYetWriting, Persisted
<1>0. Ready(w)
    BY DEF Bound, SelectedIsBatch, ExecutesPersisted, StartsAtFirst
<1>1. job[w] \in Message /\ batch[job[w]].calls # <<>>
          => batch'[job[w]].calls = batch[job[w]].calls
    BY CallsStep
<1>2. ASSUME EndRequest(w) PROVE Ready(w)'
    BY <1>2 DEF EndRequest, Goto, Typed, TypeOK
<1>3. pc[w] # "idle" => job[w] \in Message
    BY DEF Typed, BusyHasJob
<1> USE DEF Typed, TypeOK
<1>4. CASE \E m \in Message : Deliver(w, m)
    BY <1>4, <1>0 DEF Deliver, Goto
<1>5. CASE FindBatch(w)
    BY <1>5, <1>0 DEF FindBatch, StartExecutor, Return, Goto, dbVars
<1>6. CASE ClaimSelection(w)
  <2>1. pc[w] = "claim" /\ job' = job /\ next' = next /\ next[w] = 1
      BY <1>6, <1>0 DEF ClaimSelection
  <2>2. \/ pc'[w] \in {"send", "load"}
        \/ /\ pc'[w] \in {"send", "begin"} /\ batch[job[w]].calls # <<>>
           /\ plan'[w] = batch[job[w]].calls
      BY <1>6, <1>3 DEF ClaimSelection, StartExecutor, Return, Goto, Bound,
                        CallsOnceAccepted
  <2> QED
      BY <2>1, <2>2, <1>1, <1>3
<1>7. CASE LoadPending(w) \/ DropExpired(w) \/ SelectionFails(w)
    BY <1>7, <1>0 DEF LoadPending, DropExpired, SelectionFails, Return, Goto, localVars
<1>8. CASE SelectCalls(w)
    BY <1>8, <1>0, ConstantsAssumption DEF SelectCalls, Goto
<1>9. CASE AcceptCalls(w)
  <2>1. CASE ~ClaimHeld(batch[job[w]])
      BY <2>1, <1>9, <1>2 DEF AcceptCalls, Raise
  <2>2. CASE ClaimHeld(batch[job[w]])
    <3>1. /\ job[w] \in Message /\ plan[w] # <<>> /\ next[w] = 1
          /\ job' = job /\ next' = next /\ plan'[w] = plan[w]
          /\ pc'[w] \in {"begin", "send"}
        BY <2>2, <1>9, <1>0, <1>3 DEF AcceptCalls, StartExecutor, Return, Goto
    <3>2. batch'[job[w]].calls = plan[w]
        BY <2>2, <3>1, <1>9 DEF AcceptCalls, BatchRow
    <3> QED
        BY <3>1, <3>2
  <2> QED
      BY <2>1, <2>2
<1>10. CASE BeginExecution(w)
  <2>1. /\ job[w] \in Message /\ Persisted(w) /\ next[w] = 1
        /\ job' = job /\ next' = next
      BY <1>10, <1>0, <1>3 DEF BeginExecution
  <2>2. plan'[w] = plan[w] /\ pc'[w] \in {"send", "control", "write"}
      BY <1>10, <2>1 DEF BeginExecution, PersistedCalls, Return, Goto
  <2> QED
      BY <2>1, <2>2, <1>1
<1>11. CASE SaveClarification(w) \/ RejectRequest(w) \/ SaveMissingTarget(w)
            \/ ReadLedger(w)
    BY <1>11, <1>0, <1>1, <1>3 DEF SaveClarification, RejectRequest,
       SaveMissingTarget, ReadLedger, Goto, dbVars
<1>12. CASE StatementBlocks(w) \/ RowFreed(w) \/ ReuseRecord(w) \/ UpdateMisses(w)
    BY <1>12, <1>0, <1>1, <1>3 DEF StatementBlocks, RowFreed, ReuseRecord, UpdateMisses, Goto,
       InWriteTransaction, InTransaction, dbVars, localVars
<1>13. CASE InsertRecord(w) \/ ApplyUpdate(w)
  <2>1. PICK label \in {"write", "locked"} :
          InWriteTransaction(w) /\ \E i, e : Buffer(w, i, e, label)
      BY <1>13 DEF InsertRecord, ApplyUpdate
  <2> QED
      BY <2>1, <1>0, <1>1, <1>3 DEF Buffer, Goto, InWriteTransaction, InTransaction, dbVars
<1>14. CASE Commit(w)
    BY <1>14, <1>0, <1>1, <1>3 DEF Commit, Goto
<1>15. CASE ClearPending(w) \/ CompleteBatch(w) \/ SendReply(w)
    BY <1>15, <1>0, <1>1, <1>3 DEF ClearPending, CompleteBatch, SendReply, Goto, localVars
<1>16. CASE ClaimTaken(w) \/ InsertLost(w) \/ UpdateRefused(w) \/ Acknowledge(w)
            \/ Fail(w)
    BY <1>16, <1>2 DEF ClaimTaken, InsertLost, UpdateRefused, Acknowledge, Fail, Raise
<1> QED
    BY <1>4, <1>5, <1>6, <1>7, <1>8, <1>9, <1>10, <1>11, <1>12, <1>13, <1>14, <1>15,
       <1>16 DEF Moves, WorkerStep

(* A step is one worker's, or leaves the workers and the batch rows alone. *)
LEMMA StepKinds ==
    ASSUME [Next]_vars
    PROVE  \/ \E w \in Worker : Moves(w)
           \/ UNCHANGED <<batch, pc, localVars>>
BY ConstantsAssumption
   DEF Next, Moves, ExpirePending, LegacyAppend, vars, localVars

LEMMA BoundStep == Typed /\ Bound /\ [Next]_vars => Bound'
<1> SUFFICES ASSUME Typed, Bound, [Next]_vars PROVE Bound'
    OBVIOUS
<1>1. \A v \in Worker : Ready(v)
    BY DEF Ready, Bound, SelectedIsBatch, ExecutesPersisted, StartsAtFirst
<1>2. ASSUME NEW v \in Worker PROVE Ready(v)'
  <2>1. CASE Moves(v)
      BY <2>1, ReadyStep
  <2>2. ASSUME NEW w \in Worker \ {v}, Moves(w) PROVE Ready(v)'
    <3>1. pc'[v] = pc[v] /\ plan'[v] = plan[v] /\ next'[v] = next[v]
          /\ job'[v] = job[v]
        BY <2>2, OneWorkerMoves DEF Others
    <3>2. pc[v] \in Executing => batch'[job[v]].calls = batch[job[v]].calls
        BY <1>1, CallsStep
        DEF Ready, Persisted, Executing, Typed, BusyHasJob
    <3> QED
        BY <3>1, <3>2, <1>1 DEF Ready, Persisted
  <2>3. CASE UNCHANGED <<batch, pc, localVars>>
      BY <2>3, <1>1 DEF Ready, Persisted, localVars
  <2> QED
      BY <2>1, <2>2, <2>3, StepKinds
<1>3. CallsOnceAccepted'
    BY CallsOnceAcceptedStep
<1> QED
    BY <1>2, <1>3
    DEF Ready, Bound, SelectedIsBatch, ExecutesPersisted, StartsAtFirst

LEMMA AlwaysBound == Spec => [](Typed /\ Bound)
BY TypedInit, TypedStep, BoundInit, BoundStep, PTL DEF Spec

(* Accepted calls never change, whoever claims or resumes the batch.       *)
THEOREM CallsAreFixed == Spec => AcceptedCallsFixed
<1>1. ASSUME Typed, Bound, [Next]_vars
      PROVE  \A m \in Message :
                 batch[m].calls # <<>> => batch'[m].calls = batch[m].calls
    BY <1>1, CallsStep
<1>2. Typed /\ Bound /\ [Next]_vars
        => [\A m \in Message :
               batch[m].calls # <<>> => batch'[m].calls = batch[m].calls]_vars
    BY <1>1
<1> QED
    BY <1>2, AlwaysBound, PTL DEF Spec, AcceptedCallsFixed

(* A stored reply stays the stored reply, though late executions complete  *)
(* the same batch again.                                                   *)
THEOREM ReplyIsFixed == Spec => StoredReplyFixed
<1>1. ASSUME Typed, [Next]_vars
      PROVE  \A m \in Message :
                 batch[m].status = "completed" => batch'[m] = batch[m]
    BY <1>1, ReplyStep
<1>2. Typed /\ [Next]_vars
        => [\A m \in Message :
               batch[m].status = "completed" => batch'[m] = batch[m]]_vars
    BY <1>1
<1> QED
    BY <1>2, AlwaysBound, PTL DEF Spec, StoredReplyFixed
-----------------------------------------------------------------------------
(* All the writes of a batch, or none *)

Settled(m) == batch[m].calls # <<>> /\ AllWritten(m)
Vouched(m, r) == r.kind = "done" => Settled(m)

(* The calls a write transaction is past are in it, or were committed.     *)
PastIsWritten(w) ==
    InTransaction(w) =>
        \A i \in WriteIndexes(plan[w]) : i < next[w] =>
            \/ KeyCommitted(<<job[w], i>>)
            \/ \E e \in tx[w] : e.call = <<job[w], i>>

(* A worker past the commit, or about to say "done", has all of it.        *)
Assured(w) ==
    /\ PastIsWritten(w)
    /\ pc[w] \in {"read", "clear"} => Settled(job[w])
    /\ pc[w] \in {"complete", "send", "ack"} => Vouched(job[w], answer[w])

Durable ==
    /\ \A e \in ledger : e.call[2] > 0 => Settled(e.call[1])
    /\ \A m \in Message : Vouched(m, batch[m].reply)
    /\ \A r \in replies : Vouched(r[1], r[2])
    /\ \A w \in Worker : Assured(w)

IInv == Typed /\ Keyed /\ Bound /\ Durable

-----------------------------------------------------------------------------
(* Nothing is ever taken out of the ledger, and what enters it is a commit *)
(* of a worker or a row of the previous revision.                          *)
LEMMA LedgerSteps ==
    ASSUME [Next]_vars
    PROVE  \/ ledger' = ledger
           \/ \E w \in Worker : Commit(w) /\ ledger' = ledger \cup tx[w]
           \/ \E m \in Legacy : \E e : /\ ledger' = ledger \cup {e} /\ LegacyAppend(m)
                                        /\ e.call = <<m, 0>> /\ batch' = batch
<1>1. ASSUME NEW w \in Worker, WorkerStep(w) \/ Fail(w)
      PROVE  ledger' = ledger \/ Commit(w)
    BY <1>1 DEF WorkerStep, FindBatch, ClaimSelection, ClaimTaken, LoadPending,
       DropExpired, SelectCalls, SelectionFails, AcceptCalls, BeginExecution,
       SaveClarification, RejectRequest, StatementBlocks, InsertRecord, ReuseRecord,
       InsertLost, ApplyUpdate, RowFreed, UpdateMisses, UpdateRefused, SaveMissingTarget,
       ReadLedger, ClearPending, CompleteBatch, SendReply, Acknowledge, Fail, Raise,
       Buffer, dbVars
<1>2. ASSUME NEW w \in Worker, Commit(w) PROVE ledger' = ledger \cup tx[w]
    BY <1>2 DEF Commit
<1>3. ASSUME NEW w \in Worker, NEW m \in Message, Deliver(w, m)
      PROVE  ledger' = ledger
    BY <1>3 DEF Deliver, dbVars
<1>4. ASSUME NEW m \in Legacy, LegacyAppend(m)
      PROVE  \/ ledger' = ledger
             \/ \E e : /\ ledger' = ledger \cup {e} /\ LegacyAppend(m)
                       /\ e.call = <<m, 0>> /\ batch' = batch
  <2> DEFINE row == [kind |-> "created", call |-> <<m, 0>>, at |-> clock + 1,
                     on |-> <<m, 0>>]
  <2>1. ledger' = ledger \/ ledger' = ledger \cup {row}
      BY <1>4 DEF LegacyAppend
  <2>2. batch' = batch
      BY <1>4 DEF LegacyAppend
  <2>3. row.call = <<m, 0>>
      OBVIOUS
  <2> HIDE DEF row
  <2> QED
      BY <1>4, <2>1, <2>2, <2>3
<1>5. CASE ExpirePending \/ UNCHANGED vars
    BY <1>5 DEF ExpirePending, vars
<1> QED
    BY <1>1, <1>2, <1>3, <1>4, <1>5, ConstantsAssumption DEF Next

LEMMA SettledStep ==
    ASSUME Typed, Bound, [Next]_vars, NEW m \in Message, Settled(m)
    PROVE  Settled(m)'
<1>1. ledger \subseteq ledger'
    BY LedgerSteps
<1>2. batch'[m].calls = batch[m].calls
    BY CallsStep DEF Settled
<1> QED
    BY <1>1, <1>2 DEF Settled, AllWritten

(* The transaction that commits has looked at every write of the batch.    *)
LEMMA CommitSettles ==
    ASSUME Typed, Bound, Durable, [Next]_vars, NEW w \in Worker, Commit(w)
    PROVE  Settled(job[w])'
<1>1. pc[w] = "write" /\ job[w] \in Message /\ Remaining(w) = {}
      /\ ledger' = ledger \cup tx[w]
    BY DEF Commit, Typed, BusyHasJob
<1>2. Persisted(w)
    BY <1>1 DEF Bound, ExecutesPersisted, Executing
<1>3. batch'[job[w]].calls = plan[w] /\ plan[w] # <<>>
    BY <1>1, <1>2, CallsStep DEF Persisted
<1>4. ASSUME NEW i \in WriteIndexes(plan[w])
      PROVE  \E e \in ledger' : e.call = <<job[w], i>>
  <2>1. i \in Nat /\ next[w] \in Nat
      BY CallIndexes DEF Typed, TypeOK
  <2>2. i < next[w]
      BY <1>1, <2>1 DEF Remaining
  <2> QED
      BY <1>1, <2>2 DEF Durable, Assured, PastIsWritten, InWriteTransaction, InTransaction, KeyCommitted
<1>5. job'[w] = job[w]
    BY DEF Commit
<1> QED
    BY <1>3, <1>4, <1>5 DEF Settled, AllWritten

-----------------------------------------------------------------------------
LEMMA DurableInit == Init => Durable
BY DEF Init, Durable, Vouched, Assured, PastIsWritten, InWriteTransaction, InTransaction, NoBatch,
       BatchRow, NoReply, Reply

(* The ledger holds whole batches.                                         *)
LEMMA LedgerStep ==
    ASSUME IInv, [Next]_vars
    PROVE  \A e \in ledger' : e.call[2] > 0 => Settled(e.call[1])'
<1>0. \A e \in ledger : e.call[1] \in Message
    BY DEF IInv, Typed, TypeOK, Write, CallId
<1>1. \A e \in ledger : e.call[2] > 0 => Settled(e.call[1])'
    BY <1>0, SettledStep DEF IInv, Durable
<1>2. ASSUME NEW w \in Worker, Commit(w), NEW e \in tx[w]
      PROVE  Settled(e.call[1])'
  <2>1. e.call[1] = job[w] /\ job'[w] = job[w]
      BY <1>2 DEF IInv, Keyed, OwnWrites, Commit
  <2> QED
      BY <1>2, <2>1, CommitSettles DEF IInv, Settled, AllWritten
<1>3. ASSUME NEW m \in Legacy, NEW e, e.call = <<m, 0>>
      PROVE  ~(e.call[2] > 0)
    BY <1>3
<1> QED
    BY <1>1, <1>2, <1>3, LedgerSteps

(* The stored replies: the reply of an execution past its commit.          *)
LEMMA StoredStep ==
    ASSUME IInv, [Next]_vars, NEW m \in Message
    PROVE  Vouched(m, batch[m].reply)'
<1> USE DEF IInv
<1>1. Vouched(m, batch[m].reply)
    BY DEF Durable
<1>2. Settled(m) => Settled(m)'
    BY SettledStep
<1>3. CASE batch'[m].reply = batch[m].reply
    BY <1>1, <1>2, <1>3 DEF Vouched
<1>4. ASSUME NEW w \in Worker, job[w] \in Message,
             ClaimSelection(w) \/ AcceptCalls(w) \/ Commit(w) \/ CompleteBatch(w)
      PROVE  \/ batch'[m].reply = batch[m].reply
             \/ batch'[m].reply = NoReply
             \/ m = job[w] /\ pc[w] = "complete" /\ batch'[m].reply = answer[w]
    BY <1>4, BatchWrites
<1>5. CASE batch'[m].reply = NoReply
    BY <1>5 DEF Vouched, NoReply, Reply
<1>6. ASSUME NEW w \in Worker, m = job[w], pc[w] = "complete",
             batch'[m].reply = answer[w]
      PROVE  Vouched(m, batch[m].reply)'
  <2>1. Vouched(m, answer[w])
      BY <1>6 DEF Durable, Assured
  <2> QED
      BY <2>1, <1>2, <1>6 DEF Vouched
<1> QED
    BY <1>3, <1>4, <1>5, <1>6, BatchSteps DEF BatchKept

(* The replies sent: what the sender had in hand.                          *)
LEMMA RepliesSteps ==
    ASSUME [Next]_vars
    PROVE  \/ replies' = replies
           \/ \E w \in Worker : /\ pc[w] = "send"
                                /\ replies' = replies \cup {<<job[w], answer[w]>>}
           \/ \E m \in Message : replies' = replies \cup {<<m, Says("legacy")>>}
<1>1. ASSUME NEW w \in Worker, WorkerStep(w) \/ Fail(w)
      PROVE  replies' = replies \/ SendReply(w)
    BY <1>1 DEF WorkerStep, FindBatch, ClaimSelection, ClaimTaken, LoadPending,
       DropExpired, SelectCalls, SelectionFails, AcceptCalls, BeginExecution,
       SaveClarification, RejectRequest, StatementBlocks, InsertRecord, ReuseRecord,
       InsertLost, ApplyUpdate, RowFreed, UpdateMisses, UpdateRefused, Commit,
       SaveMissingTarget, ReadLedger, ClearPending, CompleteBatch, Acknowledge, Fail,
       Raise, Buffer, outVars
<1>2. ASSUME NEW w \in Worker, SendReply(w)
      PROVE  pc[w] = "send" /\ replies' = replies \cup {<<job[w], answer[w]>>}
    BY <1>2 DEF SendReply
<1>3. ASSUME NEW w \in Worker, NEW m \in Message, Deliver(w, m)
      PROVE  replies' = replies
    BY <1>3 DEF Deliver, outVars
<1>4. ASSUME NEW m \in Message, LegacyAppend(m)
      PROVE  replies' = replies \cup {<<m, Says("legacy")>>}
    BY <1>4 DEF LegacyAppend
<1>5. CASE ExpirePending \/ UNCHANGED vars
    BY <1>5 DEF ExpirePending, outVars, vars
<1> QED
    BY <1>1, <1>2, <1>3, <1>4, <1>5, ConstantsAssumption DEF Next

LEMMA RepliesStep ==
    ASSUME IInv, [Next]_vars
    PROVE  \A r \in replies' : Vouched(r[1], r[2])'
<1> USE DEF IInv
<1>1. ASSUME NEW m \in Message, NEW r, Vouched(m, r) PROVE Vouched(m, r)'
    BY <1>1, SettledStep DEF Vouched
<1>2. \A r \in replies : Vouched(r[1], r[2])'
  <2>1. \A r \in replies : r[1] \in Message /\ Vouched(r[1], r[2])
      BY DEF Typed, TypeOK, Durable
  <2> QED
      BY <1>1, <2>1
<1>3. ASSUME NEW w \in Worker, pc[w] = "send"
      PROVE  Vouched(job[w], answer[w]) /\ job[w] \in Message
    BY <1>3 DEF Durable, Assured, Typed, BusyHasJob
<1>4. CASE replies' = replies
    BY <1>2, <1>4
<1>5. ASSUME NEW w \in Worker, pc[w] = "send",
             replies' = replies \cup {<<job[w], answer[w]>>}
      PROVE  \A r \in replies' : Vouched(r[1], r[2])'
  <2> DEFINE j == job[w] a == answer[w]
  <2>1. \A r \in replies' : r \in replies \/ (r[1] = j /\ r[2] = a)
      BY <1>5
  <2>2. j \in Message /\ Vouched(j, a)
      BY <1>3, <1>5
  <2>3. j \in Message /\ Settled(j) => \A m : m = j => Settled(m)'
      BY SettledStep
  <2> QED
      BY <1>2, <2>1, <2>2, <2>3 DEF Vouched
<1>6. ASSUME NEW m \in Message, replies' = replies \cup {<<m, Says("legacy")>>}
      PROVE  \A r \in replies' : Vouched(r[1], r[2])'
    BY <1>2, <1>6 DEF Vouched, Says, Reply
<1> QED
    BY <1>4, <1>5, <1>6, RepliesSteps

-----------------------------------------------------------------------------
LEMMA NotPast ==
    ASSUME NEW i \in Nat, NEW j \in Nat, NEW n \in Nat, j < i + 1, j >= n => i <= j
    PROVE  j = i \/ j < n
OBVIOUS

(* The mover itself, action by action.                                     *)
LEMMA MoverAssured ==
    ASSUME IInv, [Next]_vars, NEW w \in Worker, Moves(w)
    PROVE  Assured(w)'
<1> USE DEF IInv, Assured, PastIsWritten, InWriteTransaction, InTransaction
<1>0. Assured(w)
    BY DEF Durable
<1>1. /\ pc[w] # "idle" => job[w] \in Message
      /\ job[w] \in Message /\ Settled(job[w]) => \A m : m = job[w] => Settled(m)'
    BY SettledStep DEF Typed, BusyHasJob
<1>2. ASSUME NEW kind \in {"clarify", "reject", "missing", "failed", "legacy"},
             job'[w] = job[w], answer'[w] = Says(kind), pc'[w] \in {"complete", "send"}
      PROVE  Assured(w)'
    BY <1>2 DEF Vouched, Says, Reply
<1>3. ASSUME job'[w] = job[w], job[w] \in Message,
             answer'[w] = batch[job[w]].reply, pc'[w] = "send"
      PROVE  Assured(w)'
    BY <1>1, <1>3 DEF Vouched, Durable
<1>4. ASSUME pc'[w] \in {"idle", "find", "claim", "load", "expire", "select",
                         "accept", "begin", "control", "no_target"}
      PROVE  Assured(w)'
    BY <1>4
<1>5. ASSUME job'[w] = job[w], pc[w] # "idle", pc'[w] \in {"complete", "send", "ack"},
             answer'[w] = answer[w], Vouched(job[w], answer[w])
      PROVE  Assured(w)'
    BY <1>1, <1>5 DEF Vouched
<1>6. ASSUME job'[w] = job[w], pc[w] # "idle", pc'[w] \in {"read", "clear", "complete"},
             Settled(job[w])
      PROVE  Assured(w)'
    BY <1>1, <1>6 DEF Vouched
<1>7. ASSUME EndRequest(w) PROVE Assured(w)'
    BY <1>7, <1>4 DEF EndRequest, Goto, Typed, TypeOK
<1> USE DEF Typed, TypeOK
<1>8. CASE \E m \in Message : Deliver(w, m)
    BY <1>8, <1>4 DEF Deliver, Goto
<1>9. CASE FindBatch(w)
  <2>1. pc[w] = "find" /\ job' = job
      BY <1>9 DEF FindBatch
  <2>2. \/ answer'[w] = batch[job[w]].reply /\ pc'[w] = "send"
        \/ \E kind \in {"legacy", "failed"} : answer'[w] = Says(kind) /\ pc'[w] = "send"
        \/ pc'[w] \in {"begin", "claim"}
      BY <1>9 DEF FindBatch, StartExecutor, Return, Goto
  <2> QED
      BY <2>1, <2>2, <1>1, <1>2, <1>3, <1>4
<1>10. CASE ClaimSelection(w)
  <2>1. pc[w] = "claim" /\ job' = job
      BY <1>10 DEF ClaimSelection
  <2>2. \/ answer'[w] = batch[job[w]].reply /\ pc'[w] = "send"
        \/ \E kind \in {"legacy", "failed"} : answer'[w] = Says(kind) /\ pc'[w] = "send"
        \/ pc'[w] \in {"begin", "load"}
      BY <1>10 DEF ClaimSelection, StartExecutor, Return, Goto
  <2> QED
      BY <2>1, <2>2, <1>1, <1>2, <1>3, <1>4
<1>11. CASE LoadPending(w) \/ DropExpired(w) \/ SelectCalls(w)
    BY <1>11, <1>4 DEF LoadPending, DropExpired, SelectCalls, Goto
<1>12. CASE SelectionFails(w)
    BY <1>12, <1>2 DEF SelectionFails, Return, Goto
<1>13. CASE AcceptCalls(w)
  <2>1. CASE ~ClaimHeld(batch[job[w]])
      BY <2>1, <1>13, <1>7 DEF AcceptCalls, Raise
  <2>2. CASE ClaimHeld(batch[job[w]])
    <3>1. /\ job' = job
          /\ \/ pc'[w] = "begin"
             \/ answer'[w] = Says("failed") /\ pc'[w] = "send"
        BY <2>2, <1>13 DEF AcceptCalls, StartExecutor, Return, Goto
    <3> QED
        BY <3>1, <1>2, <1>4
  <2> QED
      BY <2>1, <2>2
<1>14. CASE BeginExecution(w)
  <2>1. pc[w] = "begin" /\ job' = job /\ tx' = tx /\ next' = next /\ next[w] = 1
      BY <1>14 DEF BeginExecution, Bound, StartsAtFirst, NotYetWriting
  <2>2. \/ answer'[w] = batch[job[w]].reply /\ pc'[w] = "send"
        \/ answer'[w] = Says("legacy") /\ pc'[w] = "send"
        \/ pc'[w] \in {"control", "write"}
      BY <1>14 DEF BeginExecution, Return, Goto
  <2>3. ASSUME pc'[w] = "write" PROVE Assured(w)'
    <3>1. WriteIndexes(plan'[w]) \subseteq Nat \ {0}
      <4>1. Typed'
          BY TypedStep
      <4>2. plan'[w] \in Calls
          BY <4>1
      <4> QED
          BY <4>2, CallIndexes
    <3> QED
        BY <2>1, <2>3, <3>1
  <2> QED
      BY <2>1, <2>2, <2>3, <1>1, <1>2, <1>3, <1>4
<1>15. CASE SaveClarification(w)
    BY <1>15, <1>2 DEF SaveClarification, Goto
<1>16. CASE RejectRequest(w)
    BY <1>16, <1>2 DEF RejectRequest, Goto
<1>17. CASE StatementBlocks(w) \/ RowFreed(w)
    BY <1>17, <1>0 DEF StatementBlocks, RowFreed, Goto, KeyCommitted, localVars, dbVars
<1>18. ASSUME NEW i \in WriteIndexes(plan[w]), IsNextWrite(w, i),
              InWriteTransaction(w), pc'[w] \in {"write", "locked"},
              next'[w] = i + 1,
              UNCHANGED <<ledger, job, plan>>, tx[w] \subseteq tx'[w],
              \/ KeyCommitted(<<job[w], i>>)
              \/ \E e \in tx'[w] : e.call = <<job[w], i>>
       PROVE  Assured(w)'
  <2>1. next[w] \in Nat /\ \A j \in WriteIndexes(plan[w]) : j \in Nat
      BY CallIndexes
  <2>2. ASSUME NEW j \in WriteIndexes(plan[w]), j < i + 1
        PROVE  j = i \/ j < next[w]
    <3>1. j >= next[w] => i <= j
        BY <1>18 DEF IsNextWrite, Remaining
    <3>2. i \in Nat /\ j \in Nat /\ next[w] \in Nat
        BY <2>1
    <3> QED
        BY <2>2, <3>1, <3>2, NotPast
  <2> QED
      BY <1>18, <1>0, <2>2 DEF KeyCommitted
<1>19. CASE InsertRecord(w)
  <2>1. PICK i \in WriteIndexes(plan[w]) :
          /\ InWriteTransaction(w) /\ IsNextWrite(w, i)
          /\ Buffer(w, i, [kind |-> "created", call |-> <<job[w], i>>,
                           at |-> stamp[w], on |-> <<job[w], i>>], "write")
      BY <1>19 DEF InsertRecord
  <2> DEFINE row == [kind |-> "created", call |-> <<job[w], i>>,
                     at |-> stamp[w], on |-> <<job[w], i>>]
  <2>2. tx'[w] = tx[w] \cup {row} /\ row.call = <<job[w], i>>
      BY <2>1 DEF Buffer
  <2>3. /\ pc'[w] = "write" /\ next'[w] = i + 1
        /\ UNCHANGED <<ledger, job, plan>>
      BY <2>1 DEF Buffer, Goto, dbVars
  <2>4. tx[w] \subseteq tx'[w] /\ \E e \in tx'[w] : e.call = <<job[w], i>>
    <3> HIDE DEF row
    <3> QED
        BY <2>2
  <2> QED
      BY <2>1, <2>3, <2>4, <1>18
<1>20. CASE ApplyUpdate(w)
  <2>1. PICK i \in WriteIndexes(plan[w]), r \in Chosen(w), label \in {"write", "locked"} :
          /\ InWriteTransaction(w) /\ IsNextWrite(w, i)
          /\ Buffer(w, i, [kind |-> "updated", call |-> <<job[w], i>>,
                           at |-> stamp[w], on |-> r], label)
      BY <1>20 DEF ApplyUpdate
  <2> DEFINE row == [kind |-> "updated", call |-> <<job[w], i>>,
                     at |-> stamp[w], on |-> r]
  <2>2. tx'[w] = tx[w] \cup {row} /\ row.call = <<job[w], i>>
      BY <2>1 DEF Buffer
  <2>3. /\ pc'[w] = label /\ next'[w] = i + 1
        /\ UNCHANGED <<ledger, job, plan>>
      BY <2>1 DEF Buffer, Goto, dbVars
  <2>4. tx[w] \subseteq tx'[w] /\ \E e \in tx'[w] : e.call = <<job[w], i>>
    <3> HIDE DEF row
    <3> QED
        BY <2>2
  <2> QED
      BY <2>1, <2>3, <2>4, <1>18
<1>21. CASE ReuseRecord(w)
    BY <1>21, <1>18 DEF ReuseRecord, dbVars
<1>22. CASE UpdateMisses(w)
    BY <1>22, <1>4 DEF UpdateMisses, Goto
<1>23. CASE Commit(w)
  <2>1. Settled(job[w])' /\ job' = job
      BY <1>23, CommitSettles DEF Commit
  <2>2. pc'[w] \in {"read", "clear"}
      BY <1>23 DEF Commit, Goto
  <2> QED
      BY <2>1, <2>2
<1>24. CASE SaveMissingTarget(w)
    BY <1>24, <1>2 DEF SaveMissingTarget, Goto
<1>25. CASE ReadLedger(w)
    BY <1>25, <1>0, <1>6 DEF ReadLedger, Goto
<1>26. CASE ClearPending(w)
    BY <1>26, <1>0, <1>6 DEF ClearPending, Goto, localVars
<1>27. CASE CompleteBatch(w) \/ SendReply(w)
    BY <1>27, <1>0, <1>5 DEF CompleteBatch, SendReply, Goto, localVars
<1>28. CASE ClaimTaken(w) \/ InsertLost(w) \/ UpdateRefused(w) \/ Acknowledge(w)
            \/ Fail(w)
    BY <1>28, <1>7 DEF ClaimTaken, InsertLost, UpdateRefused, Acknowledge, Fail, Raise
<1> QED
    BY <1>8, <1>9, <1>10, <1>11, <1>12, <1>13, <1>14, <1>15, <1>16, <1>17, <1>19,
       <1>20, <1>21, <1>22, <1>23, <1>24, <1>25, <1>26, <1>27, <1>28
    DEF Moves, WorkerStep

(* The others: what they had is still there.                               *)
LEMMA OthersAssured ==
    ASSUME IInv, [Next]_vars, NEW v \in Worker,
           pc'[v] = pc[v], job'[v] = job[v], plan'[v] = plan[v],
           next'[v] = next[v], tx'[v] = tx[v], answer'[v] = answer[v]
    PROVE  Assured(v)'
<1>1. Assured(v)
    BY DEF IInv, Durable
<1>2. ledger \subseteq ledger'
    BY LedgerSteps
<1>3. PastIsWritten(v)'
    BY <1>1, <1>2 DEF Assured, PastIsWritten, InWriteTransaction, InTransaction, KeyCommitted
<1>4. ASSUME pc[v] # "idle", Settled(job[v]) PROVE Settled(job[v])'
  <2>1. job[v] \in Message
      BY <1>4 DEF IInv, Typed, BusyHasJob
  <2>2. ASSUME NEW m \in Message, m = job[v] PROVE Settled(m)'
      BY <1>4, <2>2, SettledStep DEF IInv
  <2>3. \A m \in Message : m = job[v] => Settled(m)'
      BY <2>2
  <2> QED
      BY <2>1, <2>3
<1> QED
    BY <1>1, <1>3, <1>4 DEF Assured, Vouched

LEMMA IInvInit == Init => IInv
BY TypedInit, KeyedInit, BoundInit, DurableInit DEF IInv

LEMMA IInvStep == IInv /\ [Next]_vars => IInv'
<1> SUFFICES ASSUME IInv, [Next]_vars PROVE IInv'
    OBVIOUS
<1>1. Typed' /\ Keyed' /\ Bound'
    BY TypedStep, KeyedStep, BoundStep DEF IInv
<1>2. ASSUME NEW v \in Worker PROVE Assured(v)'
  <2>1. CASE Moves(v)
      BY <2>1, MoverAssured
  <2>2. ASSUME NEW w \in Worker \ {v}, Moves(w) PROVE Assured(v)'
    <3>1. Others(w)
        BY <2>2, OneWorkerMoves DEF IInv
    <3> QED
        BY <2>2, <3>1, OthersAssured DEF Others
  <2>3. CASE UNCHANGED <<batch, pc, localVars>>
      BY <2>3, OthersAssured DEF localVars
  <2> QED
      BY <2>1, <2>2, <2>3, StepKinds
<1>3. Durable'
    BY <1>2, LedgerStep, StoredStep, RepliesStep DEF Durable
<1> QED
    BY <1>1, <1>3 DEF IInv

-----------------------------------------------------------------------------
(* The writes of a batch become visible together: in every reachable state *)
(* of any number of workers, messages and failures, a ledger with one      *)
(* write of a message has every write its accepted batch asks for          *)
(* (execute_writes commits once, and a resume finds or adds the rest).     *)
THEOREM WholeBatches == Spec => []AllOrNothing
<1>1. IInv => AllOrNothing
  <2> SUFFICES ASSUME IInv, NEW m \in Message, NEW e \in WritesOf(m)
               PROVE  AllWritten(m)
      BY DEF AllOrNothing
  <2> QED
      BY DEF IInv, Durable, WritesOf, Settled
<1> QED
    BY <1>1, IInvInit, IInvStep, PTL DEF Spec

(* A user who was told "recorded" or "updated", by whichever delivery, has *)
(* every write of the accepted batch committed: no crash, race or resume   *)
(* lets the reply, stored or sent, run ahead of the ledger.                *)
THEOREM DoneIsDurable == Spec => []DoneMeansDurable
<1>1. IInv => DoneMeansDurable
    BY DEF IInv, Durable, Vouched, Settled, DoneMeansDurable, Told
<1> QED
    BY <1>1, IInvInit, IInvStep, PTL DEF Spec
=============================================================================
