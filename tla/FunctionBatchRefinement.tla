---------------------- MODULE FunctionBatchRefinement ----------------------
(* FunctionBatch implements DeliveryContract, message by message.          *)
EXTENDS FunctionBatch

Phase == [none |-> "new", selecting |-> "claimed", accepted |-> "bound",
          writes_committed |-> "bound", completed |-> "answered"]

(* The calls of the message in the ledger, and what its user was told.     *)
WrittenCalls(m) == {e.call[2] : e \in WritesOf(m)}
KindsTold(m) == {r[2].kind : r \in {x \in replies : x[1] = m}}

Contract == INSTANCE DeliveryContract WITH
    Batch <- Proposal,
    Legal <- {calls \in Proposal : Valid(calls)},
    Writes <- [calls \in Proposal |-> WriteIndexes(calls)],
    phase <- [m \in Message |-> Phase[batch[m].status]],
    bound <- [m \in Message |-> batch[m].calls],
    written <- [m \in Message |-> WrittenCalls(m)],
    stored <- [m \in Message |-> batch[m].reply.kind],
    told <- [m \in Message |-> KindsTold(m)]

(* The request threads, the SQL, the crashes and the redeliveries together *)
(* do nothing but what DeliveryContract allows: one selection, one fixed   *)
(* batch, all its writes at once, one stored reply, whose kind is what     *)
(* everybody who asks is told (in whatever words, see OneReply), and a     *)
(* reported failure that leaves nothing behind.                            *)
ImplementsContract == Contract!Spec
=============================================================================
