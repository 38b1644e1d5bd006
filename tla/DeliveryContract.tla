-------------------------- MODULE DeliveryContract --------------------------
(***************************************************************************)
(* What the function-batch path promises about one inbound message, with   *)
(* no worker, crash, redelivery or SQL in sight: one selection, one fixed  *)
(* batch, all of its writes at once, then one stored reply, and the user   *)
(* hears either a reply of its kind (the text is left out) or a failure    *)
(* that left nothing behind.                                               *)
(* FunctionBatchRefinement shows that the code's protocol implements it.   *)
(***************************************************************************)
CONSTANTS
    Message,    \* inbound messages
    Batch,      \* the batches the model may select
    Legal,      \* those the executor accepts
    Writes      \* the calls of a batch that write: a function of the batch

VARIABLES
    phase,      \* new, claimed, bound, answered
    bound,      \* the batch the message is bound to
    written,    \* the calls of that batch whose writes are in the ledger
    stored,     \* the kind of the stored reply
    told        \* the kinds of reply the user got

contractVars == <<phase, bound, written, stored, told>>

NoBatchYet == <<>>
Kind == {"done", "clarify", "reject"}

Init ==
    /\ phase = [m \in Message |-> "new"]
    /\ bound = [m \in Message |-> NoBatchYet]
    /\ written = [m \in Message |-> {}]
    /\ stored = [m \in Message |-> "none"]
    /\ told = [m \in Message |-> {}]

(* One request gets the right to ask the model.                            *)
Claim(m) ==
    /\ phase[m] = "new"
    /\ phase' = [phase EXCEPT ![m] = "claimed"]
    /\ UNCHANGED <<bound, written, stored, told>>

(* Its selection is bound to the message for good.                         *)
Bind(m, b) ==
    /\ phase[m] = "claimed" /\ told[m] = {}
    /\ phase' = [phase EXCEPT ![m] = "bound"]
    /\ bound' = [bound EXCEPT ![m] = b]
    /\ UNCHANGED <<written, stored, told>>

(* No batch, or one that is not legal: the user hears of a failure.        *)
TellFailure(m) ==
    /\ phase[m] = "claimed" \/ (phase[m] = "bound" /\ bound[m] \notin Legal)
    /\ told' = [told EXCEPT ![m] = @ \cup {"failed"}]
    /\ UNCHANGED <<phase, bound, written, stored>>

(* All the writes of the batch, once.                                      *)
WriteAll(m) ==
    /\ phase[m] = "bound" /\ bound[m] \in Legal
    /\ written[m] = {}
    /\ written' = [written EXCEPT ![m] = Writes[bound[m]]]
    /\ UNCHANGED <<phase, bound, stored, told>>

Answer(m, kind) ==
    /\ phase[m] = "bound" /\ bound[m] \in Legal
    /\ written[m] = Writes[bound[m]]
    /\ phase' = [phase EXCEPT ![m] = "answered"]
    /\ stored' = [stored EXCEPT ![m] = kind]
    /\ UNCHANGED <<bound, written, told>>

(* Any number of times, to any number of redeliveries.                     *)
Tell(m) ==
    /\ phase[m] = "answered"
    /\ told' = [told EXCEPT ![m] = @ \cup {stored[m]}]
    /\ UNCHANGED <<phase, bound, written, stored>>

Next ==
    \E m \in Message :
        \/ Claim(m)
        \/ \E b \in Batch : Bind(m, b)
        \/ TellFailure(m)
        \/ WriteAll(m)
        \/ \E kind \in Kind : Answer(m, kind)
        \/ Tell(m)

Spec == Init /\ [][Next]_contractVars

-----------------------------------------------------------------------------
(* What the user may conclude: after a failure nothing was written and     *)
(* nothing else is said; after the reply everything was written.           *)
Promise ==
    \A m \in Message :
        /\ "failed" \in told[m] => told[m] = {"failed"} /\ written[m] = {}
        /\ "done" \in told[m] => written[m] = Writes[bound[m]]
=============================================================================
