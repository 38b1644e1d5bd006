------------------------ MODULE FunctionBatchHistory ------------------------
(***************************************************************************)
(* FunctionBatch with variables that remember how a state came about.  No  *)
(* action of the program reads them: they say what happened while a        *)
(* request was on its way, which the rows of the database do not show.     *)
(***************************************************************************)
EXTENDS FunctionBatch

VARIABLES
    raced,     \* legacy rows inserted while the batch was being executed
    late       \* requests delivered after the provider had its 2xx

hvars == <<vars, raced, late>>

HInit ==
    /\ Init
    /\ raced = {}
    /\ late = {}

(* A request is between begin_batch, where it looked for a legacy row, and *)
(* the end of execute_writes, which does not look again.                   *)
InExecution(m) ==
    \E w \in Worker : job[w] = m /\ pc[w] \in {"write", "blocked", "locked"}

NoteRace ==
    raced' = raced \cup
        {m \in Legacy : LegacyAppend(m) /\ ledger' # ledger /\ InExecution(m)}

NoteLate ==
    late' = {w \in late : pc'[w] # "idle"} \cup
        {w \in Worker : \E m \in Message : acked[m] /\ Deliver(w, m)}

HNext == Next /\ NoteRace /\ NoteLate

HSpec == HInit /\ [][HNext]_hvars

-----------------------------------------------------------------------------
(* Properties *)

(* One delivery is recorded by both revisions only if the previous one     *)
(* inserted its row while an execution of the batch was past begin_batch's *)
(* lookup of such rows and not yet committed: the lookup covers the rest.  *)
RecordedTwiceOnlyInRace ==
    \A d, e \in ledger :
        d.call[1] = e.call[1] /\ d.call[2] = 0 /\ e.call[2] > 0
            /\ e.kind = "created"
        => d.call[1] \in raced

(* A delivery that comes when the provider has its 2xx writes nothing:     *)
(* whatever the batch row says by then (completed, failed and left as it   *)
(* was, overtaken by the previous revision), nothing is left to execute.   *)
LateDeliveryWritesNothing == \A w \in late : tx[w] = {}
=============================================================================
