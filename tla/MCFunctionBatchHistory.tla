----------------------- MODULE MCFunctionBatchHistory -----------------------
(* Small instances of FunctionBatchHistory.                                *)
EXTENDS FunctionBatchHistory

CONSTANTS m1, m2, w1, w2

(* Batches the previous revision may overtake, one of them refused by the  *)
(* executor and one by the server.                                         *)
RolloutProposals ==
    {<<"record">>, <<"record", "record">>, <<"update">>, <<"record", "bad">>}
=============================================================================
