-------------------------- MODULE MCFunctionBatch --------------------------
(* Small instances of FunctionBatch: what the model may select in each run. *)
EXTENDS FunctionBatchRefinement, TLC

CONSTANTS m1, m2, w1, w2

Record == <<"record">>
Update == <<"update">>
Clarify == <<"clarify">>
Reject == <<"reject">>
JustRecord == {Record}
JustUpdate == {Update}

(* Two writes of which one could be missing, a read before the write it    *)
(* must see, a batch that is not valid, one that the server refuses, and   *)
(* both control calls.                                                     *)
DeliveryProposals ==
    {<<"record", "record">>, <<"read", "record">>, <<"record", "bad">>,
     Update, Clarify, Reject}

(* Updates of a row another message wrote and of the batch's own row. An   *)
(* update without a target, and clarify, leave a pending request behind.   *)
UpdateProposals == {Update, <<"update", "record", "update">>, Clarify}

(* A read whose answer depends on the moment it is taken. *)
ReadAndRecord == {<<"read", "record">>}

(* Workers are ordered by nothing. Messages are not interchangeable where  *)
(* one of them is in Legacy.                                               *)
Symmetry == Permutations({w1, w2})
=============================================================================
