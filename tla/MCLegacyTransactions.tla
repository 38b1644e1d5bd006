------------------------ MODULE MCLegacyTransactions ------------------------
(* Small instances of LegacyTransactions: one bill, two currencies, and a  *)
(* shop whose name may be given in full.                                   *)
EXTENDS LegacyTransactions
CONSTANTS m1, m2, m3, w1, w2, shop, branch
Lunch(cur, text) == [bill |-> "lunch", cur |-> cur, texts |-> {text}]
MCSimilar == {<<shop, branch>>}
MCSent == [m \in Message |-> IF m = m1 THEN 0 ELSE 1]

(* The second message changes the latest expense, and the parser may also  *)
(* read it as a question or as an expense like the first.  The third one   *)
(* corrects the currency of the first, or is a newer expense that comes in *)
(* while the second is on its way again.                                   *)
MCAnswer ==
    [m \in Message |->
        IF m = m1 THEN {Create(Lunch("SGD", shop))}
        ELSE IF m = m2 THEN {Update("bill", "dinner"), Create(Lunch("CNY", branch)), Query}
        ELSE {Create(Lunch("CNY", shop))}]
=============================================================================
