----------------------------- MODULE MCBackfill -----------------------------
(* An instance of Backfill: two messages of one user.                      *)
EXTENDS Backfill, TLC

CONSTANTS m1, m2

MCMessage == {m1, m2}
MCUserOf == (m1 :> "ann") @@ (m2 :> "ann")

Says(month, amount) ==
    [month |-> month, amount |-> amount, currency |-> "SGD", category |-> "food",
     merchant |-> "none"]
MCSaid == {Says(1, 2), Says(1, 3)}
MCContent == MCSaid \cup {Says(1, 4), Says(2, 4)}

Old(i, m, made, c) ==
    [id |-> <<"google_sheets", i>>, msg |-> m, made |-> made, changed |-> made, is |-> c]

(* Clean; two latest rows; an id twice; a message twice; a row without     *)
(* metadata; an amount finer than PostgreSQL keeps.                        *)
MCStart ==
    {<<Old(m1, m1, 0, Says(2, 4)), Old(m2, m2, 1, Says(1, 2))>>,
     <<Old(m1, m1, 1, Says(1, 2)), Old(m2, m2, 1, Says(1, 2))>>,
     <<Old(m1, m1, 0, Says(1, 2)), Old(m1, m2, 1, Says(1, 2))>>,
     <<Old(m1, m1, 0, Says(1, 2)), Old(NoMessage, m1, 0, Says(1, 2))>>,
     <<Old(m1, m1, 0, Says(1, 2)), Old(NoMessage, NoMessage, 1, Says(1, 2))>>,
     <<Old(m1, m1, 0, Says(1, 3))>>}

MCSymmetry == Permutations(Runner) \cup Permutations(Job)
=============================================================================
