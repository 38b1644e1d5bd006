------------------------ MODULE MCSpendingStatistics ------------------------
(* Small instances of SpendingStatistics.  Monday is day 35, the month     *)
(* began on day 32: day 31 is last month and last week, day 27 the week    *)
(* before.  Lunches are paid in USD, whose rate is missing on the weekend  *)
(* and late on working days.                                               *)
EXTENDS SpendingStatistics
CONSTANTS p1, w1, w2, ann, bob, team, home

MCProcessOf == [w \in Worker |-> p1]
At(u, c) == [user |-> u, chat |-> c]
MCPlace == {At(ann, team), At(bob, team), At(ann, home)}

C(d, amount, cur, cat, shop) ==
    [date |-> d, amount |-> amount, currency |-> cur, category |-> cat, merchant |-> shop]
MCLedger ==
    <<Written(1, At(bob, team), C(31, 2, "USD", "food", "cafe")),
      Written(2, At(ann, home), C(36, 4, "USD", "taxi", "cab")),
      Written(3, At(ann, team), C(36, 3, "USD", "food", "cafe")),
      None>>
MCContent == {C(36, 9, "SGD", "taxi", "cab"), C(27, 1, "USD", "taxi", "cafe")}
MCRate == [c \in {"USD"} |-> [d \in RateDay |-> IF d = 31 THEN 2 ELSE IF d = 35 THEN 3 ELSE 4]]

During(kind) == [kind |-> kind]
Custom(a, b) == [kind |-> "custom", from |-> a, to |-> b]
All == {"food", "taxi"}
Shops == {"cafe", "cab"}
Q(fn, u, c, own, periods, cats, shops, n) ==
    [fn |-> fn, user |-> u, chat |-> c, personal |-> own, periods |-> periods,
     categories |-> cats, merchants |-> shops, limit |-> n]

MCQuestion ==
    [w \in Worker |->
        IF w = w2 THEN {Q("summary", ann, home, FALSE, <<During("this_week")>>, All, Shops, 1)}
        ELSE {Q("compare", ann, team, FALSE, <<During("this_month"), During("last_month")>>, All, Shops, 1),
              Q("compare", bob, team, FALSE, <<During("yesterday"), During("last_week")>>, All, {"cafe"}, 1),
              Q("top", ann, team, TRUE, <<Custom(27, 36)>>, All, Shops, 1),
              Q("recent", bob, team, FALSE, <<>>, {"food"}, Shops, 2),
              Q("top", bob, team, FALSE, <<During("today")>>, All, Shops, 9)}]
=============================================================================
