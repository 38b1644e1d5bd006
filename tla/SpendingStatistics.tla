------------------------ MODULE SpendingStatistics ------------------------
(***************************************************************************)
(* Spending statistics over the PostgreSQL ledger, in one currency.        *)
(*                                                                         *)
(*   core/function_batch_executor.py        a read call: scope and period  *)
(*   core/statistics.py                     sums, comparisons and lists    *)
(*   integrations/postgres/repository.py    the queries, one snapshot each *)
(*   integrations/exchange_rates.py         rates, cached in the process   *)
(*                                                                         *)
(* A worker is a thread that answers one read call.  Between its queries   *)
(* and its HTTP calls the ledger is written, the provider publishes rates  *)
(* and other threads of the process fill the same cache.                   *)
(***************************************************************************)
EXTENDS Integers, Sequences, FiniteSets, FiniteSetsExt

CONSTANTS
    Worker, Process, ProcessOf,  \* threads, and the process of each
    Place,        \* who may write where: [user, chat]
    Group,        \* chats that are group conversations; the others are private
    Day,          \* the days on which anything happens; d % 7 = 0 is a Monday
    MonthStart,   \* first days of months, from before the last of any day
    Home,         \* the currency of the statistics
    Rate,         \* rate of a foreign currency on a day, into Home
    Lookback,     \* lookback_days
    MaxRange,     \* MAX_STATISTICS_RANGE_DAYS
    MaxLimit,     \* upper bound of a list limit
    Question,     \* read calls, with their messages, that each thread may get
    Ledger0,      \* the ledger at the start, a function on ids
    Published0,   \* days with a published rate at the start
    RateDay,      \* days on which the provider ever publishes
    Content,      \* what a write sets: [date, amount, currency, category, merchant]
    MaxWrites,    \* bound: writes of the ledger
    MaxFailures,  \* bound: failed calls
    MaxRestarts   \* bound: restarts of a process

None == [id |-> 0]
Id == DOMAIN Ledger0
Foreign == DOMAIN Rate

IsContent(c) == c.date \in Day /\ c.amount \in Nat \ {0} /\ c.currency \in Foreign \cup {Home}

(* The record with this id: whoever may write there wrote it there.        *)
IsRecord(e, i) ==
    /\ e.id = i /\ e.made = i /\ IsContent(e)
    /\ \E at \in Place : e.user = at.user /\ e.chat = at.chat

Kind == {"today", "yesterday", "this_week", "last_week", "this_month", "last_month"}
Period == [kind : Kind] \cup [kind : {"custom"}, from : Nat, to : Nat]

(* A read call as its schema lets it through: a comparison has two periods.*)
IsQuestion(q) ==
    /\ q.fn \in {"summary", "compare", "top", "recent"}
    /\ q.periods \in Seq(Period)
    /\ q.fn # "recent" => Len(q.periods) = IF q.fn = "compare" THEN 2 ELSE 1

ASSUME StatisticsAssumption ==
    /\ ProcessOf \in [Worker -> Process]
    /\ IsFiniteSet(Id) /\ Id \subseteq Nat \ {0}
    /\ \A i \in Id : Ledger0[i] = None \/ IsRecord(Ledger0[i], i)
    /\ \A c \in Content : IsContent(c)
    /\ \A w \in Worker : \A q \in Question[w] : IsQuestion(q)
    /\ Day \subseteq Nat \ {0} /\ MonthStart \subseteq Nat
    /\ \A d \in Day : Cardinality({m \in MonthStart : m <= d}) >= 2
    /\ RateDay \subseteq Day /\ Published0 \subseteq RateDay
    /\ Home \notin Foreign /\ \A c \in Foreign : Rate[c] \in [RateDay -> Nat \ {0}]
    /\ Lookback \in Nat /\ MaxRange \in Nat /\ MaxLimit \in Nat
    /\ MaxWrites \in Nat /\ MaxFailures \in Nat /\ MaxRestarts \in Nat

VARIABLES
    day,        \* the date today
    published,  \* days whose rates the provider has published
    ledger,     \* transactions by id
    cache,      \* _cache of each process: rate day by currency and date
    base,       \* days published when the process started that answers a thread's question
    pc,         \* where each thread is
    asked,      \* the question it answers
    sent,       \* the date of the question's message
    half,       \* the period of the question it works on
    rows,       \* records of that period it has still to convert
    priced,     \* records it has converted
    got,        \* rate day in a response it has still to store, 0 for none
    answer,     \* what it answered
    touched,    \* ids written since the question was asked
    writes, failures, restarts

marketVars == <<day, published>>
localVars == <<half, rows, priced, got>>
bounds == <<writes, failures, restarts>>
vars == <<day, published, ledger, cache, base, pc, asked, sent, half, rows, priced,
          got, answer, touched, writes, failures, restarts>>

NoQuestion == [fn |-> "none"]
NoAnswer == [status |-> "none"]
NoRates == [k \in {} |-> 0]

Init ==
    /\ day \in {d \in Day : \A e \in Published0 : e <= d}
    /\ published = Published0
    /\ ledger = Ledger0
    /\ cache = [p \in Process |-> NoRates]
    /\ base = [w \in Worker |-> Published0]
    /\ pc = [w \in Worker |-> "idle"]
    /\ asked = [w \in Worker |-> NoQuestion]
    /\ sent = [w \in Worker |-> 0]
    /\ half = [w \in Worker |-> 1]
    /\ rows = [w \in Worker |-> {}]
    /\ priced = [w \in Worker |-> {}]
    /\ got = [w \in Worker |-> 0]
    /\ answer = [w \in Worker |-> NoAnswer]
    /\ touched = [w \in Worker |-> {}]
    /\ writes = 0 /\ failures = 0 /\ restarts = 0

Goto(w, label) == pc' = [pc EXCEPT ![w] = label]
Failure == failures < MaxFailures /\ failures' = failures + 1

-----------------------------------------------------------------------------
(* The world: days, rates, writes *)

NextDay ==
    /\ \E d \in Day :
        /\ d > day /\ \A e \in Day : e > day => e >= d
        /\ day' = d
    /\ UNCHANGED <<published, ledger, cache, base, pc, asked, sent, localVars, answer,
                   touched, bounds>>

(* A day's rate may be published the same day, later, or never.            *)
Publish(d) ==
    /\ d <= day /\ d \notin published
    /\ published' = published \cup {d}
    /\ UNCHANGED <<day, ledger, cache, base, pc, asked, sent, localVars, answer, touched,
                   bounds>>

(* A committed record_expense or update_expense: an update keeps the user, *)
(* the chat of the recording message and created_at.                       *)
Written(i, at, c) ==
    [id |-> i, user |-> at.user, chat |-> at.chat, made |-> i, date |-> c.date,
     amount |-> c.amount, currency |-> c.currency, category |-> c.category,
     merchant |-> c.merchant]

WriteLedger(i, at, c) ==
    /\ writes < MaxWrites
    /\ ledger[i] # None => at = [user |-> ledger[i].user, chat |-> ledger[i].chat]
    /\ ledger' = [ledger EXCEPT ![i] = Written(i, at, c)]
    /\ touched' = [w \in Worker |-> touched[w] \cup {i}]
    /\ writes' = writes + 1
    /\ UNCHANGED <<marketVars, cache, base, pc, asked, sent, localVars, answer, failures,
                   restarts>>

-----------------------------------------------------------------------------
(* A read call: scope, period, filters, limit *)

(* resolve_period: a pair of inclusive dates.                              *)
MonthFirst(d) == Max({m \in MonthStart : m <= d})
Monday(d) == d - (d % 7)

Resolve(p, today) ==
    CASE p.kind = "today" -> <<today, today>>
      [] p.kind = "yesterday" -> <<today - 1, today - 1>>
      [] p.kind = "this_week" -> <<Monday(today), today>>
      [] p.kind = "last_week" -> <<Monday(today) - 7, Monday(today) - 1>>
      [] p.kind = "this_month" -> <<MonthFirst(today), today>>
      [] p.kind = "last_month" ->
            <<MonthFirst(MonthFirst(today) - 1), MonthFirst(today) - 1>>
      [] p.kind = "custom" -> <<p.from, p.to>>

(* _validate_range and _validated_limit: else the batch is refused.        *)
ValidRange(r) == r[1] <= r[2] /\ r[2] - r[1] + 1 <= MaxRange

Acceptable(q, today) ==
    /\ \A k \in DOMAIN q.periods :
        q.periods[k].kind = "custom" => ValidRange(Resolve(q.periods[k], today))
    /\ q.fn \in {"top", "recent"} => q.limit \in 1 .. MaxLimit

Ask(w, q) ==
    /\ pc[w] = "idle"
    /\ asked' = [asked EXCEPT ![w] = q]
    /\ sent' = [sent EXCEPT ![w] = day]
    /\ touched' = [touched EXCEPT ![w] = {}]
    /\ \/ /\ Acceptable(q, day)
          /\ Goto(w, "read") /\ UNCHANGED answer
       \/ /\ ~Acceptable(q, day)
          /\ Goto(w, "done")
          /\ answer' = [answer EXCEPT ![w] = [status |-> "refused"]]
    /\ UNCHANGED <<marketVars, ledger, cache, base, localVars, bounds>>

(* Mutant: a group reads what its members recorded, wherever they did.     *)
MembersScope(e, q) ==
    IF q.personal \/ q.chat \notin Group THEN e.user = q.user
    ELSE [user |-> e.user, chat |-> q.chat] \in Place

(* _resolved_statistics_scope and the two pairs of queries: personal is    *)
(* everything of the requester, conversation everything recorded there.    *)
InScope(e, q) ==
    IF q.personal \/ q.chat \notin Group THEN e.user = q.user ELSE e.chat = q.chat

(* Mutant: the last day does not count.                                    *)
BeforeEnd(e, r) == e.date >= r[1] /\ e.date < r[2]

InPeriod(e, r) == e.date >= r[1] /\ e.date <= r[2]

(* A filter is the set of values it lets through.                          *)
Matches(e, q) == e.category \in q.categories /\ e.merchant \in q.merchants

Recorded == {ledger[i] : i \in Id} \ {None}

(* list_expenses and _filter_records, for the period worked on.            *)
ReadExpenses(w) ==
    LET q == asked[w]
        r == Resolve(q.periods[half[w]], sent[w])
    IN
    /\ pc[w] = "read" /\ q.fn # "recent"
    /\ rows' = [rows EXCEPT ![w] =
           {e \in Recorded : InScope(e, q) /\ InPeriod(e, r) /\ Matches(e, q)}]
    /\ Goto(w, "convert")
    /\ UNCHANGED <<marketVars, ledger, cache, base, asked, sent, half, priced, got, answer,
                   touched, bounds>>

-----------------------------------------------------------------------------
(* Lists *)

(* The first n of a set under a strict order.                              *)
Least(S, Lt(_, _), n) ==
    LET before(x) == Cardinality({y \in S : Lt(y, x)}) IN
    [k \in 1 .. Min({n, Cardinality(S)}) |-> CHOOSE x \in S : before(x) = k - 1]

(* order by transaction_date, created_at and id, the newest first.         *)
Newer(e, f) == e.date > f.date \/ (e.date = f.date /\ e.made > f.made)

(* Mutant: the limit is applied before the filters.                        *)
LimitThenFilter(q) ==
    SelectSeq(Least({e \in Recorded : InScope(e, q)}, Newer, q.limit),
              LAMBDA e : Matches(e, q))

Recent(q) == Least({e \in Recorded : InScope(e, q) /\ Matches(e, q)}, Newer, q.limit)

ListRecent(w) ==
    /\ pc[w] = "read" /\ asked[w].fn = "recent"
    /\ answer' = [answer EXCEPT ![w] = [status |-> "list", list |-> Recent(asked[w])]]
    /\ Goto(w, "done")
    /\ UNCHANGED <<marketVars, ledger, cache, base, asked, sent, localVars, touched, bounds>>

(* get_top_expenses: by converted amount, then date, then id.              *)
Dearer(x, y) ==
    \/ x.worth > y.worth
    \/ /\ x.worth = y.worth
       /\ x.row.date < y.row.date \/ (x.row.date = y.row.date /\ x.row.id < y.row.id)

-----------------------------------------------------------------------------
(* Conversion: _convert_amount, convert and _rate_for *)

(* Mutant: one rate for every date.                                        *)
PairOnly(e) == <<e.currency>>

RateKey(e) == <<e.currency, e.date>>

(* Records are converted in the order of the query.                        *)
Head1(w) == CHOOSE e \in rows[w] : \A f \in rows[w] : f = e \/ Newer(f, e)

Known(w, e) == e.currency = Home \/ RateKey(e) \in DOMAIN cache[ProcessOf[w]]
KnownRateDay(w, e) == IF e.currency = Home THEN 0 ELSE cache[ProcessOf[w]][RateKey(e)]

Worth(e, d) == IF d = 0 THEN e.amount ELSE e.amount * Rate[e.currency][d]

(* The record leaves the rows with the rate of day d.                      *)
Price(w, e, d) ==
    /\ priced' = [priced EXCEPT ![w] =
           @ \cup {[half |-> half[w], row |-> e, rateDay |-> d, worth |-> Worth(e, d)]}]
    /\ rows' = [rows EXCEPT ![w] = @ \ {e}]

(* Home currency, or a hit in the cache.                                   *)
Convert(w) ==
    /\ pc[w] = "convert" /\ rows[w] # {}
    /\ LET e == Head1(w) IN Known(w, e) /\ Price(w, e, KnownRateDay(w, e))
    /\ UNCHANGED <<marketVars, ledger, cache, base, pc, asked, sent, half, got, answer,
                   touched, bounds>>

(* Mutant: the first rate of the list, not the latest.                     *)
Oldest(S) == Min(S)

(* max by rate_date.                                                       *)
Newest(S) == Max(S)

(* Rates on or before the date; a later one would be rejected.             *)
UpTo(d) == {r \in published : r <= d}

(* _fetch_direct_rate: on a date without a rate the provider answers with  *)
(* an earlier one or with an error.                                        *)
FetchDirect(w) ==
    /\ pc[w] = "convert" /\ rows[w] # {}
    /\ LET e == Head1(w) IN
        /\ ~Known(w, e)
        /\ \/ /\ UpTo(e.date) # {}
              /\ got' = [got EXCEPT ![w] = Max(UpTo(e.date))]
              /\ Goto(w, "store") /\ UNCHANGED failures
           \/ /\ e.date \notin published
              /\ Goto(w, "earlier") /\ UNCHANGED <<got, failures>>
           \/ /\ Failure
              /\ Goto(w, "earlier") /\ UNCHANGED got
    /\ UNCHANGED <<marketVars, ledger, cache, base, asked, sent, half, rows, priced, answer,
                   touched, writes, restarts>>

(* The request ends in an error, which the handler turns into a reply.     *)
GiveUp(w) ==
    /\ Goto(w, "done")
    /\ answer' = [answer EXCEPT ![w] = [status |-> "failed"]]

(* _fetch_previous_available_rate: the latest of the days looked back.     *)
FetchEarlier(w) ==
    LET e == Head1(w)
        window == {r \in UpTo(e.date) : r >= e.date - Lookback}
    IN
    /\ pc[w] = "earlier"
    /\ \/ /\ window # {}
          /\ got' = [got EXCEPT ![w] = Newest(window)]
          /\ Goto(w, "store") /\ UNCHANGED answer
       \/ window = {} /\ GiveUp(w) /\ UNCHANGED got
    /\ UNCHANGED <<marketVars, ledger, cache, base, asked, sent, half, rows, priced, touched,
                   bounds>>

(* The response is cached under the date asked for, whatever another       *)
(* thread put there meanwhile, and the record is converted with it.        *)
Store(w) ==
    LET e == Head1(w)
        c == cache[ProcessOf[w]]
    IN
    /\ pc[w] = "store"
    /\ cache' = [cache EXCEPT ![ProcessOf[w]] =
           [k \in DOMAIN c \cup {RateKey(e)} |-> IF k = RateKey(e) THEN got[w] ELSE c[k]]]
    /\ Price(w, e, got[w])
    /\ got' = [got EXCEPT ![w] = 0]
    /\ Goto(w, "convert")
    /\ UNCHANGED <<marketVars, ledger, base, asked, sent, half, answer, touched, bounds>>

(* compare_spending_periods: the second summary, with a query of its own.  *)
NextHalf(w) ==
    /\ pc[w] = "convert" /\ rows[w] = {} /\ half[w] < Len(asked[w].periods)
    /\ half' = [half EXCEPT ![w] = @ + 1]
    /\ Goto(w, "read")
    /\ UNCHANGED <<marketVars, ledger, cache, base, asked, sent, rows, priced, got, answer,
                   touched, bounds>>

(* summarize_expense_records and what render_spending_summary shows.       *)
Summary(S) ==
    LET worth(x) == x.worth
        amount(x) == x.row.amount
        foreign == {x \in S : x.row.currency # Home}
    IN
    [total      |-> MapThenSumSet(worth, S),
     count      |-> Cardinality(S),
     byCategory |-> [c \in {x.row.category : x \in S} |->
                        MapThenSumSet(worth, {x \in S : x.row.category = c})],
     foreign    |-> [c \in {x.row.currency : x \in foreign} |->
                        MapThenSumSet(amount, {x \in S : x.row.currency = c})],
     rateDates  |-> {<<x.row.currency, x.rateDay>> : x \in foreign}]

Answer(w) ==
    LET q == asked[w]
        part(k) == {x \in priced[w] : x.half = k}
        sums == [k \in DOMAIN q.periods |-> Summary(part(k))]
    IN
    /\ pc[w] = "convert" /\ rows[w] = {} /\ half[w] = Len(q.periods)
    /\ answer' = [answer EXCEPT ![w] =
           CASE q.fn = "summary" -> [status |-> "sums", sums |-> sums]
             [] q.fn = "compare" -> [status |-> "sums", sums |-> sums,
                                     difference |-> sums[1].total - sums[2].total]
             [] q.fn = "top" -> [status |-> "top", list |-> Least(part(1), Dearer, q.limit)]]
    /\ Goto(w, "done")
    /\ UNCHANGED <<marketVars, ledger, cache, base, asked, sent, localVars, touched, bounds>>

-----------------------------------------------------------------------------
(* Failures *)

(* A query, or the second HTTP call, fails.                                *)
CallFails(w) ==
    /\ pc[w] \in {"read", "earlier"}
    /\ Failure
    /\ GiveUp(w)
    /\ UNCHANGED <<marketVars, ledger, cache, base, asked, sent, localVars, touched, writes,
                   restarts>>

(* The process is replaced: its cache is empty, and the provider of the    *)
(* message redelivers what was not answered.                               *)
Restart(p) ==
    LET lost(w) == ProcessOf[w] = p /\ pc[w] \notin {"idle", "done"} IN
    /\ restarts < MaxRestarts
    /\ restarts' = restarts + 1
    /\ cache' = [cache EXCEPT ![p] = NoRates]
    /\ base' = [w \in Worker |->
           IF ProcessOf[w] = p /\ pc[w] # "done" THEN published ELSE base[w]]
    /\ pc' = [w \in Worker |-> IF lost(w) THEN "read" ELSE pc[w]]
    /\ half' = [w \in Worker |-> IF lost(w) THEN 1 ELSE half[w]]
    /\ rows' = [w \in Worker |-> IF lost(w) THEN {} ELSE rows[w]]
    /\ priced' = [w \in Worker |-> IF lost(w) THEN {} ELSE priced[w]]
    /\ got' = [w \in Worker |-> IF lost(w) THEN 0 ELSE got[w]]
    /\ UNCHANGED <<marketVars, ledger, asked, sent, answer, touched, writes, failures>>

-----------------------------------------------------------------------------
WorkerStep(w) ==
    \/ ReadExpenses(w) \/ ListRecent(w) \/ Convert(w) \/ FetchDirect(w)
    \/ FetchEarlier(w) \/ Store(w) \/ NextHalf(w) \/ Answer(w)

Next ==
    \/ NextDay
    \/ \E d \in RateDay : Publish(d)
    \/ \E i \in Id, at \in Place, c \in Content : WriteLedger(i, at, c)
    \/ \E w \in Worker : \E q \in Question[w] : Ask(w, q)
    \/ \E w \in Worker : WorkerStep(w) \/ CallFails(w)
    \/ \E p \in Process : Restart(p)

Spec == Init /\ [][Next]_vars

-----------------------------------------------------------------------------
(* Properties *)

Shown(w) == UNION {{x.row : x \in priced[w]},
                   IF answer[w].status = "list"
                   THEN {answer[w].list[k] : k \in DOMAIN answer[w].list} ELSE {}}

(* Every variable has its type.                                            *)
StatisticsTypeOK ==
    /\ day \in Day /\ published \subseteq RateDay
    /\ \A i \in Id : ledger[i] = None \/ IsRecord(ledger[i], i)
    /\ \A p \in Process :
        /\ DOMAIN cache[p] \subseteq Foreign \X Nat
        /\ \A k \in DOMAIN cache[p] : cache[p][k] \in RateDay
    /\ base \in [Worker -> SUBSET RateDay]
    /\ pc \in [Worker -> {"idle", "read", "convert", "earlier", "store", "done"}]
    /\ \A w \in Worker : asked[w] \in Question[w] \cup {NoQuestion}
    /\ sent \in [Worker -> Day \cup {0}]
    /\ half \in [Worker -> 1 .. 2]
    /\ got \in [Worker -> RateDay \cup {0}]
    /\ \A w \in Worker :
        /\ pc[w] = "done" <=> answer[w] # NoAnswer
        /\ pc[w] = "idle" <=> asked[w] = NoQuestion
        /\ got[w] # 0 <=> pc[w] = "store"
        /\ \A x \in priced[w] : x.half \in 1 .. half[w] /\ x.worth \in Nat \ {0}
        /\ touched[w] \subseteq Id

(* What a group is told was recorded in that group, by whomever; what a    *)
(* private chat is told, or somebody who asked for their own in a group,   *)
(* is the requester's.  It holds of every record the answer is made from,  *)
(* whatever is written, published or restarted meanwhile.                  *)
AnswersStayInScope ==
    \A w \in Worker : \A e \in Shown(w) :
        \/ e.chat = asked[w].chat
        \/ e.user = asked[w].user /\ (asked[w].personal \/ asked[w].chat \notin Group)

(* The days a period means, by the calendar and not by resolve_period.     *)
MonthOf(d) == Cardinality({m \in MonthStart : m <= d})

DaysOf(p, today) ==
    {d \in Day :
        CASE p.kind = "today" -> d = today
          [] p.kind = "yesterday" -> d + 1 = today
          [] p.kind = "this_week" -> d \div 7 = today \div 7 /\ d <= today
          [] p.kind = "last_week" -> d \div 7 = (today \div 7) - 1
          [] p.kind = "this_month" -> MonthOf(d) = MonthOf(today) /\ d <= today
          [] p.kind = "last_month" -> MonthOf(d) = MonthOf(today) - 1
          [] p.kind = "custom" -> d \in p.from .. p.to}

(* In the answer to a summary, comparison or top list, each period counts  *)
(* exactly its expenses: one that nobody wrote while the question was      *)
(* answered counts in the periods its date belongs to on the day of the    *)
(* message, and in no other, though a comparison reads the ledger twice    *)
(* and a restart reads it again, perhaps on a later day.                   *)
EveryPeriodCounts ==
    \A w \in Worker : answer[w].status \in {"sums", "top"} =>
        LET q == asked[w] IN
        \A i \in Id \ touched[w], k \in DOMAIN q.periods :
            LET e == ledger[i]
                counted == e # None /\ e.date \in DaysOf(q.periods[k], sent[w])
                           /\ Matches(e, q)
                           /\ (e.user = q.user \/ q.chat \in Group)
                           /\ (q.personal \/ q.chat \notin Group => e.user = q.user)
                           /\ (~q.personal /\ q.chat \in Group => e.chat = q.chat)
            IN  counted <=> \E x \in priced[w] : x.half = k /\ x.row = e

(* An amount is converted with a published rate, no later than the expense *)
(* and at least as late as any published when the process started.         *)
UsableRate(x, w) ==
    /\ x.rateDay \in published /\ x.rateDay <= x.row.date
    /\ \A d \in base[w] : d <= x.row.date => d <= x.rateDay
    /\ x.worth = x.row.amount * Rate[x.row.currency][x.rateDay]

RatesUsable ==
    \A w \in Worker : \A x \in priced[w] :
        IF x.row.currency = Home THEN x.worth = x.row.amount ELSE UsableRate(x, w)

RatesNamed ==
    \A w \in Worker : answer[w].status = "sums" => \A k \in DOMAIN answer[w].sums :
        LET s == answer[w].sums[k] IN
        /\ {c \in Foreign : \E d \in RateDay : <<c, d>> \in s.rateDates} = DOMAIN s.foreign
        /\ \A x \in priced[w] : x.half = k /\ x.row.currency # Home =>
               <<x.row.currency, x.rateDay>> \in s.rateDates

TotalsAddUp ==
    \A w \in Worker : answer[w].status = "sums" => \A k \in DOMAIN answer[w].sums :
        LET s == answer[w].sums[k]
            worth(c) == s.byCategory[c]
        IN  s.total = MapThenSumSet(worth, DOMAIN s.byCategory)

FailuresExplained ==
    \A w \in Worker : answer[w].status = "failed" =>
        \/ failures > 0 \/ touched[w] # {}
        \/ \E i \in Id : /\ ledger[i] # None /\ ledger[i].currency # Home
                         /\ \A d \in base[w] :
                                d \notin ledger[i].date - Lookback .. ledger[i].date

(* Every foreign amount is converted with a published rate of a day the    *)
(* answer names, no later than the expense and at least as late as any     *)
(* that was published when the process started, whichever thread's         *)
(* response the cache kept.  Totals, category and foreign subtotals are    *)
(* those amounts.  And statistics fail only if a call failed or an expense *)
(* of the ledger had no rate for the days looked back.                     *)
RatesAsReported == RatesUsable /\ RatesNamed /\ TotalsAddUp /\ FailuresExplained

(* A list has as many entries as there are, up to the limit, in order, and *)
(* no entry that was left out should have been in: for the top list by the *)
(* amounts it was converted to, for the recent list among the expenses     *)
(* that pass the filters and that nobody wrote meanwhile.                  *)
ListsAreTheRightOnes ==
    \A w \in Worker :
        LET a == answer[w]
            q == asked[w]
            listed == {a.list[k] : k \in DOMAIN a.list}
        IN
        /\ a.status = "top" =>
            /\ Len(a.list) = Min({q.limit, Cardinality(priced[w])})
            /\ \A x \in listed, y \in priced[w] \ listed : x.worth >= y.worth
            /\ \A j, k \in DOMAIN a.list : j < k => a.list[j].worth >= a.list[k].worth
        /\ a.status = "list" =>
            /\ Len(a.list) <= q.limit /\ Cardinality(listed) = Len(a.list)
            /\ \A j, k \in DOMAIN a.list : j < k => a.list[j].date >= a.list[k].date
            /\ \A e \in listed : Matches(e, q)
            /\ \A i \in Id \ touched[w] :
                LET e == ledger[i] IN
                e # None /\ InScope(e, q) /\ Matches(e, q) /\ e \notin listed =>
                    Len(a.list) = q.limit /\ \A f \in listed : f.date >= e.date
=============================================================================
